------------------------------ MODULE Storage ------------------------------
(***************************************************************************)
(* One torrent in XD's filesystem storage, lib/storage/fs.go: its data     *)
(* files, its bitfield in memory and on disk and the setting that says     *)
(* where its files are, through download, deep check, the move to the      *)
(* seeding directory, deletion, crash and restart.                         *)
(*                                                                         *)
(* The goroutines are the torrent's main one (loading the bitfield, then   *)
(* VerifyAll when the torrent is added or Seed once it is done), the       *)
(* connections that store pieces, and one that deletes the torrent.        *)
(***************************************************************************)
EXTENDS Naturals, FiniteSets

CONSTANTS
  Files,       \* the torrent's files
  Pieces,      \* piece indices
  Spans,       \* Spans[i]: the files piece i has a part in
  Conns,       \* peer connections
  DataDir, SeedingDir,
  MaxFaults,   \* bound on damaged parts, failed moves, writes and removals
  MaxCrashes,  \* bound on ends of the process
  None,        \* nil, or no such file
  Empty        \* a bitfield file that is created and not yet written

Dirs == {DataDir, SeedingDir}

ASSUME PiecesAssumption ==
  /\ Pieces \subseteq Nat
  /\ Spans \in [Pieces -> SUBSET Files]
  /\ \A i \in Pieces : Spans[i] # {}
ASSUME DirsAssumption == DataDir # SeedingDir /\ None \notin Dirs
ASSUME BoundsAssumption == MaxFaults \in Nat /\ MaxCrashes \in Nat
ASSUME NoneAssumption ==
  None # Empty /\ \A S \in SUBSET Pieces : None # S /\ Empty # S

VARIABLES
  files,     \* files[d][f]: the pieces whose part in file f under d is right, or None
  roots,     \* where the torrent has its own directory, if it is one of several files
  bfFile,    \* the bitfield file: None, Empty, or the set written last
  settings,  \* "dir" in the settings file, or None
  meta,      \* the .torrent file is in MetaDir
  up,        \* the torrent is open in a running process
  dir,       \* fsTorrent.dir
  bf,        \* fsTorrent.bf
  seeding,   \* fsTorrent.seeding
  main,      \* where the torrent's main goroutine is
  conn,      \* where each connection's handlePieceData is
  del,       \* what Delete removes next, or "none"
  mishap,    \* files and bitfield have come apart from outside the code's care
  unmoved,   \* history: seeding since it was opened, without a move being tried
  faults, crashes

disk == <<files, roots, bfFile, settings, meta>>
bounds == <<unmoved, faults, crashes>>
vars == <<disk, up, dir, bf, seeding, main, conn, del, mishap, bounds>>

-----------------------------------------------------------------------------
MainIdle == [pc |-> "idle", job |-> "open", todo |-> {}, idx |-> None, snap |-> {},
             moves |-> {}, err |-> FALSE]
ConnIdle == [pc |-> "idle", piece |-> None, parts |-> {}, snap |-> {}]

NoFiles == [f \in Files |-> None]

HasRoot(d) == Cardinality(Files) = 1 \/ d \in roots

Readable(d, i) == \A f \in Spans[i] : files[d][f] # None
GoodPart(d, f, i) == files[d][f] # None /\ i \in files[d][f]
Good(d) == {i \in Pieces : \A f \in Spans[i] : GoodPart(d, f, i)}

\* fsTorrent.bfmtx is held while the bitfield is loaded and by VerifyAll,
\* fsTorrent.access by MoveTo
BfLocked == main.pc \in {"load", "create", "check", "have", "havenot"}
Moving   == main.pc \in {"move", "remove", "settings"}
Quiet    == main.pc = "idle" /\ \A c \in Conns : conn[c].pc = "idle"

\* Torrent.Done, of a torrent the swarm has and is not closing
InSwarm == up /\ main.job # "add" /\ del = "none"
Done    == bf = Pieces

-----------------------------------------------------------------------------
(* Opening.                                                                *)

\* Allocate: the files that are missing are created, filled with zeros
Allocated(d) == [files EXCEPT ![d] = [f \in Files |-> IF @[f] = None THEN {} ELSE @[f]]]

OpenAt(d, job) ==
  /\ ~up /\ Quiet
  /\ up' = TRUE
  /\ dir' = d
  /\ files' = Allocated(d)
  /\ roots' = roots \union {d}
  /\ bf' = None
  /\ seeding' = FALSE
  /\ main' = [MainIdle EXCEPT !.pc = "load", !.job = job]
  /\ unmoved' = FALSE
  /\ UNCHANGED <<bfFile, conn, del, faults, crashes>>

\* mutant: no default for a torrent without settings
OpenAllTorrentsNoDefault ==
  /\ meta
  /\ OpenAt(settings, "open")
  /\ UNCHANGED <<settings, meta, mishap>>

\* OpenAllTorrents, at the start of the process
OpenAllTorrents ==
  LET d == IF settings = None THEN DataDir ELSE settings IN
  /\ meta
  /\ OpenAt(d, "open")
  /\ settings' = d
  /\ UNCHANGED <<meta, mishap>>

\* a torrent file is added: OpenTorrent, then VerifyAll, then it is in the swarm;
\* the settings of an earlier torrent with this infohash may still be there
AddTorrent ==
  /\ ~meta
  /\ OpenAt(DataDir, "add")
  /\ meta' = TRUE
  /\ mishap' = (mishap \/ settings \notin {None, DataDir})
  /\ UNCHANGED settings

\* the bitfield is there: a deep check begins, or the torrent is ready
Loaded(S) ==
  /\ bf' = S
  /\ main' = IF main.job = "add" THEN [main EXCEPT !.pc = "check", !.todo = Pieces]
             ELSE MainIdle

\* ensureBitfield: the bitfield is read from its file, or a new one is created
LoadBitfield ==
  /\ main.pc = "load"
  /\ \/ /\ bfFile \notin {None, Empty}
        /\ Loaded(bfFile)
        /\ UNCHANGED bfFile
     \/ /\ bfFile = None
        /\ bfFile' = Empty
        /\ main' = [main EXCEPT !.pc = "create"]
        /\ UNCHANGED bf
  /\ UNCHANGED <<files, roots, settings, meta, up, dir, seeding, conn, del, mishap, bounds>>

CreateNewBitfield ==
  /\ main.pc = "create"
  /\ bfFile' = {}
  /\ Loaded({})
  /\ UNCHANGED <<files, roots, settings, meta, up, dir, seeding, conn, del, mishap, bounds>>

\* a bitfield file that can't be decoded leaves bf nil, and its first use ends the
\* process
NilBitfield ==
  /\ main.pc = "load" /\ bfFile = Empty
  /\ up' = FALSE
  /\ main' = MainIdle
  /\ UNCHANGED <<disk, dir, bf, seeding, conn, del, mishap, bounds>>

-----------------------------------------------------------------------------
(* Downloading: a connection stores a piece part by part, then verifies it. *)

\* some piece is asked for: one we lack, or the one of the last request again
Request(c, i) ==
  /\ InSwarm /\ conn[c].pc = "idle"
  /\ ~BfLocked /\ bf # None /\ ~Done
  /\ conn' = [conn EXCEPT ![c] = [ConnIdle EXCEPT !.pc = "put", !.piece = i,
                                                  !.parts = Spans[i]]]
  /\ UNCHANGED <<disk, up, dir, bf, seeding, main, del, mishap, bounds>>

\* mutant: PutChunk does not wait for MoveTo
PutPartUnlocked(c, f) ==
  LET i == conn[c].piece IN
  /\ conn[c].pc = "put" /\ f \in conn[c].parts
  /\ files' = [files EXCEPT ![dir][f] = IF @ = None THEN {i} ELSE @ \union {i}]
  /\ conn' = [conn EXCEPT ![c].parts = @ \ {f},
                          ![c].pc = IF conn[c].parts = {f} THEN "verify" ELSE @]
  /\ UNCHANGED <<roots, bfFile, settings, meta, up, dir, bf, seeding, main, del, mishap,
                 bounds>>

\* putChunk: written and synced; the file is created when it is missing
PutPart(c, f) ==
  LET i == conn[c].piece IN
  /\ conn[c].pc = "put" /\ f \in conn[c].parts
  /\ ~Moving /\ HasRoot(dir)
  /\ files' = [files EXCEPT ![dir][f] = IF @ = None THEN {i} ELSE @ \union {i}]
  /\ conn' = [conn EXCEPT ![c].parts = @ \ {f},
                          ![c].pc = IF conn[c].parts = {f} THEN "verify" ELSE @]
  /\ UNCHANGED <<roots, bfFile, settings, meta, up, dir, bf, seeding, main, del, mishap,
                 bounds>>

\* the directory is gone: the block is not stored
PutPartFails(c) ==
  /\ conn[c].pc = "put"
  /\ ~Moving /\ ~HasRoot(dir)
  /\ conn' = [conn EXCEPT ![c] = ConnIdle]
  /\ UNCHANGED <<disk, up, dir, bf, seeding, main, del, mishap, bounds>>

\* VerifyPiece: the piece is read and hashed, the byte of its bit loaded
VerifyPiece(c) ==
  LET i == conn[c].piece IN
  /\ conn[c].pc = "verify"
  /\ ~Moving
  /\ conn' = IF Readable(dir, i)
             THEN [conn EXCEPT ![c].pc = IF i \in Good(dir) THEN "have" ELSE "havenot",
                               ![c].snap = bf]
             ELSE [conn EXCEPT ![c] = ConnIdle]
  /\ UNCHANGED <<disk, up, dir, bf, seeding, main, del, mishap, bounds>>

\* the byte is stored with the bit set, and the bitfield flushed, or with it cleared
SetBit(c) ==
  /\ \/ /\ conn[c].pc = "have"
        /\ bf' = conn[c].snap \union {conn[c].piece}
        /\ conn' = [conn EXCEPT ![c].pc = "flush"]
     \/ /\ conn[c].pc = "havenot"
        /\ bf' = conn[c].snap \ {conn[c].piece}
        /\ conn' = [conn EXCEPT ![c] = ConnIdle]
  /\ UNCHANGED <<disk, up, dir, seeding, main, del, mishap, bounds>>

\* Flush: the bitfield is encoded, then written; an error is ignored
Flush(c) ==
  /\ conn[c].pc = "flush"
  /\ ~BfLocked
  /\ conn' = [conn EXCEPT ![c].pc = "write", ![c].snap = bf]
  /\ UNCHANGED <<disk, up, dir, bf, seeding, main, del, mishap, bounds>>

WriteFlush(c) ==
  /\ conn[c].pc = "write"
  /\ \/ bfFile' = conn[c].snap /\ UNCHANGED faults
     \/ faults < MaxFaults /\ faults' = faults + 1 /\ UNCHANGED bfFile
  /\ conn' = [conn EXCEPT ![c] = ConnIdle]
  /\ UNCHANGED <<files, roots, settings, meta, up, dir, bf, seeding, main, del, mishap, unmoved,
                 crashes>>

-----------------------------------------------------------------------------
(* VerifyAll and doSeed.                                                   *)

\* the run loop finds the torrent done and not seeding
Seed ==
  /\ InSwarm /\ main.pc = "idle"
  /\ bf # None /\ Done /\ ~seeding
  /\ main' = [MainIdle EXCEPT !.pc = "check", !.job = "seed", !.todo = Pieces]
  /\ UNCHANGED <<disk, up, dir, bf, seeding, conn, del, mishap, bounds>>

\* VerifyAll verifies the pieces in order; one that can't be read keeps its bit
CheckPiece(i) ==
  /\ main.pc = "check" /\ i \in main.todo
  /\ \A j \in main.todo : i <= j
  /\ main' = IF Readable(dir, i)
             THEN [main EXCEPT !.pc = IF i \in Good(dir) THEN "have" ELSE "havenot",
                               !.idx = i, !.snap = bf, !.todo = @ \ {i}]
             ELSE [main EXCEPT !.todo = @ \ {i}]
  /\ UNCHANGED <<disk, up, dir, bf, seeding, conn, del, mishap, bounds>>

CheckSetBit ==
  /\ main.pc \in {"have", "havenot"}
  /\ bf' = IF main.pc = "have" THEN main.snap \union {main.idx} ELSE main.snap \ {main.idx}
  /\ main' = [main EXCEPT !.pc = "check", !.idx = None, !.snap = {}]
  /\ UNCHANGED <<disk, up, dir, seeding, conn, del, mishap, bounds>>

\* VerifyAll itself marks the torrent as seeding, also one that is added complete
CheckEnd ==
  /\ main.pc = "check" /\ main.todo = {}
  /\ seeding' = Done
  /\ unmoved' = (unmoved \/ (main.job = "add" /\ Done))
  /\ main' = [main EXCEPT !.pc = "flush"]
  /\ UNCHANGED <<disk, up, dir, bf, conn, del, mishap, faults, crashes>>

CheckFlush ==
  /\ main.pc = "flush"
  /\ main' = [main EXCEPT !.pc = "write", !.snap = bf]
  /\ UNCHANGED <<disk, up, dir, bf, seeding, conn, del, mishap, bounds>>

\* mutant: doSeed returns before it says that the torrent is seeding
CheckWriteForgetsSeeding ==
  /\ main.pc = "write"
  /\ bfFile' = main.snap
  /\ \/ /\ main.job = "seed" /\ dir # SeedingDir
        /\ main' = [main EXCEPT !.pc = "move", !.moves = Files, !.snap = {}]
        /\ UNCHANGED seeding
     \/ /\ main.job = "add" \/ dir = SeedingDir
        /\ main' = MainIdle
        /\ seeding' = FALSE
  /\ UNCHANGED <<files, roots, settings, meta, up, dir, bf, conn, del, mishap, bounds>>

\* the check's Flush is written; Seed goes on to move the files unless they are
\* where they belong, and an added torrent is given to the swarm
CheckWrite ==
  /\ main.pc = "write"
  /\ bfFile' = main.snap
  /\ \/ /\ main.job = "seed" /\ dir # SeedingDir
        /\ main' = [main EXCEPT !.pc = "move", !.moves = Files, !.snap = {}]
        /\ UNCHANGED seeding
     \/ /\ main.job = "seed" /\ dir = SeedingDir
        /\ main' = MainIdle
        /\ seeding' = TRUE
     \/ /\ main.job = "add"
        /\ main' = MainIdle
        /\ UNCHANGED seeding
  /\ UNCHANGED <<files, roots, settings, meta, up, dir, bf, conn, del, mishap, bounds>>

\* Flush returns an error: Seed gives up, and the torrent stays as VerifyAll marked it;
\* an added torrent is not added
CheckWriteFails ==
  /\ main.pc = "write" /\ faults < MaxFaults
  /\ main' = MainIdle
  /\ up' = (up /\ main.job # "add")
  /\ faults' = faults + 1
  /\ unmoved' = (unmoved \/ (main.job = "seed" /\ seeding /\ dir # SeedingDir))
  /\ UNCHANGED <<disk, dir, bf, seeding, conn, del, mishap, crashes>>

-----------------------------------------------------------------------------
(* MoveTo.                                                                 *)

\* fs.Move replaces what is at the new path
MoveFile(f) ==
  /\ main.pc = "move" /\ f \in main.moves
  /\ files[dir][f] # None
  /\ files' = [files EXCEPT ![SeedingDir][f] = files[dir][f], ![dir][f] = None]
  /\ roots' = roots \union {SeedingDir}
  /\ main' = [main EXCEPT !.moves = @ \ {f}]
  /\ UNCHANGED <<bfFile, settings, meta, up, dir, bf, seeding, conn, del, mishap, bounds>>

\* a file is not there or can't be moved: the rest stays where it is
MoveFileFails(f) ==
  /\ main.pc = "move" /\ f \in main.moves
  /\ \/ files[dir][f] = None /\ UNCHANGED faults
     \/ files[dir][f] # None /\ faults < MaxFaults /\ faults' = faults + 1
  /\ main' = [main EXCEPT !.pc = "remove", !.moves = {}, !.err = TRUE]
  /\ roots' = roots \union {SeedingDir}
  /\ mishap' = TRUE
  /\ UNCHANGED <<files, bfFile, settings, meta, up, dir, bf, seeding, conn, del, unmoved, crashes>>

\* the old directory goes, with what is left in it
RemoveOld ==
  /\ \/ main.pc = "move" /\ main.moves = {}
     \/ main.pc = "remove"
  /\ files' = [files EXCEPT ![dir] = NoFiles]
  /\ roots' = roots \ {dir}
  /\ main' = [main EXCEPT !.pc = "settings"]
  /\ UNCHANGED <<bfFile, settings, meta, up, dir, bf, seeding, conn, del, mishap, bounds>>

\* mutant: the new directory is not saved
PutSettingsForgets ==
  /\ main.pc = "settings"
  /\ dir' = SeedingDir
  /\ seeding' = ~main.err
  /\ main' = MainIdle
  /\ UNCHANGED <<disk, up, bf, conn, del, mishap, bounds>>

\* putSettings and the end of MoveTo and doSeed
PutSettings ==
  /\ main.pc = "settings"
  /\ settings' = SeedingDir
  /\ dir' = SeedingDir
  /\ seeding' = ~main.err
  /\ main' = MainIdle
  /\ UNCHANGED <<files, roots, bfFile, meta, up, bf, conn, del, mishap, bounds>>

-----------------------------------------------------------------------------
(* Torrent.Delete: Close, which flushes, then three removals.              *)

DeleteStart ==
  /\ InSwarm /\ ~BfLocked /\ bf # None
  /\ bfFile' = bf
  /\ del' = "meta"
  /\ mishap' = (mishap \/ ~Quiet)
  /\ UNCHANGED <<files, roots, settings, meta, up, dir, bf, seeding, main, conn, bounds>>

\* mutant: the data goes before the bitfield
DeleteStepDataFirst ==
  /\ \/ /\ del = "meta"
        /\ meta' = FALSE /\ del' = "files"
        /\ UNCHANGED <<files, roots, bfFile, up>>
     \/ /\ del = "files"
        /\ files' = [files EXCEPT ![dir] = NoFiles]
        /\ roots' = roots \ {dir}
        /\ del' = "bitfield"
        /\ UNCHANGED <<meta, bfFile, up>>
     \/ /\ del = "bitfield"
        /\ bfFile' = None /\ del' = "none" /\ up' = FALSE
        /\ UNCHANGED <<files, roots, meta>>
  /\ UNCHANGED <<settings, dir, bf, seeding, main, conn, mishap, bounds>>

DeleteStep ==
  /\ \/ /\ del = "meta"
        /\ meta' = FALSE /\ del' = "bitfield"
        /\ UNCHANGED <<files, roots, bfFile, up>>
     \/ /\ del = "bitfield"
        /\ bfFile' = None /\ del' = "files"
        /\ UNCHANGED <<files, roots, meta, up>>
     \/ /\ del = "files"
        /\ files' = [files EXCEPT ![dir] = NoFiles]
        /\ roots' = roots \ {dir}
        /\ del' = "none" /\ up' = FALSE
        /\ UNCHANGED <<bfFile, meta>>
  /\ UNCHANGED <<settings, dir, bf, seeding, main, conn, mishap, bounds>>

\* a removal fails: the torrent stays closed until the next start
DeleteFails ==
  /\ del # "none" /\ faults < MaxFaults
  /\ del' = "none" /\ up' = FALSE
  /\ faults' = faults + 1
  /\ UNCHANGED <<disk, dir, bf, seeding, main, conn, mishap, unmoved, crashes>>

-----------------------------------------------------------------------------
(* From outside.                                                           *)

\* the process ends at any moment
Crash ==
  /\ up \/ ~Quiet
  /\ crashes < MaxCrashes
  /\ crashes' = crashes + 1
  /\ up' = FALSE /\ bf' = None /\ seeding' = FALSE /\ del' = "none"
  /\ main' = MainIdle
  /\ conn' = [c \in Conns |-> ConnIdle]
  /\ mishap' = (mishap \/ Moving)
  /\ UNCHANGED <<disk, dir, unmoved, faults>>

\* a part of a file on disk is damaged
Rot(d, f, i) ==
  /\ GoodPart(d, f, i) /\ faults < MaxFaults
  /\ files' = [files EXCEPT ![d][f] = @ \ {i}]
  /\ mishap' = TRUE
  /\ faults' = faults + 1
  /\ UNCHANGED <<roots, bfFile, settings, meta, up, dir, bf, seeding, main, conn, del,
                 unmoved, crashes>>

-----------------------------------------------------------------------------
Init ==
  /\ files = [d \in Dirs |-> NoFiles]
  /\ roots = {} /\ bfFile = None /\ settings = None /\ meta = FALSE
  /\ up = FALSE /\ dir = DataDir /\ bf = None /\ seeding = FALSE
  /\ main = MainIdle
  /\ conn = [c \in Conns |-> ConnIdle]
  /\ del = "none" /\ mishap = FALSE /\ unmoved = FALSE
  /\ faults = 0 /\ crashes = 0

MainStep ==
  \/ LoadBitfield \/ CreateNewBitfield \/ NilBitfield
  \/ Seed \/ CheckSetBit \/ CheckEnd \/ CheckFlush \/ CheckWrite \/ CheckWriteFails
  \/ RemoveOld \/ PutSettings
  \/ \E i \in Pieces : CheckPiece(i)
  \/ \E f \in Files : MoveFile(f) \/ MoveFileFails(f)

ConnStep(c) ==
  \/ PutPartFails(c) \/ VerifyPiece(c) \/ SetBit(c) \/ Flush(c) \/ WriteFlush(c)
  \/ \E f \in Files : PutPart(c, f)

Next ==
  \/ OpenAllTorrents \/ AddTorrent
  \/ MainStep
  \/ \E c \in Conns : ConnStep(c) \/ \E i \in Pieces : Request(c, i)
  \/ DeleteStart \/ DeleteStep \/ DeleteFails
  \/ Crash
  \/ \E d \in Dirs, f \in Files, i \in Pieces : Rot(d, f, i)

Spec == Init /\ [][Next]_vars

\* The main goroutine goes on.
Fairness == WF_vars(MainStep)
FairSpec == Spec /\ Fairness

-----------------------------------------------------------------------------
(* Properties.                                                             *)

FilesType == [Dirs -> [Files -> {None} \union SUBSET Pieces]]
MainType ==
  [pc : {"idle", "load", "create", "check", "have", "havenot", "flush", "write", "move",
         "remove", "settings"},
   job : {"open", "add", "seed"}, todo : SUBSET Pieces, idx : Pieces \union {None},
   snap : SUBSET Pieces, moves : SUBSET Files, err : BOOLEAN]
ConnType ==
  [pc : {"idle", "put", "verify", "have", "havenot", "flush", "write"},
   piece : Pieces \union {None}, parts : SUBSET Files, snap : SUBSET Pieces]

\* The variables have their types.
TypeOK ==
  /\ files \in FilesType
  /\ roots \subseteq Dirs
  /\ bfFile \in {None, Empty} \union SUBSET Pieces
  /\ settings \in Dirs \union {None}
  /\ meta \in BOOLEAN /\ up \in BOOLEAN /\ seeding \in BOOLEAN /\ mishap \in BOOLEAN
  /\ unmoved \in BOOLEAN
  /\ dir \in Dirs
  /\ bf \in {None} \union SUBSET Pieces
  /\ main \in MainType
  /\ conn \in [Conns -> ConnType]
  /\ del \in {"none", "meta", "bitfield", "files"}
  /\ faults \in 0..MaxFaults /\ crashes \in 0..MaxCrashes

\* where the next start looks for the files
Where == IF settings = None THEN DataDir ELSE settings

\* The pieces the bitfield file claims are good where the next start looks for
\* them, and those the bitfield in memory claims are good where it reads them: at
\* every moment, through crashes in a download, a check or a deletion, torrents
\* deleted and added again, and bitfields flushed by several goroutines, unless a
\* disk fault, a move that failed or was cut short, a deletion under a running
\* goroutine or settings left by a deleted torrent came first.
ClaimedOnDisk ==
  ~mishap /\ ~Moving =>
    /\ meta /\ bfFile \notin {None, Empty} => bfFile \subseteq Good(Where)
    /\ up /\ bf # None /\ del = "none" => bf \subseteq Good(dir)

\* Once the files have moved, nothing is left or written any more under the
\* directory they moved from.
OldDirGone ==
  ~mishap /\ up /\ ~Moving /\ dir = SeedingDir => files[DataDir] = NoFiles

\* A torrent that is done comes to be marked as seeding, with nothing under way any
\* more, also when the move fails or the bitfield can't be written, unless the check
\* finds a piece bad or the torrent goes away (fs.go:467-495).  Its files are where
\* seeds belong, or a failed move left them, but for one case: VerifyAll had marked it
\* already and no move was tried, because it was complete when it was added or the
\* check's flush failed (fs.go:398, 478).  storage.go:69 has Seed verify and move.
SeedsWhenDone ==
  up /\ bf # None /\ Done ~>
    \/ seeding /\ main.pc = "idle" /\ (dir = SeedingDir \/ unmoved)
    \/ ~Done \/ del # "none" \/ ~up

\* a piece's parts are all good, wherever they are
Whole(i) == \A f \in Spans[i] : \E d \in Dirs : GoodPart(d, f, i)

\* MoveTo moves data files to the other directory (storage.go:66): only deletion
\* and disk faults lose a piece, not a move or what a restart makes of one.
MoveKeepsData ==
  [][\A i \in Pieces : Whole(i) => Whole(i)' \/ del # "none" \/ faults' # faults]_vars

\* Seed verifies the data and says whether the torrent seeds; when a piece was
\* bad it will be downloaded again (fs.go:490): a torrent that comes out of it as
\* seeding has every piece.
SeedOnlyComplete ==
  [][main.job = "seed" /\ main.pc # "idle" /\ main'.pc = "idle" /\ seeding' => Done']_vars

\* Delete removes all files and metadata (storage.go:56): once a torrent is deleted
\* and every goroutine that worked on it is through, neither data nor bitfield is
\* there.
DeletedIsGone ==
  ~meta /\ ~up /\ Quiet /\ faults = 0 /\ crashes = 0 =>
    bfFile = None /\ \A d \in Dirs : files[d] = NoFiles

=============================================================================
