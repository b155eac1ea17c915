--------------------------- MODULE StorageProofs ---------------------------
(***************************************************************************)
(* Safety of Storage for any number of files, pieces, connections, faults  *)
(* and crashes.                                                            *)
(***************************************************************************)
EXTENDS Storage, TLAPS

-----------------------------------------------------------------------------
(* Types.                                                                  *)

\* A goroutine that works on a piece knows which, and there is a bitfield as long as
\* one works.
Refs ==
  /\ \A c \in Conns : conn[c].pc # "idle" => conn[c].piece \in Pieces /\ bf # None
  /\ main.pc \notin {"idle", "load", "create"} => bf # None
  /\ main.pc \in {"have", "havenot"} => main.idx \in Pieces

Typed == TypeOK /\ Refs

\* nil is not a bitfield, and the goroutines' idle states have their types.
LEMMA Facts ==
  /\ \A S \in SUBSET Pieces : S # None /\ S # Empty
  /\ None \notin Dirs /\ DataDir \in Dirs /\ SeedingDir \in Dirs /\ DataDir # SeedingDir
  /\ MainIdle \in MainType /\ ConnIdle \in ConnType
  /\ MainIdle.pc = "idle" /\ ConnIdle.pc = "idle"
BY NoneAssumption, DirsAssumption DEF MainIdle, ConnIdle, MainType, ConnType, Dirs

\* Creating the missing files keeps the type, and no piece becomes good or bad.
LEMMA AllocatedFacts ==
  ASSUME TypeOK, NEW d \in Dirs
  PROVE  /\ Allocated(d) \in FilesType
         /\ \A e \in Dirs \ {d} : Allocated(d)[e] = files[e]
         /\ \A f \in Files : Allocated(d)[d][f] = IF files[d][f] = None THEN {} ELSE files[d][f]
BY DEF TypeOK, Allocated, FilesType

LEMMA OpenTyped ==
  ASSUME Typed, NEW d \in Dirs, NEW job \in {"open", "add"}, OpenAt(d, job)
  PROVE  /\ files' \in FilesType /\ roots' \subseteq Dirs
         /\ bfFile' = bfFile /\ up' \in BOOLEAN /\ seeding' \in BOOLEAN /\ dir' \in Dirs
         /\ bf' = None /\ main' \in MainType /\ conn' = conn /\ del' = del
         /\ unmoved' = FALSE /\ UNCHANGED <<faults, crashes>>
         /\ Refs'
<1>1. [MainIdle EXCEPT !.pc = "load", !.job = job] \in MainType
  BY Facts DEF MainType
<1>2. main'.pc = "load"
  BY Facts DEF MainType, OpenAt
<1>3. \A c \in Conns : conn[c].pc = "idle"
  BY DEF OpenAt, Quiet
<1>4. QED
  BY <1>1, <1>2, <1>3, AllocatedFacts DEF OpenAt, Typed, TypeOK, Refs

LEMMA TypedOpen ==
  ASSUME Typed, OpenAllTorrents \/ AddTorrent
  PROVE  Typed'
<1>1. CASE OpenAllTorrents
  <2> DEFINE d == IF settings = None THEN DataDir ELSE settings
  <2>1. d \in Dirs
    BY Facts DEF Typed, TypeOK
  <2>2. OpenAt(d, "open") /\ settings' = d /\ UNCHANGED <<meta, mishap>>
    BY <1>1 DEF OpenAllTorrents
  <2> HIDE DEF d
  <2>3. QED
    BY <2>1, <2>2, OpenTyped DEF Typed, TypeOK, bounds
<1>2. CASE AddTorrent
  <2>1. OpenAt(DataDir, "add") /\ meta' = TRUE /\ UNCHANGED settings /\ mishap' \in BOOLEAN
    BY <1>2 DEF AddTorrent, Typed, TypeOK
  <2>2. QED
    BY <2>1, Facts, OpenTyped DEF Typed, TypeOK, bounds
<1>3. QED
  BY <1>1, <1>2

LEMMA TypedLoad ==
  ASSUME Typed, LoadBitfield \/ CreateNewBitfield \/ NilBitfield
  PROVE  Typed'
<1>0. main \in MainType /\ conn \in [Conns -> ConnType]
  BY DEF Typed, TypeOK
<1>1. ASSUME NEW S \in SUBSET Pieces, Loaded(S)
      PROVE  bf' \in SUBSET Pieces /\ bf' # None /\ main' \in MainType
             /\ main'.pc \in {"check", "idle"}
  <2>1. [main EXCEPT !.pc = "check", !.todo = Pieces] \in MainType
    BY <1>0 DEF MainType
  <2>2. QED
    BY <1>1, <2>1, Facts, <1>0 DEF Loaded, MainType
<1>2. CASE LoadBitfield
  <2>1. CASE bfFile \notin {None, Empty} /\ Loaded(bfFile) /\ UNCHANGED bfFile
    BY <1>2, <2>1, <1>1 DEF LoadBitfield, Typed, TypeOK, Refs, bounds
  <2>2. CASE bfFile' = Empty /\ main' = [main EXCEPT !.pc = "create"] /\ UNCHANGED bf
    <3>1. main' \in MainType /\ main'.pc = "create"
      BY <1>0, <2>2 DEF MainType
    <3>2. QED
      BY <1>2, <2>2, <3>1 DEF LoadBitfield, Typed, TypeOK, Refs, bounds
  <2>3. QED
    BY <1>2, <2>1, <2>2 DEF LoadBitfield
<1>3. CASE CreateNewBitfield
  <2>1. Loaded({}) /\ bfFile' = {}
    BY <1>3 DEF CreateNewBitfield
  <2>2. QED
    BY <1>3, <1>1, <2>1 DEF CreateNewBitfield, Typed, TypeOK, Refs, bounds
<1>4. CASE NilBitfield
  <2>1. /\ UNCHANGED <<files, roots, bfFile, settings, meta, dir, bf, seeding, conn, del, mishap,
                       unmoved, faults, crashes>>
        /\ up' = FALSE /\ main' = MainIdle
    BY <1>4 DEF NilBitfield, disk, bounds
  <2>2. QED
    BY <2>1, Facts DEF Typed, TypeOK, Refs
<1>5. QED
  BY <1>2, <1>3, <1>4

LEMMA TypedConn ==
  ASSUME Typed, NEW c \in Conns, ConnStep(c) \/ \E i \in Pieces : Request(c, i)
  PROVE  Typed'
<1>0. /\ conn \in [Conns -> ConnType] /\ files \in FilesType /\ dir \in Dirs
      /\ bf \in {None} \union SUBSET Pieces
  BY DEF Typed, TypeOK
<1> DEFINE i == conn[c].piece
<1>1. ASSUME NEW j \in Pieces, Request(c, j) PROVE Typed'
  <2>1. [ConnIdle EXCEPT !.pc = "put", !.piece = j, !.parts = Spans[j]] \in ConnType
    BY Facts, PiecesAssumption DEF ConnType
  <2>2. conn' \in [Conns -> ConnType] /\ bf # None /\ conn'[c].piece = j
        /\ \A o \in Conns \ {c} : conn'[o] = conn[o]
    BY <1>0, <1>1, <2>1, Facts DEF Request, ConnType
  <2>3. UNCHANGED <<files, roots, bfFile, settings, meta, up, dir, bf, seeding, main, del, mishap,
                    unmoved, faults, crashes>>
    BY <1>1 DEF Request, disk, bounds
  <2>4. QED
    BY <2>2, <2>3 DEF Typed, TypeOK, Refs
<1>2. ASSUME NEW f \in Files, PutPart(c, f) PROVE Typed'
  <2>1. i \in Pieces
    BY <1>2 DEF PutPart, Typed, Refs
  <2>2. files' \in FilesType
    BY <1>0, <1>2, <2>1 DEF PutPart, FilesType
  <2> DEFINE to == IF conn[c].parts = {f} THEN "verify" ELSE conn[c].pc
             new == [conn[c] EXCEPT !.parts = @ \ {f}, !.pc = to]
  <2>a. conn' = [conn EXCEPT ![c] = new] /\ conn[c].pc = "put"
    BY <1>2 DEF PutPart
  <2>b. to \in {"put", "verify"}
    BY <2>a
  <2> HIDE DEF to
  <2>c. new \in ConnType /\ new.piece = conn[c].piece
    BY <1>0, <2>b DEF ConnType
  <2> HIDE DEF new
  <2>3. conn' \in [Conns -> ConnType] /\ \A o \in Conns : conn'[o].piece = conn[o].piece
    BY <1>0, <2>a, <2>c
  <2>4. \A o \in Conns : conn'[o].pc # "idle" => conn[o].pc # "idle"
    BY <1>0, <2>a
  <2>5. QED
    BY <1>2, <2>2, <2>3, <2>4 DEF PutPart, Typed, TypeOK, Refs, bounds
<1>3. CASE PutPartFails(c)
  BY <1>3, <1>0, Facts DEF PutPartFails, Typed, TypeOK, Refs, disk, bounds
<1>4. CASE VerifyPiece(c)
  <2>1. bf \in SUBSET Pieces /\ i \in Pieces
    BY <1>4, <1>0 DEF VerifyPiece, Typed, Refs
  <2>2. conn' \in [Conns -> ConnType]
    BY <1>4, <1>0, <2>1, Facts DEF VerifyPiece, ConnType
  <2>3. \A o \in Conns : conn'[o].pc # "idle" =>
          conn[o].pc # "idle" /\ conn'[o].piece = conn[o].piece
    BY <1>4, <1>0, Facts DEF VerifyPiece, ConnType
  <2>4. QED
    BY <1>4, <2>2, <2>3 DEF VerifyPiece, Typed, TypeOK, Refs, disk, bounds
<1>5. CASE SetBit(c)
  <2>1. i \in Pieces /\ bf' \in SUBSET Pieces /\ bf' # None
    BY <1>5, <1>0, Facts DEF SetBit, Typed, Refs, ConnType
  <2>2. conn' \in [Conns -> ConnType]
    BY <1>5, <1>0, Facts DEF SetBit, ConnType
  <2>3. \A o \in Conns : conn'[o].pc # "idle" =>
          conn[o].pc # "idle" /\ conn'[o].piece = conn[o].piece
    BY <1>5, <1>0, Facts DEF SetBit, ConnType
  <2>4. QED
    BY <1>5, <2>1, <2>2, <2>3 DEF SetBit, Typed, TypeOK, Refs, disk, bounds
<1>6. CASE Flush(c)
  <2>1. bf \in SUBSET Pieces
    BY <1>6, <1>0 DEF Flush, Typed, Refs
  <2>2. conn' \in [Conns -> ConnType]
    BY <1>6, <1>0, <2>1 DEF Flush, ConnType
  <2>3. \A o \in Conns : conn'[o].pc # "idle" =>
          conn[o].pc # "idle" /\ conn'[o].piece = conn[o].piece
    BY <1>6, <1>0 DEF Flush, ConnType
  <2>4. QED
    BY <1>6, <2>2, <2>3 DEF Flush, Typed, TypeOK, Refs, disk, bounds
<1>7. CASE WriteFlush(c)
  <2>1. bfFile' \in {None, Empty} \union SUBSET Pieces /\ faults' \in 0..MaxFaults
    BY <1>7, <1>0, BoundsAssumption DEF WriteFlush, Typed, TypeOK, ConnType
  <2>2. conn' \in [Conns -> ConnType] /\ \A o \in Conns \ {c} : conn'[o] = conn[o]
    BY <1>7, <1>0, Facts DEF WriteFlush, ConnType
  <2>3. conn'[c].pc = "idle"
    BY <1>7, <1>0, Facts DEF WriteFlush
  <2>4. QED
    BY <1>7, <2>1, <2>2, <2>3 DEF WriteFlush, Typed, TypeOK, Refs
<1>8. QED
  BY <1>1, <1>2, <1>3, <1>4, <1>5, <1>6, <1>7 DEF ConnStep

LEMMA TypedMain ==
  ASSUME Typed, MainStep
  PROVE  Typed'
<1>0. /\ main \in MainType /\ files \in FilesType /\ dir \in Dirs
      /\ bf \in {None} \union SUBSET Pieces
  BY DEF Typed, TypeOK
<1>1. CASE LoadBitfield \/ CreateNewBitfield \/ NilBitfield
  BY <1>1, TypedLoad
<1>2. CASE Seed
  <2>1. [MainIdle EXCEPT !.pc = "check", !.job = "seed", !.todo = Pieces] \in MainType
    BY Facts DEF MainType
  <2>2. main'.pc = "check"
    BY <1>2, Facts DEF Seed, MainType
  <2>3. QED
    BY <1>2, <2>1, <2>2 DEF Seed, Typed, TypeOK, Refs, disk, bounds
<1>3. ASSUME NEW i \in Pieces, CheckPiece(i) PROVE Typed'
  <2>1. bf \in SUBSET Pieces
    BY <1>3, <1>0 DEF CheckPiece, Typed, Refs
  <2>2. main' \in MainType /\ (main'.pc \in {"have", "havenot"} => main'.idx \in Pieces)
    BY <1>3, <1>0, <2>1 DEF CheckPiece, MainType
  <2>3. QED
    BY <1>3, <2>1, <2>2, Facts DEF CheckPiece, Typed, TypeOK, Refs, disk, bounds
<1>4. CASE CheckSetBit
  <2>1. bf' \in SUBSET Pieces
    BY <1>4, <1>0 DEF CheckSetBit, Typed, Refs, MainType
  <2>2. main' \in MainType /\ main'.pc = "check"
    BY <1>4, <1>0 DEF CheckSetBit, MainType
  <2>3. QED
    BY <1>4, <2>1, <2>2, Facts DEF CheckSetBit, Typed, TypeOK, Refs, disk, bounds
<1>5. CASE CheckEnd
  <2>1. main' \in MainType /\ main'.pc = "flush" /\ seeding' \in BOOLEAN
    BY <1>5, <1>0 DEF CheckEnd, MainType, Done
  <2>2. QED
    BY <1>5, <2>1, Facts DEF CheckEnd, Typed, TypeOK, Refs, disk, bounds
<1>6. CASE CheckFlush
  <2>1. bf \in SUBSET Pieces
    BY <1>6, <1>0 DEF CheckFlush, Typed, Refs
  <2>2. main' \in MainType /\ main'.pc = "write"
    BY <1>6, <1>0, <2>1 DEF CheckFlush, MainType
  <2>3. QED
    BY <1>6, <2>1, <2>2, Facts DEF CheckFlush, Typed, TypeOK, Refs, disk, bounds
<1>7. CASE CheckWrite
  <2>1. bfFile' \in SUBSET Pieces /\ seeding' \in BOOLEAN
    BY <1>7, <1>0 DEF CheckWrite, Typed, TypeOK, MainType
  <2>2. main' \in MainType /\ main'.pc \in {"move", "idle"} /\ bf # None
    BY <1>7, <1>0, Facts DEF CheckWrite, MainType, Typed, Refs
  <2>3. QED
    BY <1>7, <2>1, <2>2, Facts DEF CheckWrite, Typed, TypeOK, Refs, bounds
<1>8. CASE CheckWriteFails
  <2>1. faults' \in 0..MaxFaults /\ up' \in BOOLEAN
    BY <1>8, BoundsAssumption DEF CheckWriteFails, Typed, TypeOK
  <2>2. QED
    BY <1>8, <2>1, Facts DEF CheckWriteFails, Typed, TypeOK, Refs, disk
<1>9. ASSUME NEW f \in Files, MoveFile(f) PROVE Typed'
  <2>0. roots' \subseteq Dirs /\ f \in Files
        /\ files' = [files EXCEPT ![SeedingDir][f] = files[dir][f], ![dir][f] = None]
    BY <1>9, Facts DEF MoveFile, Typed, TypeOK
  <2>1. files' \in FilesType
    <3>1. files[dir][f] \in {None} \union SUBSET Pieces
      BY <1>0 DEF FilesType
    <3>2. [files EXCEPT ![SeedingDir][f] = files[dir][f]] \in FilesType
      BY <1>0, <3>1, Facts DEF FilesType
    <3>3. \A F \in FilesType : [F EXCEPT ![dir][f] = None] \in FilesType
      BY <1>0 DEF FilesType
    <3>4. QED
      BY <2>0, <3>2, <3>3
  <2>2. main' \in MainType /\ main'.pc = "move"
    BY <1>9, <1>0 DEF MoveFile, MainType
  <2>3. QED
    BY <1>9, <2>0, <2>1, <2>2, Facts DEF MoveFile, Typed, TypeOK, Refs, bounds
<1>10. ASSUME NEW f \in Files, MoveFileFails(f) PROVE Typed'
  <2>1. faults' \in 0..MaxFaults /\ roots' \subseteq Dirs
    BY <1>10, BoundsAssumption, Facts DEF MoveFileFails, Typed, TypeOK
  <2>2. main' \in MainType /\ main'.pc = "remove" /\ bf # None
    BY <1>10, <1>0 DEF MoveFileFails, MainType, Typed, Refs
  <2>3. QED
    BY <1>10, <2>1, <2>2, Facts DEF MoveFileFails, Typed, TypeOK, Refs
<1>11. CASE RemoveOld
  <2>1. files' \in FilesType /\ roots' \subseteq Dirs
    BY <1>11, <1>0, Facts DEF RemoveOld, FilesType, NoFiles, Typed, TypeOK
  <2>2. main' \in MainType /\ main'.pc = "settings" /\ bf # None
    BY <1>11, <1>0 DEF RemoveOld, MainType, Typed, Refs
  <2>3. QED
    BY <1>11, <2>1, <2>2, Facts DEF RemoveOld, Typed, TypeOK, Refs, bounds
<1>12. CASE PutSettings
  <2>1. settings' \in Dirs /\ dir' \in Dirs /\ seeding' \in BOOLEAN
    BY <1>12, <1>0, Facts DEF PutSettings
  <2>2. QED
    BY <1>12, <2>1, Facts DEF PutSettings, Typed, TypeOK, Refs, bounds
<1>13. QED
  BY <1>1, <1>2, <1>3, <1>4, <1>5, <1>6, <1>7, <1>8, <1>9, <1>10, <1>11, <1>12 DEF MainStep

LEMMA TypedRest ==
  ASSUME Typed,
         \/ DeleteStart \/ DeleteStep \/ DeleteFails \/ Crash
         \/ \E d \in Dirs, f \in Files, i \in Pieces : Rot(d, f, i)
         \/ UNCHANGED vars
  PROVE  Typed'
<1>0. files \in FilesType /\ conn \in [Conns -> ConnType] /\ dir \in Dirs
  BY DEF Typed, TypeOK, FilesType, ConnType
<1>1. CASE DeleteStart
  BY <1>1 DEF DeleteStart, Typed, TypeOK, Refs, bounds
<1>2. CASE DeleteStep
  <2>1. files' \in FilesType
    BY <1>2, <1>0 DEF DeleteStep, FilesType, NoFiles
  <2>2. /\ roots' \subseteq Dirs /\ bfFile' \in {None, bfFile} /\ {meta', up'} \subseteq BOOLEAN
        /\ del' \in {"bitfield", "files", "none"}
        /\ UNCHANGED <<settings, dir, bf, seeding, main, conn, mishap, unmoved, faults,
                       crashes>>
    BY <1>2 DEF DeleteStep, Typed, TypeOK, bounds
  <2>3. QED
    BY <2>1, <2>2 DEF Typed, TypeOK, Refs
<1>3. CASE DeleteFails
  <2>1. faults' \in 0..MaxFaults
    BY <1>3, BoundsAssumption DEF DeleteFails, Typed, TypeOK
  <2>2. QED
    BY <1>3, <2>1 DEF DeleteFails, Typed, TypeOK, Refs, disk
<1>4. CASE Crash
  <2>1. crashes' \in 0..MaxCrashes /\ mishap' \in BOOLEAN
    BY <1>4, BoundsAssumption DEF Crash, Typed, TypeOK, Moving
  <2>2. conn' \in [Conns -> ConnType] /\ \A c \in Conns : conn'[c].pc = "idle"
    BY <1>4, Facts DEF Crash
  <2>3. QED
    BY <1>4, <2>1, <2>2, Facts DEF Crash, Typed, TypeOK, Refs, disk
<1>5. ASSUME NEW d \in Dirs, NEW f \in Files, NEW i \in Pieces, Rot(d, f, i) PROVE Typed'
  <2>1. files' \in FilesType
    BY <1>5, <1>0 DEF Rot, GoodPart, FilesType
  <2>2. faults' \in 0..MaxFaults
    BY <1>5, BoundsAssumption DEF Rot, Typed, TypeOK
  <2>3. QED
    BY <1>5, <2>1, <2>2 DEF Rot, Typed, TypeOK, Refs
<1>6. CASE UNCHANGED vars
  BY <1>6 DEF vars, disk, bounds, Typed, TypeOK, Refs
<1>7. QED
  BY <1>1, <1>2, <1>3, <1>4, <1>5, <1>6

LEMMA TypedInit == Init => Typed
<1> SUFFICES ASSUME Init PROVE Typed
  OBVIOUS
<1>1. files \in FilesType
  BY DEF Init, FilesType, NoFiles
<1>2. conn \in [Conns -> ConnType] /\ \A c \in Conns : conn[c].pc = "idle"
  BY Facts DEF Init
<1>3. faults \in 0..MaxFaults /\ crashes \in 0..MaxCrashes
  BY BoundsAssumption DEF Init
<1>4. QED
  BY <1>1, <1>2, <1>3, Facts DEF Init, Typed, TypeOK, Refs

LEMMA TypedStep == Typed /\ [Next]_vars => Typed'
BY TypedOpen, TypedMain, TypedConn, TypedRest DEF Next

\* Every variable keeps its type (fs.go:28-46 and what the goroutines hold).
THEOREM TypeCorrect == Spec => []TypeOK
<1>1. Typed => TypeOK
  BY DEF Typed
<1>2. QED
  BY <1>1, TypedInit, TypedStep, PTL DEF Spec

-----------------------------------------------------------------------------
(* What is claimed is on disk.                                             *)

\* Where a part of a file is: during a move, the files that have moved are in the
\* seeding directory although dir is still the old one.
Place(f) == IF Moving /\ f \notin main.moves THEN SeedingDir ELSE dir

\* The pieces that are good, wherever their files are by now.
Owned == {i \in Pieces : \A f \in Spans[i] : GoodPart(Place(f), f, i)}

ConnsIdle == \A c \in Conns : conn[c].pc = "idle"

\* The settings say where the torrent is.
Located ==
  /\ dir = Where
  /\ Moving => dir = DataDir /\ main.pc # "remove"
  /\ main.pc = "settings" => main.moves = {}

\* Every copy of the bitfield claims good pieces only: the one on disk, the one in
\* memory, and those that goroutines have loaded and are about to store.
Claims ==
  /\ bfFile \notin {None, Empty} => bfFile \subseteq Owned
  /\ up /\ bf # None => bf \subseteq Owned
  /\ \A c \in Conns :
       /\ conn[c].pc \in {"have", "havenot", "write"} => conn[c].snap \subseteq Owned
       /\ conn[c].pc = "have" => conn[c].piece \in Owned
  /\ main.pc \in {"have", "havenot", "write"} => main.snap \subseteq Owned
  /\ main.pc = "have" => main.idx \in Owned

\* Nobody works on a torrent that is closed or being deleted, and no connection on one
\* that is being loaded or added.
Alone ==
  /\ del # "none" \/ ~up => Quiet
  /\ ~up => del = "none"
  /\ del = "files" => bfFile = None
  /\ main.pc \in {"load", "create"} \/ (main.pc # "idle" /\ main.job = "add") => ConnsIdle

OldGone == dir = SeedingDir \/ main.pc = "settings" => files[DataDir] = NoFiles

Consistent == Located /\ Claims /\ Alone /\ OldGone
Sound == ~mishap => Consistent

\* Pieces stay good when no part of a file goes bad and no file changes place.
LEMMA OwnedGrows ==
  ASSUME \A d \in Dirs, f \in Files, i \in Pieces : GoodPart(d, f, i) => GoodPart(d, f, i)',
         \A f \in Files : Place(f) \in Dirs /\ Place(f)' = Place(f)
  PROVE  Owned \subseteq Owned'
BY PiecesAssumption DEF Owned

LEMMA PlaceTyped == Typed => \A f \in Files : Place(f) \in Dirs
BY Facts DEF Typed, TypeOK, Place

\* Steps that move no file and change none.
LEMMA OwnedSame ==
  ASSUME UNCHANGED <<files, dir>>, UNCHANGED main \/ (~Moving /\ ~Moving')
  PROVE  Owned' = Owned
BY DEF Owned, Place, GoodPart, Moving

LEMMA OwnedAtRest == ~Moving => Owned = Good(dir)
BY DEF Owned, Good, Place

\* A connection that works does so on a torrent that is open, loaded and not being
\* deleted.
LEMMA Working ==
  ASSUME Consistent, NEW c \in Conns, conn[c].pc # "idle"
  PROVE  /\ up /\ del = "none"
         /\ ~(main.pc \in {"load", "create"} \/ (main.pc # "idle" /\ main.job = "add"))
BY DEF Consistent, Alone, Quiet, ConnsIdle

LEMMA SoundRequest ==
  ASSUME Typed, Consistent, NEW c \in Conns, NEW i \in Pieces, Request(c, i)
  PROVE  Consistent'
<1>0. conn \in [Conns -> ConnType]
  BY DEF Typed, TypeOK
<1>1. /\ \A o \in Conns \ {c} : conn'[o] = conn[o]
      /\ conn'[c].pc = "put"
      /\ UNCHANGED <<files, settings, bfFile, up, dir, bf, main, del>>
  BY <1>0, Facts DEF Request, ConnIdle, disk
<1>2. Owned' = Owned
  BY <1>1, OwnedSame
<1>3. up /\ del = "none" /\ main.job # "add" /\ main.pc \notin {"load", "create"}
  BY DEF Request, InSwarm, BfLocked
<1>4. Located' /\ OldGone'
  BY <1>1 DEF Consistent, Located, OldGone, Where, Moving
<1>5. Claims'
  BY <1>1, <1>2 DEF Consistent, Claims
<1>6. Alone'
  BY <1>1, <1>3 DEF Alone
<1>7. QED
  BY <1>4, <1>5, <1>6 DEF Consistent

LEMMA SoundPut ==
  ASSUME Typed, Consistent, NEW c \in Conns, NEW f \in Files, PutPart(c, f)
  PROVE  Consistent'
<1>0. conn \in [Conns -> ConnType] /\ files \in FilesType /\ dir \in Dirs
  BY DEF Typed, TypeOK
<1> DEFINE i == conn[c].piece
<1>1. UNCHANGED <<settings, bfFile, up, dir, bf, main, del>> /\ ~Moving
      /\ conn[c].pc = "put"
  BY DEF PutPart
<1>2. \A o \in Conns : conn'[o].pc \in {conn[o].pc, "verify"}
                       /\ conn'[o].piece = conn[o].piece /\ conn'[o].snap = conn[o].snap
  <2> DEFINE to == IF conn[c].parts = {f} THEN "verify" ELSE conn[c].pc
             new == [conn[c] EXCEPT !.parts = @ \ {f}, !.pc = to]
  <2>1. conn' = [conn EXCEPT ![c] = new]
    BY DEF PutPart
  <2>2. to \in {"verify", conn[c].pc}
    OBVIOUS
  <2> HIDE DEF to
  <2>3. new.pc \in {"verify", conn[c].pc} /\ new.piece = conn[c].piece
        /\ new.snap = conn[c].snap
    BY <1>0, <2>2 DEF ConnType
  <2> HIDE DEF new
  <2>4. QED
    BY <1>0, <2>1, <2>3
<1>3. /\ files' = [files EXCEPT ![dir][f] = IF @ = None THEN {i} ELSE @ \union {i}]
      /\ {i} # None /\ \A S \in SUBSET Pieces : S \union {i} # None
  <2>1. i \in Pieces
    BY <1>1, <1>0 DEF Typed, Refs
  <2>2. QED
    BY <2>1, Facts DEF PutPart
<1>4. \A d \in Dirs, g \in Files, j \in Pieces : GoodPart(d, g, j) => GoodPart(d, g, j)'
  <2> DEFINE old == files[dir][f]
             put == IF old = None THEN {i} ELSE old \union {i}
  <2>1. old \in {None} \union SUBSET Pieces
    BY <1>0 DEF FilesType
  <2>2. put # None /\ (old # None => old \subseteq put)
    BY <1>3, <2>1
  <2>3. \A d \in Dirs, g \in Files :
          files'[d][g] = IF d = dir /\ g = f THEN put ELSE files[d][g]
    <3>1. files' = [files EXCEPT ![dir][f] = put]
      BY <1>3
    <3> HIDE DEF put
    <3>2. QED
      BY <1>0, <3>1 DEF FilesType
  <2> HIDE DEF put
  <2>4. QED
    BY <2>2, <2>3 DEF GoodPart
<1>5. \A g \in Files : Place(g)' = Place(g)
  BY <1>1 DEF Place, Moving
<1>6. Owned \subseteq Owned'
  BY <1>4, <1>5, PlaceTyped, OwnedGrows
<1>7. Located'
  BY <1>1 DEF Consistent, Located, Where, Moving
<1>8. OldGone'
  <2>1. main'.pc # "settings"
    BY <1>1 DEF Moving
  <2>2. dir' = SeedingDir => files'[DataDir] = files[DataDir]
    BY <1>0, <1>1, <1>3, Facts DEF FilesType
  <2>3. QED
    BY <2>1, <2>2, <1>1 DEF Consistent, OldGone
<1>9. Claims'
  BY <1>1, <1>2, <1>6 DEF Consistent, Claims
<1>10. Alone'
  BY <1>1, Working DEF Consistent, Alone
<1>11. QED
  BY <1>7, <1>8, <1>9, <1>10 DEF Consistent

LEMMA SoundConn ==
  ASSUME Typed, Consistent, NEW c \in Conns,
         PutPartFails(c) \/ VerifyPiece(c) \/ SetBit(c) \/ Flush(c) \/ WriteFlush(c)
  PROVE  Consistent'
<1>0. conn \in [Conns -> ConnType] /\ conn[c].pc # "idle"
  BY DEF Typed, TypeOK, PutPartFails, VerifyPiece, SetBit, Flush, WriteFlush
<1>1. UNCHANGED <<files, settings, up, dir, main, del>>
  BY DEF PutPartFails, VerifyPiece, SetBit, Flush, WriteFlush, disk
<1>2. Owned' = Owned
  BY <1>1, OwnedSame
<1>3. Located' /\ OldGone'
  BY <1>1 DEF Consistent, Located, OldGone, Where, Moving
<1>4. Alone'
  BY <1>0, <1>1, Working DEF Consistent, Alone
<1>5. bf # None /\ bf \subseteq Owned /\ conn[c].piece \in Pieces
  BY <1>0, Working DEF Typed, Refs, Consistent, Claims
<1>6. /\ conn[c].pc \in {"have", "havenot", "write"} => conn[c].snap \subseteq Owned
      /\ conn[c].pc = "have" => conn[c].piece \in Owned
  BY DEF Consistent, Claims
<1> DEFINE Held(r) == /\ r.pc \in {"have", "havenot", "write"} => r.snap \subseteq Owned
                      /\ r.pc = "have" => r.piece \in Owned
<1>7. /\ \A o \in Conns \ {c} : conn'[o] = conn[o]
      /\ Held(conn'[c])
      /\ bf' \subseteq Owned
      /\ bfFile' \notin {None, Empty} => bfFile' \subseteq Owned
  <2>0. bfFile \notin {None, Empty} => bfFile \subseteq Owned
    BY DEF Consistent, Claims
  <2>1. Held(ConnIdle)
    BY Facts
  <2>2. CASE PutPartFails(c)
    BY <1>0, <1>5, <2>0, <2>1, <2>2 DEF PutPartFails, disk
  <2>3. CASE VerifyPiece(c)
    <3>1. conn[c].piece \in Good(dir) => conn[c].piece \in Owned
      BY <2>3, OwnedAtRest DEF VerifyPiece
    <3> DEFINE to == IF conn[c].piece \in Good(dir) THEN "have" ELSE "havenot"
               new == [conn[c] EXCEPT !.pc = to, !.snap = bf]
    <3>2. conn' = [conn EXCEPT ![c] = new] \/ conn' = [conn EXCEPT ![c] = ConnIdle]
      BY <2>3 DEF VerifyPiece
    <3>3. Held(new)
      BY <1>0, <1>5, <3>1 DEF ConnType
    <3> HIDE DEF new, Held
    <3>4. Held(conn'[c]) /\ \A o \in Conns \ {c} : conn'[o] = conn[o]
      BY <1>0, <2>1, <3>2, <3>3
    <3>5. QED
      BY <1>5, <2>0, <2>3, <3>4 DEF VerifyPiece, disk
  <2>4. CASE SetBit(c)
    <3>1. bf' \subseteq Owned
      BY <1>6, <2>4 DEF SetBit
    <3>2. Held(conn'[c]) /\ \A o \in Conns \ {c} : conn'[o] = conn[o]
      BY <1>0, <2>1, <2>4 DEF SetBit, ConnType
    <3>3. QED
      BY <2>0, <2>4, <3>1, <3>2 DEF SetBit, disk
  <2>5. CASE Flush(c)
    <3>1. Held(conn'[c]) /\ \A o \in Conns \ {c} : conn'[o] = conn[o]
      BY <1>0, <1>5, <2>5 DEF Flush, ConnType
    <3>2. QED
      BY <1>5, <2>0, <2>5, <3>1 DEF Flush, disk
  <2>6. CASE WriteFlush(c)
    <3>1. Held(conn'[c]) /\ \A o \in Conns \ {c} : conn'[o] = conn[o]
      BY <1>0, <2>1, <2>6 DEF WriteFlush
    <3>2. bfFile' = conn[c].snap \/ bfFile' = bfFile
      BY <2>6 DEF WriteFlush
    <3>3. QED
      BY <1>5, <1>6, <2>0, <2>6, <3>1, <3>2 DEF WriteFlush
  <2>7. QED
    BY <2>2, <2>3, <2>4, <2>5, <2>6
<1>8. Claims'
  BY <1>1, <1>2, <1>7 DEF Consistent, Claims
<1>9. QED
  BY <1>3, <1>4, <1>8 DEF Consistent

\* Steps of the main goroutine that move no file: its next state is idle, or one in
\* which nothing moves yet.
LEMMA MainFrame ==
  ASSUME Typed, Consistent, UNCHANGED <<files, settings, dir, conn, del>>, ~Moving,
         main'.pc = "move" => dir = DataDir /\ main'.moves = Files,
         main'.pc \notin {"remove", "settings"},
         main'.pc \in {"load", "create"} \/ (main'.pc # "idle" /\ main'.job = "add") =>
           \/ main.pc \in {"load", "create"}
           \/ main.pc # "idle" /\ main.job = "add",
         \/ up' /\ up /\ del = "none"
         \/ main'.pc = "idle" /\ ConnsIdle /\ del = "none",
         del # "none" => UNCHANGED bfFile
  PROVE  Located' /\ Alone' /\ OldGone' /\ Owned \subseteq Owned'
<1>1. Located'
  BY DEF Consistent, Located, Where, Moving
<1>2. Owned \subseteq Owned'
  <2>1. \A f \in Files : Place(f)' = Place(f)
    BY DEF Place, Moving
  <2>2. \A d \in Dirs, f \in Files, i \in Pieces : GoodPart(d, f, i) => GoodPart(d, f, i)'
    BY DEF GoodPart
  <2>3. QED
    BY <2>1, <2>2, PlaceTyped, OwnedGrows
<1>3. OldGone'
  BY DEF Consistent, OldGone
<1>4. Alone'
  BY DEF Consistent, Alone, ConnsIdle, Quiet
<1>5. QED
  BY <1>1, <1>2, <1>3, <1>4

\* The main goroutine works on a torrent that is open and not being deleted.
LEMMA MainWorking ==
  ASSUME Consistent, main.pc # "idle"
  PROVE  up /\ del = "none"
BY DEF Consistent, Alone, Quiet

LEMMA SoundLoad ==
  ASSUME Typed, Consistent, LoadBitfield \/ CreateNewBitfield \/ NilBitfield
  PROVE  Consistent'
<1>0. /\ main \in MainType /\ main.pc \in {"load", "create"} /\ ~Moving
      /\ up /\ del = "none" /\ ConnsIdle
      /\ UNCHANGED <<files, settings, dir, conn, del>>
  <2>1. main.pc \in {"load", "create"}
    BY DEF LoadBitfield, CreateNewBitfield, NilBitfield
  <2>2. UNCHANGED <<files, settings, dir, conn, del>>
    BY DEF LoadBitfield, CreateNewBitfield, NilBitfield, disk
  <2>3. QED
    BY <2>1, <2>2, MainWorking DEF Moving, Consistent, Alone, Typed, TypeOK
<1>1. /\ main'.pc \in {"check", "create", "idle"}
      /\ main'.pc = "check" => main.job = "add"
  <2>1. ASSUME NEW S, Loaded(S)
        PROVE  main'.pc = "idle" \/ (main'.pc = "check" /\ main.job = "add")
    BY <1>0, <2>1, Facts DEF Loaded, MainType
  <2>2. QED
    BY <1>0, <2>1, Facts DEF LoadBitfield, CreateNewBitfield, NilBitfield, MainType
<1>2. up' \/ main'.pc = "idle"
  BY <1>0, Facts DEF LoadBitfield, CreateNewBitfield, NilBitfield
<1>3. Located' /\ Alone' /\ OldGone' /\ Owned \subseteq Owned'
  BY <1>0, <1>1, <1>2, MainFrame
<1>4. Claims'
  <2>1. bfFile' \in {bfFile, Empty, {}}
    BY DEF LoadBitfield, CreateNewBitfield, NilBitfield, disk
  <2>2. bf' \in {bf, {}} \/ (bfFile \notin {None, Empty} /\ bf' = bfFile)
    BY DEF LoadBitfield, CreateNewBitfield, NilBitfield, Loaded
  <2>3. QED
    BY <1>0, <1>1, <1>3, <2>1, <2>2 DEF Consistent, Claims, ConnsIdle
<1>5. QED
  BY <1>3, <1>4 DEF Consistent

LEMMA SoundPiece ==
  ASSUME Typed, Consistent, NEW i \in Pieces, CheckPiece(i)
  PROVE  Consistent'
<1>0. main \in MainType /\ up /\ del = "none" /\ main.pc = "check" /\ ~Moving
  BY MainWorking DEF CheckPiece, Typed, TypeOK, Moving
<1>1. UNCHANGED <<files, settings, dir, conn, del, up, bfFile, bf>>
  BY DEF CheckPiece, disk
<1>2. bf # None /\ bf \subseteq Owned
  BY <1>0 DEF Typed, Refs, Consistent, Claims
<1>3. /\ main'.pc \in {"check", "have", "havenot"} /\ main'.job = main.job
      /\ main'.pc \in {"have", "havenot"} => main'.snap = bf
      /\ main'.pc = "have" => main'.idx \in Good(dir)
  BY <1>0 DEF CheckPiece, MainType
<1>4. Located' /\ Alone' /\ OldGone' /\ Owned \subseteq Owned'
  BY <1>0, <1>1, <1>3, MainFrame
<1>5. Good(dir) = Owned
  BY <1>0, OwnedAtRest
<1>6. Claims'
  BY <1>1, <1>2, <1>3, <1>4, <1>5 DEF Consistent, Claims
<1>7. QED
  BY <1>4, <1>6 DEF Consistent

LEMMA SoundCheck ==
  ASSUME Typed, Consistent, Seed \/ CheckSetBit \/ CheckEnd \/ CheckFlush
  PROVE  Consistent'
<1>0. main \in MainType /\ up /\ del = "none" /\ ~Moving
  <2>1. CASE Seed
    BY <2>1 DEF Seed, InSwarm, Typed, TypeOK, Moving
  <2>2. CASE CheckSetBit \/ CheckEnd \/ CheckFlush
    BY <2>2, MainWorking DEF CheckSetBit, CheckEnd, CheckFlush, Typed, TypeOK, Moving
  <2>3. QED
    BY <2>1, <2>2
<1>1. UNCHANGED <<files, settings, dir, conn, del, up, bfFile>>
  BY DEF Seed, CheckSetBit, CheckEnd, CheckFlush, disk
<1>2. bf # None /\ bf \subseteq Owned
  BY <1>0 DEF Seed, CheckSetBit, CheckEnd, CheckFlush, Typed, Refs, Consistent, Claims
<1>3. /\ main'.pc \in {"check", "flush", "write"}
      /\ main'.job = "add" => main.pc # "idle" /\ main.job = "add"
      /\ main'.pc = "write" => main'.snap = bf
      /\ bf' \subseteq Owned
  <2>1. CASE Seed
    BY <2>1, <1>2, Facts DEF Seed, MainIdle
  <2>2. CASE CheckSetBit
    <3>1. bf' \subseteq Owned
      BY <2>2 DEF CheckSetBit, Consistent, Claims
    <3>2. main'.pc = "check" /\ main'.job = main.job /\ main.pc # "idle"
      BY <2>2, <1>0 DEF CheckSetBit, MainType
    <3>3. QED
      BY <3>1, <3>2
  <2>3. CASE CheckEnd
    BY <2>3, <1>0, <1>2 DEF CheckEnd, MainType
  <2>4. CASE CheckFlush
    BY <2>4, <1>0, <1>2 DEF CheckFlush, MainType
  <2>5. QED
    BY <2>1, <2>2, <2>3, <2>4
<1>4. Located' /\ Alone' /\ OldGone' /\ Owned \subseteq Owned'
  BY <1>0, <1>1, <1>3, MainFrame
<1>5. Claims'
  BY <1>1, <1>2, <1>3, <1>4 DEF Consistent, Claims
<1>6. QED
  BY <1>4, <1>5 DEF Consistent

LEMMA SoundWrite ==
  ASSUME Typed, Consistent, CheckWrite \/ CheckWriteFails
  PROVE  Consistent'
<1>0. /\ main \in MainType /\ main.pc = "write" /\ up /\ del = "none" /\ ~Moving
      /\ dir \in Dirs
  BY MainWorking DEF CheckWrite, CheckWriteFails, Typed, TypeOK, Moving
<1>1. /\ UNCHANGED <<files, settings, dir, conn, del, bf>>
      /\ bfFile' \in {bfFile, main.snap}
      /\ \/ main'.pc = "idle"
         \/ main'.pc = "move" /\ main'.moves = Files /\ dir = DataDir /\ main'.job = "seed"
      /\ up' \/ (main'.pc = "idle" /\ main.job = "add")
  <2>1. CASE CheckWrite
    BY <2>1, <1>0, Facts DEF CheckWrite, MainType, Dirs
  <2>2. CASE CheckWriteFails
    BY <2>2, <1>0, Facts DEF CheckWriteFails, disk
  <2>3. QED
    BY <2>1, <2>2
<1>2. main.job = "add" => ConnsIdle
  BY <1>0 DEF Consistent, Alone
<1>3. Located' /\ Alone' /\ OldGone' /\ Owned \subseteq Owned'
  BY <1>0, <1>1, <1>2, MainFrame
<1>4. bfFile' \notin {None, Empty} => bfFile' \subseteq Owned
  BY <1>0, <1>1 DEF Consistent, Claims
<1>5. Claims'
  BY <1>0, <1>1, <1>3, <1>4 DEF Consistent, Claims
<1>6. QED
  BY <1>3, <1>5 DEF Consistent

\* MoveTo, without a fault: each file is in one of the two directories at every moment.
LEMMA SoundMove ==
  ASSUME Typed, Consistent, NEW f \in Files, MoveFile(f)
  PROVE  Consistent'
<1>0. /\ main \in MainType /\ files \in FilesType /\ main.pc = "move" /\ f \in main.moves
      /\ up /\ del = "none" /\ dir = DataDir /\ Moving
  BY MainWorking DEF MoveFile, Typed, TypeOK, Moving, Consistent, Located
<1>1. /\ UNCHANGED <<settings, dir, conn, del, up, bfFile, bf>>
      /\ main' = [main EXCEPT !.moves = @ \ {f}]
      /\ files' = [files EXCEPT ![SeedingDir][f] = files[dir][f], ![dir][f] = None]
  BY DEF MoveFile
<1>2. main'.pc = "move" /\ main'.moves = main.moves \ {f} /\ main'.job = main.job
  BY <1>0, <1>1 DEF MainType
<1>3. \A g \in Files :
        /\ files'[SeedingDir][g] = IF g = f THEN files[DataDir][g] ELSE files[SeedingDir][g]
        /\ g # f => files'[DataDir][g] = files[DataDir][g]
  BY <1>0, <1>1, Facts DEF FilesType
<1>4. /\ Place(f) = DataDir /\ Place(f)' = SeedingDir
      /\ \A g \in Files \ {f} : Place(g)' = Place(g) /\ Place(g) \in {DataDir, SeedingDir}
  BY <1>0, <1>1, <1>2 DEF Place, Moving
<1>5. \A g \in Files, i \in Pieces : GoodPart(Place(g), g, i) => GoodPart(Place(g), g, i)'
  BY <1>3, <1>4 DEF GoodPart
<1>6. Owned \subseteq Owned'
  BY <1>5, PiecesAssumption DEF Owned
<1>7. Located' /\ OldGone'
  BY <1>0, <1>1, <1>2, Facts DEF Consistent, Located, OldGone, Where, Moving
<1>8. Claims'
  BY <1>0, <1>1, <1>2, <1>6 DEF Consistent, Claims
<1>9. Alone'
  BY <1>0, <1>1, <1>2 DEF Consistent, Alone, ConnsIdle
<1>10. QED
  BY <1>7, <1>8, <1>9 DEF Consistent

LEMMA SoundRemove ==
  ASSUME Typed, Consistent, RemoveOld
  PROVE  Consistent'
<1>0. /\ main \in MainType /\ files \in FilesType /\ main.pc = "move" /\ main.moves = {}
      /\ up /\ del = "none" /\ dir = DataDir /\ Moving
  BY MainWorking DEF RemoveOld, Typed, TypeOK, Moving, Consistent, Located
<1>1. /\ UNCHANGED <<settings, dir, conn, del, up, bfFile, bf>>
      /\ main' = [main EXCEPT !.pc = "settings"]
      /\ files' = [files EXCEPT ![dir] = NoFiles]
  BY DEF RemoveOld
<1>2. main'.pc = "settings" /\ main'.moves = {} /\ main'.job = main.job
  BY <1>0, <1>1 DEF MainType
<1>3. files'[SeedingDir] = files[SeedingDir] /\ files'[DataDir] = NoFiles
  BY <1>0, <1>1, Facts DEF FilesType
<1>4. \A g \in Files : Place(g) = SeedingDir /\ Place(g)' = SeedingDir
  BY <1>0, <1>1, <1>2 DEF Place, Moving
<1>5. \A g \in Files, i \in Pieces : GoodPart(Place(g), g, i) => GoodPart(Place(g), g, i)'
  BY <1>3, <1>4 DEF GoodPart
<1>6. Owned \subseteq Owned'
  BY <1>5, PiecesAssumption DEF Owned
<1>7. Located' /\ OldGone'
  BY <1>0, <1>1, <1>2, <1>3 DEF Consistent, Located, OldGone, Where, Moving
<1>8. Claims'
  BY <1>0, <1>1, <1>2, <1>6 DEF Consistent, Claims
<1>9. Alone'
  BY <1>0, <1>1, <1>2 DEF Consistent, Alone, ConnsIdle
<1>10. QED
  BY <1>7, <1>8, <1>9 DEF Consistent

LEMMA SoundSettings ==
  ASSUME Typed, Consistent, PutSettings
  PROVE  Consistent'
<1>0. /\ main.pc = "settings" /\ main.moves = {} /\ up /\ del = "none" /\ Moving
      /\ files[DataDir] = NoFiles
  BY MainWorking DEF PutSettings, Moving, Consistent, Located, OldGone
<1>1. /\ UNCHANGED <<files, conn, del, up, bfFile, bf>>
      /\ settings' = SeedingDir /\ dir' = SeedingDir /\ main'.pc = "idle"
  BY Facts DEF PutSettings
<1>2. \A g \in Files : Place(g) = SeedingDir /\ Place(g)' = SeedingDir
  BY <1>0, <1>1 DEF Place, Moving
<1>3. \A g \in Files, i \in Pieces : GoodPart(Place(g), g, i) => GoodPart(Place(g), g, i)'
  BY <1>1, <1>2 DEF GoodPart
<1>4. Owned \subseteq Owned'
  BY <1>3, PiecesAssumption DEF Owned
<1>5. Located' /\ OldGone'
  BY <1>0, <1>1, Facts DEF Located, OldGone, Where, Moving
<1>6. Claims'
  BY <1>0, <1>1, <1>4 DEF Consistent, Claims
<1>7. Alone'
  BY <1>0, <1>1 DEF Consistent, Alone
<1>8. QED
  BY <1>5, <1>6, <1>7 DEF Consistent

\* A torrent is opened where its files are.
LEMMA SoundOpen ==
  ASSUME Typed, Consistent, OpenAllTorrents \/ AddTorrent, ~mishap'
  PROVE  Consistent'
<1>0. files \in FilesType /\ dir \in Dirs /\ settings \in Dirs \union {None} /\ dir = Where
  BY DEF Typed, TypeOK, Consistent, Located
<1>1. /\ \E job \in {"open", "add"} : OpenAt(dir, job)
      /\ dir = Where' /\ dir \in Dirs
  BY <1>0, Facts DEF OpenAllTorrents, AddTorrent, Where
<1>2. PICK job \in {"open", "add"} : OpenAt(dir, job)
  BY <1>1
<1>3. /\ UNCHANGED <<dir, bfFile, conn, del>> /\ ~up /\ main.pc = "idle" /\ ConnsIdle
      /\ up' /\ bf' = None /\ files' = Allocated(dir)
  BY <1>2 DEF OpenAt, Quiet, ConnsIdle
<1>4. main'.pc = "load"
  BY <1>2, Facts DEF OpenAt, MainType
<1>5. \A d \in Dirs, f \in Files, i \in Pieces : GoodPart(d, f, i) => GoodPart(d, f, i)'
  BY <1>0, <1>3, AllocatedFacts DEF GoodPart, Typed
<1>6. \A f \in Files : Place(f)' = Place(f)
  BY <1>3, <1>4 DEF Place, Moving
<1>7. Owned \subseteq Owned'
  BY <1>5, <1>6, PlaceTyped, OwnedGrows
<1>8. Located'
  BY <1>1, <1>3, <1>4 DEF Located, Moving
<1>9. OldGone'
  BY <1>0, <1>3, <1>4, AllocatedFacts, Facts DEF Consistent, OldGone, Typed
<1>10. Claims'
  BY <1>3, <1>4, <1>7 DEF Consistent, Claims, ConnsIdle
<1>11. Alone'
  BY <1>3, <1>4 DEF Consistent, Alone, ConnsIdle
<1>12. QED
  BY <1>8, <1>9, <1>10, <1>11 DEF Consistent

LEMMA SoundDelete ==
  ASSUME Typed, Consistent, DeleteStart \/ DeleteStep \/ DeleteFails, ~mishap'
  PROVE  Consistent'
<1>0. files \in FilesType /\ dir \in Dirs
  BY DEF Typed, TypeOK
<1>1. CASE DeleteStart
  <2>1. /\ UNCHANGED <<files, settings, dir, bf, up, main, conn>> /\ up /\ Quiet
        /\ bfFile' = bf /\ bf # None /\ del' = "meta"
    BY <1>1 DEF DeleteStart, InSwarm
  <2>2. Owned' = Owned
    BY <2>1, OwnedSame
  <2>3. Located' /\ OldGone'
    BY <2>1 DEF Consistent, Located, OldGone, Where, Moving
  <2>4. Claims'
    BY <2>1, <2>2 DEF Consistent, Claims
  <2>5. Alone'
    BY <2>1 DEF Alone, Quiet, ConnsIdle
  <2>6. QED
    BY <2>3, <2>4, <2>5 DEF Consistent
<1>2. CASE (DeleteStep /\ del # "files") \/ DeleteFails
  <2>1. /\ UNCHANGED <<files, settings, dir, bf, main, conn>> /\ Quiet
        /\ bfFile' \in {bfFile, None} /\ del' \in {"bitfield", "files", "none"}
        /\ del' = "files" => bfFile' = None
        /\ (up' => up) /\ (~up' => del' = "none")
    BY <1>2 DEF DeleteStep, DeleteFails, disk, Consistent, Alone
  <2>2. Owned' = Owned
    BY <2>1, OwnedSame
  <2>3. Located' /\ OldGone'
    BY <2>1 DEF Consistent, Located, OldGone, Where, Moving
  <2>4. Claims'
    BY <2>1, <2>2 DEF Consistent, Claims
  <2>5. Alone'
    BY <2>1 DEF Alone, Quiet, ConnsIdle
  <2>6. QED
    BY <2>3, <2>4, <2>5 DEF Consistent
<1>3. CASE DeleteStep /\ del = "files"
  <2>1. /\ UNCHANGED <<settings, dir, bf, main, conn, bfFile>> /\ Quiet
        /\ files' = [files EXCEPT ![dir] = NoFiles]
        /\ bfFile = None /\ del' = "none" /\ ~up'
    BY <1>3 DEF DeleteStep, Consistent, Alone
  <2>2. Located' /\ Claims' /\ Alone'
    BY <2>1 DEF Consistent, Located, Claims, Alone, Where, Moving, Quiet, ConnsIdle
  <2>3. OldGone'
    BY <1>0, <2>1, Facts DEF Consistent, OldGone, Quiet, FilesType
  <2>4. QED
    BY <2>2, <2>3 DEF Consistent
<1>4. QED
  BY <1>1, <1>2, <1>3

LEMMA SoundCrash ==
  ASSUME Typed, Consistent, Crash, ~mishap'
  PROVE  Consistent'
<1>1. /\ UNCHANGED <<files, settings, dir, bfFile>> /\ ~Moving /\ ~up' /\ bf' = None
      /\ del' = "none" /\ main'.pc = "idle" /\ \A c \in Conns : conn'[c].pc = "idle"
  BY Facts DEF Crash, disk
<1>2. Owned' = Owned
  BY <1>1, OwnedSame DEF Moving
<1>3. QED
  BY <1>1, <1>2 DEF Consistent, Located, Claims, Alone, OldGone, Where, Moving, Quiet, ConnsIdle

LEMMA MishapStays ==
  ASSUME Next, ~mishap'
  PROVE  ~mishap
<1>1. ASSUME NEW i \in Pieces, CheckPiece(i) PROVE ~mishap
  BY <1>1 DEF CheckPiece
<1>2. ASSUME NEW f \in Files, MoveFile(f) \/ MoveFileFails(f) PROVE ~mishap
  BY <1>2 DEF MoveFile, MoveFileFails
<1>3. ASSUME \/ LoadBitfield \/ CreateNewBitfield \/ NilBitfield
             \/ Seed \/ CheckSetBit \/ CheckEnd \/ CheckFlush \/ CheckWrite \/ CheckWriteFails
             \/ RemoveOld \/ PutSettings
      PROVE  ~mishap
  BY <1>3 DEF LoadBitfield, CreateNewBitfield, NilBitfield, Seed, CheckSetBit, CheckEnd,
              CheckFlush, CheckWrite, CheckWriteFails, RemoveOld, PutSettings
<1>4. MainStep => ~mishap
  BY <1>1, <1>2, <1>3 DEF MainStep
<1>5. ASSUME NEW c \in Conns, NEW i \in Pieces, Request(c, i) PROVE ~mishap
  BY <1>5 DEF Request
<1>6. ASSUME NEW c \in Conns, NEW f \in Files, PutPart(c, f) PROVE ~mishap
  BY <1>6 DEF PutPart
<1>7. ASSUME NEW c \in Conns,
             PutPartFails(c) \/ VerifyPiece(c) \/ SetBit(c) \/ Flush(c) \/ WriteFlush(c)
      PROVE  ~mishap
  BY <1>7 DEF PutPartFails, VerifyPiece, SetBit, Flush, WriteFlush
<1>8. ASSUME NEW d \in Dirs, NEW f \in Files, NEW i \in Pieces, Rot(d, f, i) PROVE ~mishap
  BY <1>8 DEF Rot
<1>9. ASSUME \/ OpenAllTorrents \/ AddTorrent \/ DeleteStart \/ DeleteStep \/ DeleteFails
             \/ Crash
      PROVE  ~mishap
  BY <1>9 DEF OpenAllTorrents, AddTorrent, DeleteStart, DeleteStep, DeleteFails, Crash
<1>10. QED
  BY <1>4, <1>5, <1>6, <1>7, <1>8, <1>9 DEF Next, ConnStep

LEMMA SoundStep == Typed /\ Sound /\ [Next]_vars => Sound'
<1> SUFFICES ASSUME Typed, Sound, [Next]_vars, ~mishap' PROVE Consistent'
  BY DEF Sound
<1>1. CASE UNCHANGED vars
  <2>1. /\ UNCHANGED <<files, bfFile, settings, up, dir, bf, main, conn, del, mishap>>
    BY <1>1 DEF vars, disk
  <2>2. Owned' = Owned /\ Consistent
    BY <2>1, OwnedSame DEF Sound
  <2>3. QED
    BY <2>1, <2>2 DEF Consistent, Located, Claims, Alone, OldGone, Where, Moving, Quiet,
                      ConnsIdle
<1>2. CASE Next
  <2>0. Consistent
    BY <1>2, MishapStays DEF Sound, Typed
  <2>1. CASE MainStep
    <3>1. ~\E f \in Files : MoveFileFails(f)
      BY DEF MoveFileFails
    <3>2. QED
      BY <2>0, <2>1, <3>1, SoundLoad, SoundCheck, SoundPiece, SoundWrite, SoundMove, SoundRemove,
         SoundSettings DEF MainStep
  <2>2. ASSUME NEW c \in Conns, ConnStep(c) \/ \E i \in Pieces : Request(c, i)
        PROVE  Consistent'
    BY <2>0, <2>2, SoundConn, SoundPut, SoundRequest DEF ConnStep
  <2>3. ~\E d \in Dirs, f \in Files, i \in Pieces : Rot(d, f, i)
    BY DEF Rot
  <2>4. QED
    BY <1>2, <2>0, <2>1, <2>2, <2>3, SoundOpen, SoundDelete, SoundCrash DEF Next
<1>3. QED
  BY <1>1, <1>2

LEMMA SoundInit == Init => Sound
<1> SUFFICES ASSUME Init PROVE Consistent
  BY DEF Sound
<1>1. /\ ~up /\ bf = None /\ bfFile = None /\ del = "none" /\ main.pc = "idle" /\ dir = DataDir
      /\ settings = None /\ \A c \in Conns : conn[c].pc = "idle"
  BY Facts DEF Init
<1>2. QED
  BY <1>1, Facts DEF Consistent, Located, Claims, Alone, OldGone, Where, Moving, Quiet,
                     ConnsIdle

\* At every moment outside a move, the bitfield file claims only pieces that are good
\* where the next start looks for them, and the one in memory only pieces that are
\* good where it reads them (fs.go:193, 237, 354, 375, 437, 590): for any number of files
\* and pieces, of connections that store and flush side by side, and of crashes, as
\* long as no mishap came first.
THEOREM ClaimCorrect == Spec => []ClaimedOnDisk
<1>1. Typed /\ Sound => ClaimedOnDisk
  <2> SUFFICES ASSUME Typed, Sound, ~mishap, ~Moving
               PROVE  /\ bfFile \notin {None, Empty} => bfFile \subseteq Good(Where)
                      /\ up /\ bf # None => bf \subseteq Good(dir)
    BY DEF ClaimedOnDisk
  <2>1. QED
    BY OwnedAtRest DEF Sound, Consistent, Claims, Located
<1>2. QED
  BY <1>1, TypedInit, TypedStep, SoundInit, SoundStep, PTL DEF Spec

\* After a move without mishap nothing is in the old directory, and nothing the
\* connections write goes there (fs.go:60, 411: both hold fsTorrent.access).
THEOREM OldDirCorrect == Spec => []OldDirGone
<1>1. Typed /\ Sound => OldDirGone
  BY DEF Sound, Consistent, OldGone, OldDirGone
<1>2. QED
  BY <1>1, TypedInit, TypedStep, SoundInit, SoundStep, PTL DEF Spec

-----------------------------------------------------------------------------
(* What goes wrong only after a mishap.                                    *)

\* MoveTo moves data files to the other directory (storage.go:66): a step that is not
\* a deletion or a disk fault loses no piece, of a torrent without a mishap.
DataStays ==
  [][\A i \in Pieces :
       ~mishap /\ Whole(i) => Whole(i)' \/ del # "none" \/ faults' # faults]_vars

\* Each file has at most one copy, where the torrent looks for it.
Single == \A f \in Files, d \in Dirs : d # Place(f) => files[d][f] = None
Undoubled == ~mishap => Single

LEMMA SingleSame ==
  ASSUME Single, UNCHANGED files, \A f \in Files : Place(f)' = Place(f)
  PROVE  Single'
BY DEF Single

\* Of a file that is moving there is no old copy to lose, and RemoveOld finds nothing.
LEMMA MoveFacts ==
  ASSUME Typed, Consistent, Single, NEW f \in Files, MoveFile(f)
  PROVE  /\ Single'
         /\ \A d \in Dirs, g \in Files, i \in Pieces :
              GoodPart(d, g, i) => \E e \in Dirs : GoodPart(e, g, i)'
<1>0. /\ main \in MainType /\ files \in FilesType /\ main.pc = "move" /\ f \in main.moves
      /\ dir = DataDir /\ Moving
  BY MainWorking DEF MoveFile, Typed, TypeOK, Moving, Consistent, Located
<1>1. /\ UNCHANGED dir
      /\ main' = [main EXCEPT !.moves = @ \ {f}]
      /\ files' = [files EXCEPT ![SeedingDir][f] = files[dir][f], ![dir][f] = None]
  BY DEF MoveFile
<1>2. main'.pc = "move" /\ main'.moves = main.moves \ {f}
  BY <1>0, <1>1 DEF MainType
<1>3. \A g \in Files :
        /\ files'[SeedingDir][g] = IF g = f THEN files[DataDir][g] ELSE files[SeedingDir][g]
        /\ files'[DataDir][g] = IF g = f THEN None ELSE files[DataDir][g]
  BY <1>0, <1>1, Facts DEF FilesType
<1>4. /\ Place(f) = DataDir /\ Place(f)' = SeedingDir
      /\ \A g \in Files \ {f} : Place(g)' = Place(g)
  BY <1>0, <1>1, <1>2 DEF Place, Moving
<1>5. files[SeedingDir][f] = None
  BY <1>4, Facts DEF Single
<1>6. Single'
  BY <1>3, <1>4, Facts DEF Single, Dirs
<1>7. ASSUME NEW d \in Dirs, NEW g \in Files, NEW i \in Pieces, GoodPart(d, g, i)
      PROVE  \E e \in Dirs : GoodPart(e, g, i)'
  <2>1. CASE g = f
    <3>1. d = DataDir
      BY <1>5, <1>7, <2>1 DEF GoodPart, Dirs
    <3>2. GoodPart(SeedingDir, g, i)'
      BY <1>3, <1>7, <2>1, <3>1 DEF GoodPart
    <3>3. QED
      BY <3>2, Facts
  <2>2. CASE g # f
    BY <1>3, <1>7, <2>2 DEF GoodPart, Dirs
  <2>3. QED
    BY <2>1, <2>2
<1>8. QED
  BY <1>6, <1>7

LEMMA RemoveFacts ==
  ASSUME Typed, Consistent, Single, RemoveOld
  PROVE  /\ Single'
         /\ \A d \in Dirs, g \in Files, i \in Pieces :
              GoodPart(d, g, i) => GoodPart(d, g, i)'
<1>0. /\ main \in MainType /\ files \in FilesType /\ main.pc = "move" /\ main.moves = {}
      /\ dir = DataDir /\ Moving
  BY MainWorking DEF RemoveOld, Typed, TypeOK, Moving, Consistent, Located
<1>1. /\ UNCHANGED dir
      /\ main' = [main EXCEPT !.pc = "settings"]
      /\ files' = [files EXCEPT ![dir] = NoFiles]
  BY DEF RemoveOld
<1>2. main'.pc = "settings" /\ main'.moves = {}
  BY <1>0, <1>1 DEF MainType
<1>3. /\ files'[SeedingDir] = files[SeedingDir]
      /\ \A g \in Files : files'[DataDir][g] = None
  BY <1>0, <1>1, Facts DEF FilesType, NoFiles
<1>4. \A g \in Files : Place(g) = SeedingDir /\ Place(g)' = SeedingDir
  BY <1>0, <1>1, <1>2 DEF Place, Moving
<1>5. \A g \in Files : files[DataDir][g] = None
  BY <1>4, Facts DEF Single
<1>6. QED
  BY <1>3, <1>4, <1>5, Facts DEF Single, GoodPart, Dirs

LEMMA PutFacts ==
  ASSUME Typed, Single, NEW c \in Conns, NEW f \in Files, PutPart(c, f)
  PROVE  /\ Single'
         /\ \A d \in Dirs, g \in Files, j \in Pieces :
              GoodPart(d, g, j) => GoodPart(d, g, j)'
<1> DEFINE i == conn[c].piece
           old == files[dir][f]
           put == IF old = None THEN {i} ELSE old \union {i}
<1>0. files \in FilesType /\ dir \in Dirs
  BY DEF Typed, TypeOK
<1>1. /\ UNCHANGED <<dir, main>> /\ ~Moving /\ i \in Pieces
      /\ files' = [files EXCEPT ![dir][f] = put]
  BY DEF PutPart, Typed, Refs
<1>2. old \in {None} \union SUBSET Pieces
  BY <1>0 DEF FilesType
<1>3. put # None /\ (old # None => old \subseteq put)
  <2>1. {i} # None /\ \A S \in SUBSET Pieces : S \union {i} # None
    BY <1>1, Facts
  <2>2. QED
    BY <1>2, <2>1
<1> HIDE DEF put
<1>4. \A d \in Dirs, g \in Files :
        files'[d][g] = IF d = dir /\ g = f THEN put ELSE files[d][g]
  BY <1>0, <1>1 DEF FilesType
<1>5. \A g \in Files : Place(g) = dir /\ Place(g)' = dir
  BY <1>1 DEF Place, Moving
<1>6. QED
  BY <1>3, <1>4, <1>5 DEF Single, GoodPart

LEMMA OpenFacts ==
  ASSUME Typed, Consistent, Single, OpenAllTorrents \/ AddTorrent
  PROVE  /\ ~mishap' => Single'
         /\ \A d \in Dirs, g \in Files, i \in Pieces :
              GoodPart(d, g, i) => GoodPart(d, g, i)'
<1>0. files \in FilesType /\ dir \in Dirs /\ settings \in Dirs \union {None} /\ dir = Where
  BY DEF Typed, TypeOK, Consistent, Located
<1>1. \E d \in Dirs, job \in {"open", "add"} : OpenAt(d, job) /\ (~mishap' => d = dir)
  BY <1>0, Facts DEF OpenAllTorrents, AddTorrent, Where
<1>2. PICK d \in Dirs, job \in {"open", "add"} : OpenAt(d, job) /\ (~mishap' => d = dir)
  BY <1>1
<1>3. ~Moving /\ dir' = d /\ files' = Allocated(d)
  BY <1>2 DEF OpenAt, Quiet, Moving
<1>4. main'.pc = "load"
  BY <1>2, Facts DEF OpenAt, MainType
<1>5. /\ \A e \in Dirs \ {d} : files'[e] = files[e]
      /\ \A f \in Files : files'[d][f] = IF files[d][f] = None THEN {} ELSE files[d][f]
  BY <1>3, AllocatedFacts DEF Typed
<1>6. \A e \in Dirs, g \in Files, i \in Pieces : GoodPart(e, g, i) => GoodPart(e, g, i)'
  BY <1>5 DEF GoodPart
<1>7. \A f \in Files : Place(f) = dir /\ Place(f)' = d
  BY <1>3, <1>4 DEF Place, Moving
<1>8. ~mishap' => Single'
  BY <1>2, <1>5, <1>7 DEF Single
<1>9. QED
  BY <1>6, <1>8

\* The steps that leave the files as they are.
Restful ==
  \/ LoadBitfield \/ CreateNewBitfield \/ NilBitfield
  \/ Seed \/ CheckSetBit \/ CheckEnd \/ CheckFlush \/ CheckWrite \/ CheckWriteFails
  \/ PutSettings
  \/ \E i \in Pieces : CheckPiece(i)
  \/ \E c \in Conns :
       \/ PutPartFails(c) \/ VerifyPiece(c) \/ SetBit(c) \/ Flush(c) \/ WriteFlush(c)
       \/ \E i \in Pieces : Request(c, i)
  \/ DeleteStart \/ DeleteFails \/ (DeleteStep /\ del # "files")
  \/ Crash

LEMMA NextKinds ==
  ASSUME Next
  PROVE  \/ OpenAllTorrents \/ AddTorrent
         \/ \E f \in Files : MoveFile(f) \/ MoveFileFails(f)
         \/ \E c \in Conns, f \in Files : PutPart(c, f)
         \/ RemoveOld \/ (DeleteStep /\ del = "files") \/ Restful
         \/ \E d \in Dirs, f \in Files, i \in Pieces : Rot(d, f, i)
<1>1. MainStep => \/ RemoveOld \/ Restful
                  \/ \E f \in Files : MoveFile(f) \/ MoveFileFails(f)
  BY DEF MainStep, Restful
<1>2. ASSUME NEW c \in Conns, ConnStep(c) \/ \E i \in Pieces : Request(c, i)
      PROVE  Restful \/ \E f \in Files : PutPart(c, f)
  BY <1>2 DEF ConnStep, Restful
<1>3. QED
  BY <1>1, <1>2 DEF Next, Restful

LEMMA RestfulFacts ==
  ASSUME Typed, Consistent, Restful, ~mishap'
  PROVE  UNCHANGED files /\ \A f \in Files : Place(f)' = Place(f)
<1>0. main \in MainType
  BY DEF Typed, TypeOK
<1>1. ASSUME NEW i \in Pieces, CheckPiece(i)
      PROVE  UNCHANGED <<files, dir>> /\ ~Moving /\ ~Moving'
  BY <1>0, <1>1 DEF CheckPiece, disk, Moving, MainType
<1>2. ASSUME NEW c \in Conns,
             \/ PutPartFails(c) \/ VerifyPiece(c) \/ SetBit(c) \/ Flush(c) \/ WriteFlush(c)
             \/ \E i \in Pieces : Request(c, i)
      PROVE  UNCHANGED <<files, dir, main>>
  BY <1>2 DEF PutPartFails, VerifyPiece, SetBit, Flush, WriteFlush, Request, disk
<1>3. CASE DeleteStart \/ DeleteFails \/ (DeleteStep /\ del # "files")
  BY <1>3 DEF DeleteStart, DeleteFails, DeleteStep, disk, Place, Moving
<1>4. CASE Seed \/ CheckSetBit \/ CheckEnd \/ CheckFlush
  <2>1. UNCHANGED <<files, dir>> /\ ~Moving /\ ~Moving'
    BY <1>0, <1>4, Facts DEF Seed, CheckSetBit, CheckEnd, CheckFlush, disk, Moving, MainType,
                             MainIdle
  <2>2. QED
    BY <2>1 DEF Place
<1>5. CASE LoadBitfield \/ CreateNewBitfield \/ NilBitfield
  <2>1. ASSUME NEW S, Loaded(S) PROVE main'.pc \in {"check", "idle"}
    BY <1>0, <2>1, Facts DEF Loaded, MainType
  <2>2. UNCHANGED <<files, dir>> /\ ~Moving /\ ~Moving'
    BY <1>0, <1>5, <2>1, Facts DEF LoadBitfield, CreateNewBitfield, NilBitfield, disk, Moving,
                                   MainType
  <2>3. QED
    BY <2>2 DEF Place
<1>6. CASE CheckWrite \/ CheckWriteFails
  <2>1. /\ UNCHANGED <<files, dir>> /\ ~Moving
        /\ main'.pc = "idle" \/ (main'.pc = "move" /\ main'.moves = Files)
    BY <1>0, <1>6, Facts DEF CheckWrite, CheckWriteFails, disk, Moving, MainType
  <2>2. QED
    BY <2>1 DEF Place, Moving
<1>7. CASE PutSettings
  <2>1. UNCHANGED files /\ dir' = SeedingDir /\ main'.pc = "idle" /\ Moving /\ main.moves = {}
    BY <1>7, Facts DEF PutSettings, Consistent, Located, Moving
  <2>2. QED
    BY <2>1 DEF Place, Moving
<1>8. CASE Crash
  <2>1. UNCHANGED <<files, dir>> /\ main'.pc = "idle" /\ ~Moving
    BY <1>8, Facts DEF Crash, disk
  <2>2. QED
    BY <2>1 DEF Place, Moving
<1>9. QED
  BY <1>1, <1>2, <1>3, <1>4, <1>5, <1>6, <1>7, <1>8 DEF Restful, Place, Moving

LEMMA RestfulFiles == Restful => UNCHANGED files
<1>1. ASSUME NEW i \in Pieces, CheckPiece(i) PROVE UNCHANGED files
  BY <1>1 DEF CheckPiece, disk
<1>2. ASSUME NEW c \in Conns,
             \/ PutPartFails(c) \/ VerifyPiece(c) \/ SetBit(c) \/ Flush(c) \/ WriteFlush(c)
             \/ \E i \in Pieces : Request(c, i)
      PROVE  UNCHANGED files
  BY <1>2 DEF PutPartFails, VerifyPiece, SetBit, Flush, WriteFlush, Request, disk
<1>3. ASSUME \/ LoadBitfield \/ CreateNewBitfield \/ NilBitfield
             \/ Seed \/ CheckSetBit \/ CheckEnd \/ CheckFlush \/ CheckWrite \/ CheckWriteFails
             \/ PutSettings
      PROVE  UNCHANGED files
  BY <1>3 DEF LoadBitfield, CreateNewBitfield, NilBitfield, Seed, CheckSetBit, CheckEnd,
              CheckFlush, CheckWrite, CheckWriteFails, PutSettings, disk
<1>4. ASSUME DeleteStart \/ DeleteFails \/ (DeleteStep /\ del # "files") \/ Crash
      PROVE  UNCHANGED files
  BY <1>4 DEF DeleteStart, DeleteFails, DeleteStep, Crash, disk
<1>5. QED
  BY <1>1, <1>2, <1>3, <1>4 DEF Restful

LEMMA SingleStep == Typed /\ Sound /\ Undoubled /\ [Next]_vars => Undoubled'
<1> SUFFICES ASSUME Typed, Sound, Undoubled, [Next]_vars, ~mishap' PROVE Single'
  BY DEF Undoubled
<1>1. CASE UNCHANGED vars
  BY <1>1 DEF vars, disk, Undoubled, Single, Place, Moving
<1>2. CASE Next
  <2>0. Consistent /\ Single
    BY <1>2, MishapStays DEF Sound, Undoubled, Typed
  <2>1. CASE DeleteStep /\ del = "files"
    <3>1. files \in FilesType /\ dir \in Dirs
      BY DEF Typed, TypeOK
    <3>2. files' = [files EXCEPT ![dir] = NoFiles] /\ UNCHANGED <<dir, main>>
      BY <2>1 DEF DeleteStep
    <3>3. /\ \A e \in Dirs \ {dir} : files'[e] = files[e]
          /\ \A g \in Files : files'[dir][g] = None
      BY <3>1, <3>2 DEF FilesType, NoFiles
    <3>4. \A g \in Files : Place(g)' = Place(g)
      BY <3>2 DEF Place, Moving
    <3>5. QED
      BY <2>0, <3>3, <3>4 DEF Single
  <2>2. ~\E f \in Files : MoveFileFails(f)
    BY DEF MoveFileFails
  <2>3. ~\E d \in Dirs, f \in Files, i \in Pieces : Rot(d, f, i)
    BY DEF Rot
  <2>4. Restful => Single'
    BY <2>0, RestfulFacts, SingleSame
  <2>5. ASSUME NEW c \in Conns, NEW f \in Files, PutPart(c, f) PROVE Single'
    BY <2>0, <2>5, PutFacts
  <2>6. ASSUME NEW f \in Files, MoveFile(f) PROVE Single'
    BY <2>0, <2>6, MoveFacts
  <2>7. RemoveOld => Single'
    BY <2>0, RemoveFacts
  <2>8. OpenAllTorrents \/ AddTorrent => Single'
    BY <2>0, OpenFacts
  <2>9. QED
    BY <1>2, <2>1, <2>2, <2>3, <2>4, <2>5, <2>6, <2>7, <2>8, NextKinds
<1>3. QED
  BY <1>1, <1>2

LEMMA SingleInit == Init => Undoubled
<1> SUFFICES ASSUME Init PROVE Single
  BY DEF Undoubled
<1>1. \A d \in Dirs, f \in Files : files[d][f] = None
  BY DEF Init, NoFiles
<1>2. QED
  BY <1>1 DEF Single

\* A move replaces nothing and the directory it removes is empty, also when a new
\* torrent has taken the place of a deleted one: as long as no move was interrupted or
\* failed, and whatever else is cut short by a crash, no step but a deletion and a disk
\* fault takes a part of a piece (fs.go:60-110, 475-497).
THEOREM DataCorrect == Spec => DataStays
<1>1. ASSUME Typed, Sound, Undoubled, [Next]_vars
      PROVE  [\A i \in Pieces :
                ~mishap /\ Whole(i) => Whole(i)' \/ del # "none" \/ faults' # faults]_vars
  <2> SUFFICES ASSUME Next, ~mishap, del = "none", faults' = faults,
                      NEW i \in Pieces, Whole(i)
               PROVE  Whole(i)'
    BY <1>1
  <2>0. Typed /\ Consistent /\ Single
    BY <1>1 DEF Sound, Undoubled
  <2>1. ASSUME NEW d \in Dirs, NEW f \in Files, GoodPart(d, f, i)
        PROVE  \E e \in Dirs : GoodPart(e, f, i)'
    <3>1. ~DeleteStep
      BY DEF DeleteStep
    <3>2. ~\E e \in Dirs, g \in Files, j \in Pieces : Rot(e, g, j)
      <4>1. faults \in Nat
        BY <2>0, BoundsAssumption DEF Typed, TypeOK
      <4>2. QED
        BY <4>1 DEF Rot
    <3>3. Restful => UNCHANGED files
      BY RestfulFiles
    <3>4. ASSUME NEW g \in Files, MoveFileFails(g) PROVE UNCHANGED files
      BY <3>4 DEF MoveFileFails
    <3>5. UNCHANGED files => GoodPart(d, f, i)'
      BY <2>1 DEF GoodPart
    <3>6. ASSUME NEW c \in Conns, NEW g \in Files, PutPart(c, g) PROVE GoodPart(d, f, i)'
      BY <2>0, <2>1, <3>6, PutFacts
    <3>7. ASSUME NEW g \in Files, MoveFile(g) PROVE \E e \in Dirs : GoodPart(e, f, i)'
      BY <2>0, <2>1, <3>7, MoveFacts
    <3>8. RemoveOld => GoodPart(d, f, i)'
      BY <2>0, <2>1, RemoveFacts
    <3>9. OpenAllTorrents \/ AddTorrent => GoodPart(d, f, i)'
      BY <2>0, <2>1, OpenFacts
    <3>10. QED
      BY <3>1, <3>2, <3>3, <3>4, <3>5, <3>6, <3>7, <3>8, <3>9, NextKinds
  <2>2. QED
    BY <2>1, PiecesAssumption DEF Whole
<1>2. QED
  BY <1>1, TypedInit, TypedStep, SoundInit, SoundStep, SingleInit, SingleStep, PTL
     DEF Spec, DataStays

\* Delete removes all files and metadata (storage.go:56), of a torrent nobody works on.
CleanDelete == ~mishap => DeletedIsGone

\* A torrent in the swarm has its .torrent file; without a fault or a crash one that is
\* not open and has none has nothing.
Erased ==
  /\ up /\ del \in {"none", "meta"} => meta
  /\ ~meta /\ ~up /\ faults = 0 /\ crashes = 0 => bfFile = None /\ files[dir] = NoFiles
NothingLeft == ~mishap => Erased

\* A step of a goroutine is one on a torrent in the swarm.
LEMMA ErasedWorking ==
  ASSUME Typed, Consistent, Erased, MainStep \/ \E c \in Conns :
           ConnStep(c) \/ \E i \in Pieces : Request(c, i)
  PROVE  Erased'
<1>1. ASSUME NEW i \in Pieces, CheckPiece(i)
      PROVE  UNCHANGED <<meta, del>> /\ main.pc # "idle"
  BY <1>1 DEF CheckPiece, disk
<1>2. ASSUME NEW f \in Files, MoveFile(f) \/ MoveFileFails(f)
      PROVE  UNCHANGED <<meta, del>> /\ main.pc # "idle"
  BY <1>2 DEF MoveFile, MoveFileFails
<1>3. ASSUME \/ LoadBitfield \/ CreateNewBitfield \/ NilBitfield \/ CheckSetBit \/ CheckEnd
             \/ CheckFlush \/ CheckWrite \/ CheckWriteFails \/ RemoveOld \/ PutSettings
      PROVE  UNCHANGED <<meta, del>> /\ main.pc # "idle"
  BY <1>3 DEF LoadBitfield, CreateNewBitfield, NilBitfield, CheckSetBit, CheckEnd,
              CheckFlush, CheckWrite, CheckWriteFails, RemoveOld, PutSettings, disk
<1>4. Seed => UNCHANGED <<meta, del>> /\ up /\ del = "none"
  BY DEF Seed, InSwarm, disk
<1>5. ASSUME NEW c \in Conns,
             PutPartFails(c) \/ VerifyPiece(c) \/ SetBit(c) \/ Flush(c) \/ WriteFlush(c)
      PROVE  UNCHANGED <<meta, del>> /\ conn[c].pc # "idle"
  BY <1>5 DEF PutPartFails, VerifyPiece, SetBit, Flush, WriteFlush, disk
<1>6. ASSUME NEW c \in Conns, NEW f \in Files, PutPart(c, f)
      PROVE  UNCHANGED <<meta, del>> /\ conn[c].pc # "idle"
  BY <1>6 DEF PutPart
<1>7. ASSUME NEW c \in Conns, NEW i \in Pieces, Request(c, i)
      PROVE  UNCHANGED <<meta, del>> /\ up /\ del = "none"
  BY <1>7 DEF Request, InSwarm, disk
<1>8. UNCHANGED <<meta, del>> /\ up /\ del = "none"
  <2>1. MainStep => UNCHANGED <<meta, del>> /\ up /\ del = "none"
    BY <1>1, <1>2, <1>3, <1>4, MainWorking DEF MainStep
  <2>2. ASSUME NEW c \in Conns, ConnStep(c) \/ \E i \in Pieces : Request(c, i)
        PROVE  UNCHANGED <<meta, del>> /\ up /\ del = "none"
    BY <1>5, <1>6, <1>7, <2>2, Working DEF ConnStep
  <2>3. QED
    BY <2>1, <2>2
<1>9. meta'
  BY <1>8 DEF Erased
<1>10. QED
  BY <1>8, <1>9 DEF Erased

LEMMA ErasedRest ==
  ASSUME Typed, Consistent, Erased,
         OpenAllTorrents \/ AddTorrent \/ DeleteStart \/ DeleteStep \/ DeleteFails \/ Crash
  PROVE  Erased'
<1>0. faults \in Nat /\ crashes \in Nat /\ files \in FilesType /\ dir \in Dirs
  BY BoundsAssumption DEF Typed, TypeOK
<1>1. OpenAllTorrents \/ AddTorrent => Erased'
  <2>1. OpenAllTorrents \/ AddTorrent => meta' /\ up'
    BY DEF OpenAllTorrents, AddTorrent, OpenAt
  <2>2. QED
    BY <2>1 DEF Erased
<1>2. DeleteStart => Erased'
  BY DEF DeleteStart, InSwarm, Erased
<1>3. CASE DeleteStep
  <2>1. up
    BY <1>3 DEF DeleteStep, Consistent, Alone
  <2>2. del = "files" => bfFile' = None /\ files'[dir'] = NoFiles
    BY <1>0, <1>3 DEF DeleteStep, Consistent, Alone, FilesType
  <2>3. del # "files" => up' /\ del' \in {"bitfield", "files"}
    BY <1>3, <2>1 DEF DeleteStep
  <2>4. del = "files" => ~up'
    BY <1>3 DEF DeleteStep
  <2>5. QED
    BY <2>2, <2>3, <2>4 DEF Erased
<1>4. DeleteFails => Erased'
  BY <1>0 DEF DeleteFails, Erased
<1>5. Crash => Erased'
  BY <1>0 DEF Crash, Erased
<1>6. QED
  BY <1>1, <1>2, <1>3, <1>4, <1>5

LEMMA ErasedStep == Typed /\ Sound /\ NothingLeft /\ [Next]_vars => NothingLeft'
<1> SUFFICES ASSUME Typed, Sound, NothingLeft, [Next]_vars, ~mishap' PROVE Erased'
  BY DEF NothingLeft
<1>1. CASE UNCHANGED vars
  BY <1>1 DEF vars, disk, bounds, NothingLeft, Erased
<1>2. CASE Next
  <2>1. Consistent /\ Erased
    BY <1>2, MishapStays DEF Sound, NothingLeft, Typed
  <2>2. ~\E d \in Dirs, f \in Files, i \in Pieces : Rot(d, f, i)
    BY DEF Rot
  <2>3. QED
    BY <1>2, <2>1, <2>2, ErasedWorking, ErasedRest DEF Next
<1>3. QED
  BY <1>1, <1>2

LEMMA ErasedInit == Init => NothingLeft
BY Facts DEF Init, NothingLeft, Erased

\* A deletion that nothing cuts short leaves neither data nor bitfield in either
\* directory, whatever moves, earlier deletions and additions came before it, unless a
\* goroutine was still at work when it began or old settings were found (fs.go:49-58).
THEOREM DeleteCorrect == Spec => []CleanDelete
<1>1. Typed /\ Sound /\ Undoubled /\ NothingLeft => CleanDelete
  <2> SUFFICES ASSUME Typed, Consistent, Single, Erased, Quiet,
                      ~meta, ~up, faults = 0, crashes = 0
               PROVE  bfFile = None /\ \A d \in Dirs : files[d] = NoFiles
    BY DEF Sound, Undoubled, NothingLeft, CleanDelete, DeletedIsGone
  <2>1. bfFile = None /\ files[dir] = NoFiles
    BY DEF Erased
  <2>2. files \in [Dirs -> [Files -> {None} \union SUBSET Pieces]] /\ dir \in Dirs
    BY DEF Typed, TypeOK, FilesType
  <2>3. \A f \in Files : Place(f) = dir
    BY DEF Place, Moving, Quiet
  <2>4. ASSUME NEW d \in Dirs, d # dir PROVE files[d] = NoFiles
    <3>1. \A f \in Files : files[d][f] = None
      BY <2>3, <2>4 DEF Single
    <3>2. files[d] = [f \in Files |-> files[d][f]]
      BY <2>2
    <3>3. QED
      BY <3>1, <3>2 DEF NoFiles
  <2>5. QED
    BY <2>1, <2>4
<1>2. QED
  BY <1>1, TypedInit, TypedStep, SoundInit, SoundStep, SingleInit, SingleStep, ErasedInit,
     ErasedStep, PTL DEF Spec

\* A torrent whose pieces come over one connection at a time, and that no mishap met,
\* comes out of Seed complete (fs.go:470-497).
OneByOne == \A c, d \in Conns : c = d
SeedsComplete ==
  [][OneByOne /\ ~mishap /\ main.job = "seed" /\ main.pc # "idle"
       /\ main'.pc = "idle" /\ seeding' => Done']_vars

\* While Seed runs, every bit is set and nobody is about to store the byte of one.
Complete ==
  /\ \A c \in Conns : conn[c].pc \in {"put", "verify", "have", "havenot"} => ~Done
  /\ main.pc # "idle" /\ main.job = "seed" =>
       /\ Done /\ main.pc # "havenot"
       /\ main.pc = "have" => main.snap = Pieces
Jobs ==
  /\ main.pc \in {"load", "create"} => main.job \in {"open", "add"}
  /\ main.pc \notin {"idle", "load", "create"} => main.job \in {"add", "seed"}
Seeds == Jobs /\ (OneByOne /\ ~mishap => Complete)

LEMMA ConnKeepsMain ==
  ASSUME NEW c \in Conns, ConnStep(c) \/ \E i \in Pieces : Request(c, i)
  PROVE  UNCHANGED main
<1>1. ASSUME NEW f \in Files, PutPart(c, f) PROVE UNCHANGED main
  BY <1>1 DEF PutPart
<1>2. ASSUME NEW i \in Pieces, Request(c, i) PROVE UNCHANGED main
  BY <1>2 DEF Request
<1>3. QED
  BY <1>1, <1>2 DEF ConnStep, PutPartFails, VerifyPiece, SetBit, Flush, WriteFlush

LEMMA JobsStep ==
  ASSUME Typed, Jobs, [Next]_vars
  PROVE  Jobs'
<1>0. main \in MainType
  BY DEF Typed, TypeOK
<1>1. ASSUME NEW i \in Pieces, CheckPiece(i) PROVE Jobs'
  BY <1>0, <1>1 DEF CheckPiece, Jobs, MainType
<1>2. ASSUME NEW f \in Files, MoveFile(f) \/ MoveFileFails(f) PROVE Jobs'
  BY <1>0, <1>2 DEF MoveFile, MoveFileFails, Jobs, MainType
<1>3. CASE LoadBitfield \/ CreateNewBitfield \/ NilBitfield
  <2>1. ASSUME NEW S, Loaded(S), main.pc \in {"load", "create"} PROVE Jobs'
    BY <1>0, <2>1, Facts DEF Loaded, MainType, Jobs
  <2>2. QED
    BY <1>0, <1>3, <2>1, Facts DEF LoadBitfield, CreateNewBitfield, NilBitfield, Jobs, MainType
<1>4. Seed => Jobs'
  BY Facts DEF Seed, Jobs, MainIdle
<1>5. CheckSetBit \/ CheckEnd \/ CheckFlush \/ RemoveOld => Jobs'
  BY <1>0 DEF CheckSetBit, CheckEnd, CheckFlush, RemoveOld, Jobs, MainType
<1>6. CheckWrite \/ CheckWriteFails \/ PutSettings \/ Crash => Jobs'
  BY <1>0, Facts DEF CheckWrite, CheckWriteFails, PutSettings, Crash, Jobs, MainType
<1>7. ASSUME NEW d \in Dirs, NEW job \in {"open", "add"}, OpenAt(d, job) PROVE Jobs'
  BY <1>7, Facts DEF OpenAt, MainIdle, Jobs
<1>8. OpenAllTorrents \/ AddTorrent => Jobs'
  <2>1. OpenAllTorrents \/ AddTorrent =>
          \E d \in Dirs, job \in {"open", "add"} : OpenAt(d, job)
    BY Facts DEF OpenAllTorrents, AddTorrent, Typed, TypeOK
  <2>2. QED
    BY <1>7, <2>1
<1>9. UNCHANGED main => Jobs'
  BY DEF Jobs
<1>10. ASSUME NEW c \in Conns, ConnStep(c) \/ \E i \in Pieces : Request(c, i)
       PROVE  UNCHANGED main
  BY <1>10, ConnKeepsMain
<1>11. ASSUME NEW d \in Dirs, NEW f \in Files, NEW i \in Pieces, Rot(d, f, i)
       PROVE  UNCHANGED main
  BY <1>11 DEF Rot
<1>12. DeleteStart \/ DeleteStep \/ DeleteFails \/ UNCHANGED vars => UNCHANGED main
  BY DEF DeleteStart, DeleteStep, DeleteFails, vars
<1>13. QED
  BY <1>1, <1>2, <1>3, <1>4, <1>5, <1>6, <1>8, <1>9, <1>10, <1>11, <1>12 DEF Next, MainStep

LEMMA CompleteMain ==
  ASSUME Typed, Consistent, Jobs, Complete, MainStep
  PROVE  Complete'
<1>0. main \in MainType
  BY DEF Typed, TypeOK
<1>1. ASSUME NEW i \in Pieces, CheckPiece(i) PROVE Complete'
  <2>1. /\ UNCHANGED <<bf, conn>> /\ main.pc = "check" /\ ~Moving /\ up /\ del = "none"
        /\ main'.job = main.job
        /\ main'.pc \in {"have", "havenot"} => main'.snap = bf
        /\ main'.pc = "havenot" => i \notin Good(dir)
        /\ main'.pc \in {"check", "have", "havenot"}
    BY <1>0, <1>1, MainWorking DEF CheckPiece, MainType, Moving
  <2>2. bf # None
    BY <2>1 DEF Typed, Refs
  <2>3. main.job = "seed" => i \in Good(dir)
    BY <2>1, <2>2, OwnedAtRest DEF Complete, Done, Consistent, Claims
  <2>4. QED
    BY <2>1, <2>3 DEF Complete, Done
<1>2. CASE LoadBitfield \/ CreateNewBitfield \/ NilBitfield
  <2>1. main.pc \in {"load", "create"} /\ UNCHANGED conn
    BY <1>2 DEF LoadBitfield, CreateNewBitfield, NilBitfield
  <2>2. \A c \in Conns : conn'[c].pc = "idle"
    BY <2>1 DEF Consistent, Alone, ConnsIdle
  <2>3. main'.pc = "idle" \/ main'.job = main.job
    <3>1. ASSUME NEW S, Loaded(S) PROVE main'.pc = "idle" \/ main'.job = main.job
      BY <1>0, <3>1, Facts DEF Loaded, MainType
    <3>2. QED
      BY <1>0, <1>2, <3>1, Facts DEF LoadBitfield, CreateNewBitfield, NilBitfield, MainType
  <2>4. main.job # "seed"
    BY <2>1 DEF Jobs
  <2>5. QED
    BY <2>2, <2>3, <2>4 DEF Complete
<1>3. CASE Seed
  <2>1. UNCHANGED <<bf, conn>> /\ Done /\ main'.pc = "check"
    BY <1>3, Facts DEF Seed, MainIdle
  <2>2. QED
    BY <2>1 DEF Complete, Done
<1>4. CASE CheckSetBit
  <2>1. /\ UNCHANGED conn /\ main'.pc = "check" /\ main'.job = main.job
        /\ main.pc \in {"have", "havenot"} /\ main.idx \in Pieces
    BY <1>0, <1>4 DEF CheckSetBit, MainType, Typed, Refs
  <2>2. CASE main.job = "seed"
    <3>1. bf' = bf /\ Done
      BY <1>4, <2>1, <2>2 DEF CheckSetBit, Complete, Done
    <3>2. QED
      BY <2>1, <3>1 DEF Complete, Done
  <2>3. CASE main.job # "seed"
    <3>1. \A c \in Conns : conn'[c].pc = "idle"
      BY <2>1, <2>3 DEF Jobs, Consistent, Alone, ConnsIdle
    <3>2. QED
      BY <2>1, <2>3, <3>1 DEF Complete
  <2>4. QED
    BY <2>2, <2>3
<1>5. ASSUME UNCHANGED <<bf, conn>>, main.pc # "idle",
             main'.pc = "idle" \/ (main'.job = main.job /\ main'.pc \notin {"have", "havenot"})
      PROVE  Complete'
  BY <1>5 DEF Complete, Done
<1>6. CheckEnd \/ CheckFlush \/ RemoveOld => Complete'
  BY <1>0, <1>5 DEF CheckEnd, CheckFlush, RemoveOld, MainType
<1>7. CheckWrite \/ CheckWriteFails \/ PutSettings => Complete'
  BY <1>0, <1>5, Facts DEF CheckWrite, CheckWriteFails, PutSettings, MainType
<1>8. ASSUME NEW f \in Files, MoveFile(f) \/ MoveFileFails(f) PROVE Complete'
  BY <1>0, <1>5, <1>8 DEF MoveFile, MoveFileFails, MainType
<1>9. QED
  BY <1>1, <1>2, <1>3, <1>4, <1>6, <1>7, <1>8 DEF MainStep

LEMMA CompleteConn ==
  ASSUME Typed, Complete, OneByOne, NEW c \in Conns,
         ConnStep(c) \/ \E i \in Pieces : Request(c, i)
  PROVE  Complete'
<1>0. conn \in [Conns -> ConnType] /\ \A d \in Conns : d = c
  BY DEF Typed, TypeOK, OneByOne
<1>1. UNCHANGED main
  BY ConnKeepsMain
<1>2. CASE UNCHANGED bf /\ (conn'[c].pc \in {"put", "verify", "have", "havenot"} => ~Done)
  BY <1>0, <1>1, <1>2 DEF Complete, Done
<1>3. ASSUME NEW i \in Pieces, Request(c, i) PROVE Complete'
  BY <1>2, <1>3 DEF Request
<1>4. ASSUME NEW f \in Files, PutPart(c, f) PROVE Complete'
  BY <1>2, <1>4 DEF PutPart, Complete
<1>5. CASE VerifyPiece(c)
  BY <1>2, <1>5 DEF VerifyPiece, Complete
<1>6. PutPartFails(c) \/ Flush(c) \/ WriteFlush(c) => Complete'
  BY <1>0, <1>2, Facts DEF PutPartFails, Flush, WriteFlush, ConnType
<1>7. CASE SetBit(c)
  <2>1. ~Done /\ conn'[c].pc \in {"idle", "flush"}
    BY <1>0, <1>7, Facts DEF SetBit, Complete, ConnType
  <2>2. ~(main.pc # "idle" /\ main.job = "seed")
    BY <2>1 DEF Complete
  <2>3. QED
    BY <1>0, <1>1, <2>1, <2>2 DEF Complete
<1>8. QED
  BY <1>3, <1>4, <1>5, <1>6, <1>7 DEF ConnStep

LEMMA CompleteRest ==
  ASSUME Typed, Complete, OpenAllTorrents \/ AddTorrent \/ DeleteStart \/ DeleteStep
                            \/ DeleteFails \/ Crash
  PROVE  Complete'
<1>1. ASSUME NEW d, NEW job \in {"open", "add"}, OpenAt(d, job) PROVE Complete'
  <2>1. \A c \in Conns : conn'[c].pc = "idle"
    BY <1>1 DEF OpenAt, Quiet
  <2>2. main'.job # "seed"
    BY <1>1 DEF OpenAt, MainIdle
  <2>3. QED
    BY <2>1, <2>2 DEF Complete
<1>2. OpenAllTorrents \/ AddTorrent => Complete'
  BY <1>1 DEF OpenAllTorrents, AddTorrent
<1>3. DeleteStart \/ DeleteStep \/ DeleteFails => Complete'
  BY DEF DeleteStart, DeleteStep, DeleteFails, Complete, Done
<1>4. Crash => Complete'
  BY Facts DEF Crash, Complete
<1>5. QED
  BY <1>2, <1>3, <1>4

LEMMA SeedsStep == Typed /\ Sound /\ Seeds /\ [Next]_vars => Seeds'
<1> SUFFICES ASSUME Typed, Sound, Seeds, [Next]_vars, OneByOne, ~mishap' PROVE Complete'
  BY JobsStep DEF Seeds, OneByOne
<1>1. CASE UNCHANGED vars
  BY <1>1 DEF vars, Seeds, Complete, Done
<1>2. CASE Next
  <2>1. Consistent /\ Complete /\ Jobs
    BY <1>2, MishapStays DEF Sound, Seeds, Typed
  <2>2. ~\E d \in Dirs, f \in Files, i \in Pieces : Rot(d, f, i)
    BY DEF Rot
  <2>3. QED
    BY <1>2, <2>1, <2>2, CompleteMain, CompleteConn, CompleteRest DEF Next
<1>3. QED
  BY <1>1, <1>2

LEMMA SeedsInit == Init => Seeds
BY Facts DEF Init, Seeds, Jobs, Complete

\* Seed lets go of the torrent as one that seeds only with every bit set, although VerifyAll
\* never tells it of a bad piece (fs.go:375-404, 475-497): for any number of
\* crashes and of torrents added and deleted, it comes out incomplete only after a mishap,
\* or when two connections stored bits of one byte at once and one bit was lost.
THEOREM SeedCorrect == Spec => SeedsComplete
<1>1. ASSUME Typed, Sound, Seeds, [Next]_vars
      PROVE  [OneByOne /\ ~mishap /\ main.job = "seed" /\ main.pc # "idle"
                /\ main'.pc = "idle" /\ seeding' => Done']_vars
  <2> SUFFICES ASSUME Next, OneByOne, ~mishap, main.job = "seed", main.pc # "idle",
                      main'.pc = "idle", seeding'
               PROVE  Done'
    BY <1>1
  <2>0. Done /\ main.pc \notin {"load", "create"} /\ main \in MainType
    BY <1>1 DEF Seeds, Complete, Jobs, Typed, TypeOK
  <2>1. UNCHANGED bf => Done'
    BY <2>0 DEF Done
  <2>2. ASSUME NEW i \in Pieces, CheckPiece(i) PROVE FALSE
    BY <2>0, <2>2 DEF CheckPiece, MainType
  <2>3. ASSUME NEW f \in Files, MoveFile(f) \/ MoveFileFails(f) PROVE UNCHANGED bf
    BY <2>3 DEF MoveFile, MoveFileFails
  <2>4. ~(LoadBitfield \/ CreateNewBitfield \/ NilBitfield \/ Seed)
    BY <2>0 DEF LoadBitfield, CreateNewBitfield, NilBitfield, Seed
  <2>5. ~CheckSetBit
    BY <2>0 DEF CheckSetBit, MainType
  <2>6. CheckEnd \/ CheckFlush \/ CheckWrite \/ CheckWriteFails \/ RemoveOld \/ PutSettings
          => UNCHANGED bf
    BY DEF CheckEnd, CheckFlush, CheckWrite, CheckWriteFails, RemoveOld, PutSettings
  <2>7. MainStep => UNCHANGED bf
    BY <2>2, <2>3, <2>4, <2>5, <2>6 DEF MainStep
  <2>8. ASSUME NEW c \in Conns, ConnStep(c) \/ \E i \in Pieces : Request(c, i)
        PROVE  UNCHANGED main
    BY <2>8, ConnKeepsMain
  <2>9. ASSUME NEW d \in Dirs, NEW f \in Files, NEW i \in Pieces, Rot(d, f, i)
        PROVE  UNCHANGED main
    BY <2>9 DEF Rot
  <2>10. DeleteStart \/ DeleteStep \/ DeleteFails => UNCHANGED main
    BY DEF DeleteStart, DeleteStep, DeleteFails
  <2>11. ~(OpenAllTorrents \/ AddTorrent \/ Crash)
    BY DEF OpenAllTorrents, AddTorrent, OpenAt, Quiet, Crash
  <2>12. QED
    BY <2>1, <2>7, <2>8, <2>9, <2>10, <2>11 DEF Next
<1>2. QED
  BY <1>1, TypedInit, TypedStep, SoundInit, SoundStep, SeedsInit, SeedsStep, PTL
     DEF Spec, SeedsComplete
=============================================================================
