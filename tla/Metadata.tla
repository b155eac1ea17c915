------------------------------ MODULE Metadata ------------------------------
(***************************************************************************)
(* How a torrent added by a magnet link gets its info dictionary from its  *)
(* peers (peer.go, torrent.go, fs.go).  It is cut into slices of 16 KiB;   *)
(* the run goroutine of each connection asks for slices and stores them in *)
(* a buffer they share, the run loop of the torrent starts over from time  *)
(* to time, and the one that stores the last slice checks the hash and     *)
(* installs the result, which aliases the buffer.  Nothing is locked.      *)
(***************************************************************************)
EXTENDS Naturals, FiniteSets

CONSTANTS
    Peers,          \* connections whose peers support ut_metadata and name the length
    Servers,        \* those that have the info dictionary and stay
    Xds,            \* other XDs that have it
    SameId,         \* those with our number for the extension
    Slices,         \* number of slices
    Exact,          \* whether the length is a multiple of the slice's
    MaxFaults,      \* bound: bad slices and failed writes
    None

VARIABLES
    met,            \* peers whose extended handshake has come: theirOpts
    known,          \* peers whose bitfield has come
    alloc,          \* the length Torrent.metaInfo and the bitfields are allocated with
    have, asked,    \* Torrent.pendingInfoBF and requestingInfoBF
    buf,            \* the slices in Torrent.metaInfo
    putting,        \* Torrent.puttingMetaInfo
    meta,           \* fsTorrent.meta: None, or whether its bytes are still in the buffer
    req,            \* requests each peer has yet to answer
    task,           \* what the run goroutine of each connection is doing
    toAsk,          \* peers askAllMetadata has yet to ask
    late,           \* history: a slice was stored after the check of the hash
    faults          \* for the bound

vars == <<met, known, alloc, have, asked, buf, putting, meta, req, task, toAsk, late, faults>>

Real == 0 .. Slices - 1
(* 1 + length / 16 KiB bits: one too many for an exact multiple.           *)
Bits == 0 .. IF Exact THEN Slices ELSE Slices - 1

Idle == [pc |-> "idle", i |-> 0, data |-> "good"]

TypeOK ==
    /\ met \subseteq Peers /\ known \subseteq Peers
    /\ alloc \in {"no", "right", "wrong"}
    /\ {putting, late} \subseteq BOOLEAN
    /\ have \subseteq Bits /\ asked \subseteq Bits
    /\ buf \in [Real -> {"empty", "good", "bad"}]
    /\ meta \in {None, "buffer", "own"}
    /\ req \in [Peers -> SUBSET Bits]
    /\ task \in [Peers -> [pc : {"idle", "set", "copy", "hash", "write", "ask"}, i : Bits,
                           data : {"good", "bad"}]]
    /\ toAsk \subseteq Peers
    /\ faults \in 0 .. MaxFaults

Init ==
    /\ met = {} /\ known = {}
    /\ alloc = "no"
    /\ have = {} /\ asked = {}
    /\ buf = [i \in Real |-> "empty"]
    /\ putting = FALSE
    /\ meta = None
    /\ req = [p \in Peers |-> {}]
    /\ task = [p \in Peers |-> Idle]
    /\ toAsk = {}
    /\ late = FALSE
    /\ faults = 0

Ready == meta # None
Fault == faults < MaxFaults /\ faults' = faults + 1
(* Goes on at pc, which needs the slice only as far as it is copied.       *)
Goto(p, pc) ==
    task' = [task EXCEPT ![p] = [(IF pc \in {"set", "copy"} THEN @ ELSE Idle) EXCEPT !.pc = pc]]
Missing == Bits \ (have \union asked)
Lowest(S) == CHOOSE i \in S : \A j \in S : i <= j

(* nextMetaInfoReq and the request it is for; reaches says whether the     *)
(* peer knows the message.                                                 *)
nextMetaInfoReq(p, reaches) ==
    IF Ready \/ Missing = {} THEN UNCHANGED <<asked, req>>
    ELSE /\ asked' = asked \union {Lowest(Missing)}
         /\ req' = IF reaches THEN [req EXCEPT ![p] = @ \union {Lowest(Missing)}] ELSE req

(* An extended handshake.  Nothing comes of a bitfield that came before it *)
(* (metaInfoDownload needs the handshake); that of an XD always did: its   *)
(* handshake is the answer to ours, and that one to its bitfield.          *)
handleExtendedOpts(p) ==
    /\ p \notin met
    /\ met' = met \union {p}
    /\ \/ p \notin Xds /\ UNCHANGED known
       \/ known' = known \union {p}
    /\ UNCHANGED <<alloc, have, asked, buf, putting, meta, req, task, toAsk, late, faults>>

(* A bitfield after the handshake: metaInfoDownload allocates, unless that *)
(* is done, and asks the peer.                                             *)
metaInfoDownload(p) ==
    /\ p \in met \ known /\ ~Ready /\ task[p].pc = "idle"
    /\ known' = known \union {p}
    /\ alloc' = IF alloc = "no" THEN "right" ELSE alloc
    /\ nextMetaInfoReq(p, TRUE)
    /\ UNCHANGED <<met, have, buf, putting, meta, task, toAsk, late, faults>>

(* The same for a peer that is not one of Peers, and is gone before it has *)
(* answered.  The length it names is kept, be it wrong.                    *)
FirstLeaves ==
    /\ alloc = "no" /\ ~Ready
    /\ \/ alloc' = "right" /\ UNCHANGED faults
       \/ alloc' = "wrong" /\ Fault
    /\ asked' = {Lowest(Bits)}
    /\ UNCHANGED <<met, known, have, buf, putting, meta, req, task, toAsk, late>>

\* mutant: unanswered requests are not forgotten
ResetRequestsKeeps ==
    /\ ~Ready /\ alloc # "no" /\ ~putting /\ toAsk = {}
    /\ asked' = asked
    /\ toAsk' = met
    /\ UNCHANGED <<met, known, alloc, have, buf, putting, meta, req, task, late, faults>>

(* The run loop, every 30 seconds: requests are forgotten, and all peers   *)
(* are asked for one slice each.                                           *)
ResetRequests ==
    /\ ~Ready /\ alloc # "no" /\ ~putting /\ toAsk = {}
    /\ asked' = {}
    /\ toAsk' = met
    /\ UNCHANGED <<met, known, alloc, have, buf, putting, meta, req, task, late, faults>>

askAllMetadata(p) ==
    /\ p \in toAsk
    /\ toAsk' = toAsk \ {p}
    /\ nextMetaInfoReq(p, TRUE)
    /\ UNCHANGED <<met, known, alloc, have, buf, putting, meta, task, late, faults>>

-----------------------------------------------------------------------------
(* Answers.                                                                *)

(* handleMetadata, when the other end is an XD: it rejects all slices but  *)
(* the last whole one, and sends that one with what is left after it.      *)
handleMetadata(p, i) == p \in Xds /\ i + 1 = IF Exact THEN Slices ELSE Slices - 1
Sent(p, i) == IF p \in Xds THEN {j \in Real : j >= i} ELSE {i}

(* A slice, which a faulty peer may have got wrong.  There is nothing to   *)
(* send for the bit that is too many.  putInfoSlice stores nothing while   *)
(* the info is being put.                                                  *)
Answer(p, i) ==
    /\ i \in req[p] /\ i \in Real /\ task[p].pc = "idle"
    /\ req' = [req EXCEPT ![p] = @ \ {i}]
    /\ \E d \in {"good", "bad"} :
        /\ IF d = "bad" THEN Fault
           ELSE (p \in Servers \/ handleMetadata(p, i)) /\ UNCHANGED faults
        /\ task' = [task EXCEPT ![p] =
                        IF Ready THEN Idle
                        ELSE IF putting THEN [Idle EXCEPT !.pc = "ask"]
                        ELSE [pc |-> "set", i |-> i, data |-> d]]
    /\ UNCHANGED <<met, known, alloc, have, asked, buf, putting, meta, toAsk, late>>

Reject(p, i) ==
    /\ i \in req[p] /\ task[p].pc = "idle" /\ (p \in Servers => i \notin Real)
    /\ ~handleMetadata(p, i)
    /\ req' = [req EXCEPT ![p] = @ \ {i}]
    /\ asked' = asked \ {i}
    /\ UNCHANGED <<met, known, alloc, have, buf, putting, meta, task, toAsk, late, faults>>

SetPending(p) ==
    /\ task[p].pc = "set"
    /\ have' = have \union {task[p].i}
    /\ Goto(p, "copy")
    /\ UNCHANGED <<met, known, alloc, asked, buf, putting, meta, req, toAsk, late, faults>>

(* The copy, and the test whether this was the last one.                   *)
CopySlice(p) ==
    /\ task[p].pc = "copy"
    /\ buf' = IF meta = "own" THEN buf
               ELSE [j \in Real |-> IF j \in Sent(p, task[p].i) THEN task[p].data ELSE buf[j]]
    /\ late' = (late \/ putting)
    /\ IF have = Bits THEN putting' = TRUE /\ Goto(p, "hash")
       ELSE Goto(p, "ask") /\ UNCHANGED putting
    /\ UNCHANGED <<met, known, alloc, have, asked, meta, req, toAsk, faults>>

(* resetPendingInfo: new, empty buffer and bitfields, and all are asked.   *)
ResetPending ==
    /\ putting' = FALSE
    /\ asked' = {} /\ have' = {}
    /\ buf' = [i \in Real |-> "empty"]
    /\ toAsk' = met

\* mutant: the hash is not compared
PutInfoBytesUnchecked(p) ==
    /\ task[p].pc = "hash"
    /\ IF Ready THEN Goto(p, "idle") /\ UNCHANGED <<meta, putting, asked, have, buf, toAsk>>
       ELSE IF \A i \in Real : buf[i] # "empty"
       THEN meta' = "buffer" /\ Goto(p, "write") /\ UNCHANGED <<putting, asked, have, buf, toAsk>>
       ELSE ResetPending /\ Goto(p, "ask") /\ UNCHANGED meta
    /\ UNCHANGED <<met, known, alloc, req, late, faults>>

(* PutInfoBytes: the hash is right and the info installed, or start over.  *)
(* Of a buffer of another length it is never right.                        *)
PutInfoBytes(p) ==
    /\ task[p].pc = "hash"
    /\ IF Ready THEN Goto(p, "idle") /\ UNCHANGED <<meta, putting, asked, have, buf, toAsk>>
       ELSE IF alloc = "right" /\ \A i \in Real : buf[i] = "good"
       THEN meta' = "buffer" /\ Goto(p, "write") /\ UNCHANGED <<putting, asked, have, buf, toAsk>>
       ELSE ResetPending /\ Goto(p, "ask") /\ UNCHANGED meta
    /\ UNCHANGED <<met, known, alloc, req, late, faults>>

(* The torrent file is written and space is allocated; if that fails the   *)
(* torrent starts over too, although it is ready.                          *)
WriteTorrentFile(p) ==
    /\ task[p].pc = "write"
    /\ \/ UNCHANGED <<meta, putting, asked, have, buf, toAsk, faults>>
       \/ Fault /\ ResetPending /\ meta' = "own"
    /\ Goto(p, "idle")
    /\ UNCHANGED <<met, known, alloc, req, late>>

(* handleMetadata goes on to ask this peer for the next slice, with our    *)
(* number of the extension.                                                *)
askNextMetadata(p) ==
    /\ task[p].pc = "ask"
    /\ Goto(p, "idle")
    /\ nextMetaInfoReq(p, p \in SameId)
    /\ UNCHANGED <<met, known, alloc, have, buf, putting, meta, toAsk, late, faults>>

Handle(p) ==
    \/ SetPending(p) \/ CopySlice(p)
    \/ PutInfoBytes(p) \/ WriteTorrentFile(p) \/ askNextMetadata(p)

Next ==
    \/ FirstLeaves \/ ResetRequests
    \/ \E p \in Peers :
        \/ handleExtendedOpts(p) \/ metaInfoDownload(p) \/ askAllMetadata(p) \/ Handle(p)
        \/ \E i \in Bits : Answer(p, i) \/ Reject(p, i)

(* Goroutines run, servers answer, and the connection of each server comes *)
(* first in some of the visits of the table: the order of a map is random. *)
Fairness ==
    /\ WF_vars(ResetRequests) /\ WF_vars(\E p \in Peers : askAllMetadata(p))
    /\ \A p \in Peers : WF_vars(Handle(p))
    /\ \A p \in Servers :
        /\ WF_vars(handleExtendedOpts(p) \/ metaInfoDownload(p))
        /\ SF_vars(toAsk = met /\ askAllMetadata(p))
        /\ SF_vars(\E i \in Bits : Answer(p, i) \/ Reject(p, i))

Spec == Init /\ [][Next]_vars /\ Fairness

-----------------------------------------------------------------------------
(* Properties.                                                             *)

(* The installed info is the one the hash was taken of, unless a slice was *)
(* stored in the buffer, which it shares, after putting began              *)
(* (torrent.go:566-577, fs.go:297).                                        *)
InstalledIsGood == meta = "buffer" => late \/ \A i \in Real : buf[i] = "good"

(* Once a length is agreed on, and it is the right one, a magnet link gets *)
(* its info from one peer that serves it, whatever others reject or send   *)
(* wrong, but for a length that is a multiple of 16 KiB; also from a peer  *)
(* whose handshake came too late for its bitfield to be followed by a      *)
(* request (peer.go:459, torrent.go:598-614, 739).                         *)
InfoArrives == Servers # {} /\ ~Exact => []<>(alloc = "right" => Ready)
=============================================================================
