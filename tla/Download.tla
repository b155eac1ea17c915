------------------------------ MODULE Download ------------------------------
(***************************************************************************)
(* How XD downloads the pieces of one torrent: lib/bittorrent/swarm/piece.go*)
(* (pieceTracker, cachedPiece), the download side of peer.go (PeerConn) and *)
(* torrent.go (tick), and the calls they make to lib/storage/fs.go          *)
(* (PutChunk, VerifyPiece).                                                 *)
(*                                                                          *)
(* The goroutines are one `run` loop per peer connection and the single     *)
(* tick loop of the swarm.  Each is a small program with a pc, and a step   *)
(* is what runs between two accesses to state another goroutine may touch.  *)
(* Bitfields are byte arrays updated by an unlocked read-modify-write, so   *)
(* setting or clearing a bit is a load and a later store of the whole byte. *)
(* Cached pieces live on a heap: a goroutine may go on using one that       *)
(* removePiece has already taken out of the map.                            *)
(***************************************************************************)
EXTENDS Naturals, FiniteSets

CONSTANTS
  Peers,        \* peer connections, bitfield already received
  Pieces,       \* piece indices of the torrent
  BlocksOf,     \* BlocksOf[i]: indices of the blocks (BlockSize) of piece i
  Remote,       \* Remote[p]: the pieces peer p has
  Honest,       \* the peers that only send the torrent's own data
  Objects,      \* addresses of cachedPiece values (bound on live ones)
  MaxParallel,  \* PeerConn.MaxParalellRequests
  MaxFaults,    \* bound on chokes, closes, failed reads and writes, slow answers
  None          \* nil

Slots == UNION {{i} \X BlocksOf[i] : i \in Pieces}

ASSUME PiecesAssumption ==
  /\ BlocksOf \in [Pieces -> SUBSET Nat]
  /\ \A i \in Pieces : BlocksOf[i] # {}
ASSUME PeersAssumption == Remote \in [Peers -> SUBSET Pieces] /\ Honest \subseteq Peers
ASSUME BoundsAssumption == MaxParallel \in Nat \ {0} /\ MaxFaults \in Nat
ASSUME NoneAssumption == None \notin Objects \union Slots \union Pieces \union Peers

VARIABLES
  requests,     \* pieceTracker.requests: piece -> object or None
  cached,       \* the heap of cachedPiece values
  bf,           \* fsTorrent.bf: the pieces we hold
  disk,         \* what the data files hold for each block
  open,         \* the connection is not closing
  choked,       \* PeerConn.peerChoke
  interested,   \* PeerConn.usInterested
  downloading,  \* PeerConn.downloading
  lastRequest,  \* PeerConn.lastRequest
  outq,         \* requests in the send channel
  wire,         \* requests the remote peer has and may answer
  run,          \* where each connection's goroutine is
  tick,         \* where the tick goroutine is
  faults        \* faults so far

connVars == <<open, choked, interested, downloading, lastRequest, outq, wire>>
vars == <<requests, cached, bf, disk, connVars, run, tick, faults>>

-----------------------------------------------------------------------------
(* Data of the goroutines and the cached pieces.                           *)

Fresh(i) == [index |-> i, pending |-> {}, obtained |-> {}, old |-> FALSE]
Freed    == Fresh(None)

Bits == UNION {BlocksOf[i] : i \in Pieces}

RunIdle == [pc |-> "idle", req |-> None, good |-> FALSE, left |-> 0,
            obj |-> None, snap |-> {}, todo |-> {}]
TickIdle == [pc |-> "idle", keys |-> {}, peers |-> {}, peer |-> None,
             obj |-> None, idx |-> None, block |-> None, snap |-> {}]

\* a run loop goes on at c, having read S
At(x, c, S) == [x EXCEPT !.pc = c, !.snap = S]

\* PeerConn.access is held while a piece message, a choke or a close is handled
Unlocked(p) == run[p].pc = "idle"

Done == bf = Pieces

Wanted(p, have) == Remote[p] \ have # {}

\* objects somebody can still reach; the others are garbage
Reach(req, r, t) ==
  {req[i] : i \in Pieces} \union {r[p].obj : p \in Peers} \union {t.obj}

Sweep(heap, live) == [o \in Objects |-> IF o \in live THEN heap[o] ELSE Freed]

\* the pieces with a block on request
PendingPieces ==
  {i \in Pieces : requests[i] # None /\ cached[requests[i]].pending # {}}

Lowest(S) == CHOOSE b \in S : \A c \in S : b <= c

\* visitCached(i): Found is the cachedPiece the visitor gets, a new one (newPiece)
\* when the map has none; Visited is the heap then
Spare      == CHOOSE u \in Objects : u \notin Reach(requests, run, tick)
CanVisit(i) == requests[i] # None \/ Objects \ Reach(requests, run, tick) # {}
Found(i)   == IF requests[i] # None THEN requests[i] ELSE Spare
Visited(i) == IF requests[i] # None THEN cached ELSE [cached EXCEPT ![Spare] = Fresh(i)]
visitCached(i) == CanVisit(i) /\ requests' = [requests EXCEPT ![i] = Found(i)]

\* a connection's list of requests, as a bag; numDownloading is its length
NoRequests == [s \in Slots |-> 0]
Listed(p)  == {s \in Slots : downloading[p][s] > 0}
numDownloading(p) ==
  Cardinality(UNION {{s} \X (1..downloading[p][s]) : s \in Slots})

Cancelling(todo) ==
  IF todo = {} THEN RunIdle ELSE [RunIdle EXCEPT !.pc = "cancel", !.todo = todo]

-----------------------------------------------------------------------------
(* Messages from the remote peer, each handled by the connection's run loop. *)

\* mutant: takes r off the list without looking whether it is there
ReceivePieceUnlisted(p, r) ==
  /\ open[p] /\ Unlocked(p)
  /\ r \in wire[p]
  /\ wire' = [wire EXCEPT ![p] = @ \ {r}]
  /\ downloading' = [downloading EXCEPT ![p][r] = @ - 1]
  /\ run' = [run EXCEPT ![p] = [RunIdle EXCEPT !.pc = "visit", !.req = r, !.good = TRUE,
                                               !.left = 1]]
  /\ UNCHANGED <<requests, cached, bf, disk, open, choked, interested, lastRequest,
                 outq, tick, faults>>

\* a PIECE message answering r: gotDownload takes the entries it matches off
\* the list and handles the data once for each of them
ReceivePiece(p, r) ==
  /\ open[p] /\ Unlocked(p)
  /\ r \in wire[p]
  /\ wire' = [wire EXCEPT ![p] = @ \ {r}]
  /\ downloading' = [downloading EXCEPT ![p][r] = 0]
  /\ \E good \in IF p \in Honest THEN {TRUE} ELSE BOOLEAN :
       run' = IF r \notin Listed(p) THEN run
              ELSE [run EXCEPT ![p] = [RunIdle EXCEPT !.pc = "visit", !.req = r,
                                                      !.good = good,
                                                      !.left = downloading[p][r]]]
  /\ UNCHANGED <<requests, cached, bf, disk, open, choked, interested, lastRequest,
                 outq, tick, faults>>

\* CHOKE: everything asked of this peer is cancelled; the remote drops some or
\* all of what it was asked
ReceiveChoke(p) ==
  /\ open[p] /\ Unlocked(p) /\ faults < MaxFaults
  /\ choked' = [choked EXCEPT ![p] = TRUE]
  /\ run' = [run EXCEPT ![p] = Cancelling(Listed(p))]
  /\ downloading' = [downloading EXCEPT ![p] = NoRequests]
  /\ \E kept \in SUBSET wire[p] : wire' = [wire EXCEPT ![p] = kept]
  /\ faults' = faults + 1
  /\ UNCHANGED <<requests, cached, bf, disk, open, interested, lastRequest, outq, tick>>

ReceiveUnchoke(p) ==
  /\ open[p] /\ Unlocked(p)
  /\ choked' = [choked EXCEPT ![p] = FALSE]
  /\ interested' = [interested EXCEPT ![p] = Wanted(p, bf)]
  /\ UNCHANGED <<requests, cached, bf, disk, open, downloading, lastRequest, outq,
                 wire, run, tick, faults>>

\* processWrite: a queued request goes to the peer, or is cancelled when the
\* peer has choked us since
WriteRequest(p, r) ==
  /\ open[p] /\ Unlocked(p)
  /\ r \in outq[p]
  /\ outq' = [outq EXCEPT ![p] = @ \ {r}]
  /\ \/ /\ ~choked[p]
        /\ wire' = [wire EXCEPT ![p] = @ \union {r}]
        /\ UNCHANGED <<downloading, run>>
     \/ /\ choked[p]
        /\ downloading' = [downloading EXCEPT ![p][r] = 0]
        /\ run' = [run EXCEPT ![p] = Cancelling(Listed(p) \cap {r})]
        /\ UNCHANGED wire
  /\ UNCHANGED <<requests, cached, bf, disk, open, choked, interested, lastRequest,
                 tick, faults>>

\* doClose: the connection goes away with what was asked of it
doClose(p) ==
  /\ open[p] /\ Unlocked(p) /\ faults < MaxFaults
  /\ open' = [open EXCEPT ![p] = FALSE]
  /\ run' = [run EXCEPT ![p] = Cancelling(Listed(p))]
  /\ downloading' = [downloading EXCEPT ![p] = NoRequests]
  /\ outq' = [outq EXCEPT ![p] = {}]
  /\ wire' = [wire EXCEPT ![p] = {}]
  /\ faults' = faults + 1
  /\ UNCHANGED <<requests, cached, bf, disk, choked, interested, lastRequest, tick>>

\* canceledRequest, once for each request to cancel, in any order (cancelling a block
\* again changes nothing): load, then store, pending
CancelLoad(p) ==
  /\ run[p].pc = "cancel"
  /\ \E r \in run[p].todo :
       /\ visitCached(r[1])
       /\ run' = [run EXCEPT ![p] = [@ EXCEPT !.pc = "uncancel", !.req = r, !.obj = Found(r[1]),
                              !.snap = Visited(r[1])[Found(r[1])].pending]]
       /\ cached' = Visited(r[1])
  /\ UNCHANGED <<bf, disk, connVars, tick, faults>>

CancelStore(p) ==
  LET o == run[p].obj IN
  /\ run[p].pc = "uncancel"
  /\ run' = [run EXCEPT ![p] = Cancelling(run[p].todo \ {run[p].req})]
  /\ cached' = Sweep([cached EXCEPT ![o].pending = run[p].snap \ {run[p].req[2]},
                                    ![o].old = FALSE],
                     Reach(requests, run', tick))
  /\ UNCHANGED <<requests, bf, disk, connVars, tick, faults>>

-----------------------------------------------------------------------------
(* handlePieceData, step by step, with run[p].req the block received.      *)

VisitData(p) ==
  LET i == run[p].req[1] IN
  /\ run[p].pc = "visit"
  /\ visitCached(i)
  /\ run' = [run EXCEPT ![p] = [@ EXCEPT !.pc = "write", !.obj = Found(i)]]
  /\ cached' = Visited(i)
  /\ UNCHANGED <<bf, disk, connVars, tick, faults>>

\* mutant: the piece's offset is left out of the place written to
PutChunkMisplaced(p) ==
  LET r == run[p].req
      first == CHOOSE i \in Pieces : \A j \in Pieces : i <= j IN
  /\ run[p].pc = "write"
  /\ disk' = [disk EXCEPT ![<<first, r[2]>>] =
                 IF run[p].good /\ r[1] = first THEN "good" ELSE "bad"]
  /\ run' = [run EXCEPT ![p] = At(@, "put", cached[run[p].obj].obtained)]
  /\ UNCHANGED <<requests, cached, bf, connVars, tick, faults>>

\* PutChunk succeeds: the data is in the file; put loads the obtained byte
PutChunk(p) ==
  /\ run[p].pc = "write"
  /\ disk' = [disk EXCEPT ![run[p].req] = IF run[p].good THEN "good" ELSE "bad"]
  /\ run' = [run EXCEPT ![p] = At(@, "put", cached[run[p].obj].obtained)]
  /\ UNCHANGED <<requests, cached, bf, connVars, tick, faults>>

\* mutant: the error of PutChunk is not looked at
PutChunkErrorIgnored(p) ==
  /\ run[p].pc = "write" /\ faults < MaxFaults
  /\ run' = [run EXCEPT ![p] = At(@, "put", cached[run[p].obj].obtained)]
  /\ faults' = faults + 1
  /\ UNCHANGED <<requests, cached, bf, disk, connVars, tick>>

\* PutChunk fails before it wrote anything: cancel loads the pending byte
PutChunkFails(p) ==
  /\ run[p].pc = "write" /\ faults < MaxFaults
  /\ run' = [run EXCEPT ![p] = At(@, "unset", cached[run[p].obj].pending)]
  /\ faults' = faults + 1
  /\ UNCHANGED <<requests, cached, bf, disk, connVars, tick>>

\* put: obtained is stored, then pending is loaded
SetObtained(p) ==
  LET o == run[p].obj IN
  /\ run[p].pc = "put"
  /\ cached' = [cached EXCEPT ![o].obtained = run[p].snap \union {run[p].req[2]}]
  /\ run' = [run EXCEPT ![p] = At(@, "unset", cached[o].pending)]
  /\ UNCHANGED <<requests, bf, disk, connVars, tick, faults>>

\* put and cancel: pending is stored, lastActive is now
UnsetPending(p) ==
  LET o == run[p].obj IN
  /\ run[p].pc = "unset"
  /\ cached' = [cached EXCEPT ![o].pending = run[p].snap \ {run[p].req[2]},
                              ![o].old = FALSE]
  /\ run' = [run EXCEPT ![p] = At(@, "done", {})]
  /\ UNCHANGED <<requests, bf, disk, connVars, tick, faults>>

\* the data has been handled; gotDownload goes on with its next matching entry
Handled(p) ==
  IF run[p].left <= 1 THEN RunIdle
  ELSE [RunIdle EXCEPT !.pc = "visit", !.req = run[p].req, !.good = run[p].good,
                       !.left = run[p].left - 1]

\* cachedPiece.done
Complete(o) == cached[o].obtained = BlocksOf[cached[o].index]

\* mutant: returns with PeerConn.access held when the piece is not complete
CheckDoneStaysLocked(p) ==
  /\ run[p].pc = "done"
  /\ run' = IF Complete(run[p].obj) THEN [run EXCEPT ![p] = At(@, "verify", {})] ELSE run
  /\ UNCHANGED <<requests, cached, bf, disk, connVars, tick, faults>>

CheckDone(p) ==
  /\ run[p].pc = "done"
  /\ \/ /\ Complete(run[p].obj)
        /\ run' = [run EXCEPT ![p] = At(@, "verify", {})]
        /\ UNCHANGED cached
     \/ /\ ~Complete(run[p].obj)
        /\ run' = [run EXCEPT ![p] = Handled(p)]
        /\ cached' = Sweep(cached, Reach(requests, run', tick))
  /\ UNCHANGED <<requests, bf, disk, connVars, tick, faults>>

GoodOnDisk(i) == \A b \in BlocksOf[i] : disk[<<i, b>>] = "good"

\* mutant: the hash is not compared
ReadBackUnchecked(p) ==
  /\ run[p].pc = "verify"
  /\ run' = [run EXCEPT ![p] = At(@, "have", bf)]
  /\ UNCHANGED <<requests, cached, bf, disk, connVars, tick, faults>>

\* VerifyPiece reads the piece back and compares its hash, then loads the byte
\* of t.bf its bit is in
ReadBack(p) ==
  LET i == run[p].req[1] IN
  /\ run[p].pc = "verify"
  /\ run' = [run EXCEPT ![p] = At(@, IF GoodOnDisk(i) THEN "have" ELSE "havenot", bf)]
  /\ UNCHANGED <<requests, cached, bf, disk, connVars, tick, faults>>

\* the piece can't be read back: its bit stays as it is
ReadBackFails(p) ==
  /\ run[p].pc = "verify" /\ faults < MaxFaults
  /\ run' = [run EXCEPT ![p] = At(@, "remove", {})]
  /\ faults' = faults + 1
  /\ UNCHANGED <<requests, cached, bf, disk, connVars, tick>>

\* t.bf.Set or t.bf.Unset stores the byte
SetHave(p) ==
  LET i == run[p].req[1] IN
  /\ \/ /\ run[p].pc = "have"
        /\ bf' = run[p].snap \union {i}
        /\ run' = [run EXCEPT ![p] = At(@, "broadcast", {})]
     \/ /\ run[p].pc = "havenot"
        /\ bf' = run[p].snap \ {i}
        /\ run' = [run EXCEPT ![p] = At(@, "remove", {})]
  /\ UNCHANGED <<requests, cached, disk, connVars, tick, faults>>

\* broadcastHave: every open connection's checkInterested
BroadcastHave(p) ==
  /\ run[p].pc = "broadcast"
  /\ interested' = [q \in Peers |-> IF open[q] THEN Wanted(q, bf) ELSE interested[q]]
  /\ run' = [run EXCEPT ![p] = At(@, "remove", {})]
  /\ UNCHANGED <<requests, cached, bf, disk, open, choked, downloading, lastRequest,
                 outq, wire, tick, faults>>

removePiece(p) ==
  /\ run[p].pc = "remove"
  /\ requests' = [requests EXCEPT ![run[p].req[1]] = None]
  /\ run' = [run EXCEPT ![p] = Handled(p)]
  /\ cached' = Sweep(cached, Reach(requests', run', tick))
  /\ UNCHANGED <<bf, disk, connVars, tick, faults>>

-----------------------------------------------------------------------------
(* The tick goroutine: Torrent.tick, then tickDownload of each connection. *)

\* nothing to do once the torrent is complete; otherwise the expiry pass begins
TickStart ==
  /\ tick.pc = "idle"
  /\ tick' = IF Done THEN tick
             ELSE [TickIdle EXCEPT !.pc = "expire",
                                   !.keys = {i \in Pieces : requests[i] # None}]
  /\ UNCHANGED <<requests, cached, bf, disk, connVars, run, faults>>

\* the expiry pass looks at one cached piece; when it is too old and has blocks
\* on request, these are cancelled with every connection first
TickExpire(i) ==
  LET o == Found(i)
      heap == Visited(i)
      expired == heap[o].old /\ heap[o].pending # {} IN
  /\ tick.pc = "expire" /\ i \in tick.keys
  /\ visitCached(i)
  /\ tick' = IF expired
             THEN [tick EXCEPT !.pc = "cancel", !.keys = @ \ {i}, !.obj = o, !.idx = i,
                               !.peers = {p \in Peers : open[p]}]
             ELSE [tick EXCEPT !.keys = @ \ {i}]
  /\ cached' = IF expired THEN heap ELSE [heap EXCEPT ![o].old = FALSE]
  /\ UNCHANGED <<bf, disk, connVars, run, faults>>

\* mutant: sends the CANCELs and leaves the requests on the list
TickCancelPieceKeepsList(p) ==
  /\ tick.pc = "cancel" /\ p \in tick.peers
  /\ Unlocked(p)
  /\ wire' = [wire EXCEPT ![p] = {r \in @ : r[1] # tick.idx}]
  /\ tick' = [tick EXCEPT !.peers = @ \ {p}]
  /\ UNCHANGED <<requests, cached, bf, disk, open, choked, interested, downloading,
                 lastRequest, outq, run, faults>>

\* cancelPiece of one connection; the remote may heed the CANCEL or answer anyway
TickCancelPiece(p) ==
  /\ tick.pc = "cancel" /\ p \in tick.peers
  /\ Unlocked(p)
  /\ downloading' = [downloading EXCEPT ![p] = [s \in Slots |-> IF s[1] = tick.idx THEN 0 ELSE @[s]]]
  /\ \E heeded \in SUBSET {r \in wire[p] : r[1] = tick.idx} :
       wire' = [wire EXCEPT ![p] = @ \ heeded]
  /\ tick' = [tick EXCEPT !.peers = @ \ {p}]
  /\ UNCHANGED <<requests, cached, bf, disk, open, choked, interested, lastRequest,
                 outq, run, faults>>

\* mutant: cancels with the connections and leaves the blocks pending
TickZeroKeepsPending ==
  /\ tick.pc = "cancel" /\ tick.peers = {}
  /\ tick' = [tick EXCEPT !.pc = "expire", !.obj = None, !.idx = None]
  /\ cached' = Sweep([cached EXCEPT ![tick.obj].old = FALSE], Reach(requests, run, tick'))
  /\ UNCHANGED <<requests, bf, disk, connVars, run, faults>>

\* pending.Zero, and the piece counts as active again
TickZero ==
  /\ tick.pc = "cancel" /\ tick.peers = {}
  /\ tick' = [tick EXCEPT !.pc = "expire", !.obj = None, !.idx = None]
  /\ cached' = Sweep([cached EXCEPT ![tick.obj].pending = {}, ![tick.obj].old = FALSE],
                     Reach(requests, run, tick'))
  /\ UNCHANGED <<requests, bf, disk, connVars, run, faults>>

TickVisitPeers ==
  /\ tick.pc = "expire" /\ tick.keys = {}
  /\ tick' = [TickIdle EXCEPT !.pc = "download", !.peers = {p \in Peers : open[p]}]
  /\ UNCHANGED <<requests, cached, bf, disk, connVars, run, faults>>

\* the rest of the visit is for other connections
NextPeer == [TickIdle EXCEPT !.pc = "download", !.peers = tick.peers \ {tick.peer}]

\* mutant: one request too many
TickDownloadOneMore(p) ==
  /\ tick.pc = "download" /\ p \in tick.peers
  /\ ~Done /\ interested[p] /\ open[p] /\ ~choked[p]
  /\ Unlocked(p)
  /\ tick' = IF numDownloading(p) > MaxParallel
             THEN [tick EXCEPT !.peers = @ \ {p}]
             ELSE [tick EXCEPT !.pc = IF lastRequest[p] = None THEN "pick" ELSE "last",
                               !.peer = p]
  /\ UNCHANGED <<requests, cached, bf, disk, connVars, run, faults>>

\* tickDownload: may this connection be asked for another block?
TickDownload(p) ==
  /\ tick.pc = "download" /\ p \in tick.peers
  /\ \/ /\ Done \/ ~interested[p] \/ ~open[p] \/ choked[p]
        /\ tick' = [tick EXCEPT !.peers = @ \ {p}]
     \/ /\ ~Done /\ interested[p] /\ open[p] /\ ~choked[p]
        /\ Unlocked(p)
        /\ tick' = IF numDownloading(p) >= MaxParallel
                   THEN [tick EXCEPT !.peers = @ \ {p}]
                   ELSE [tick EXCEPT !.pc = IF lastRequest[p] = None THEN "pick" ELSE "last",
                                     !.peer = p]
  /\ UNCHANGED <<requests, cached, bf, disk, connVars, run, faults>>

\* NextRequest: first the piece of the last request
TickVisitLast ==
  LET i == lastRequest[tick.peer][1] IN
  /\ tick.pc = "last"
  /\ visitCached(i)
  /\ cached' = Visited(i)
  /\ tick' = [tick EXCEPT !.pc = "loadlast", !.obj = Found(i), !.idx = i]
  /\ UNCHANGED <<bf, disk, connVars, run, faults>>

\* then a piece the peer has, we do not hold, and with no block on request
\* (getRarestPiece; which of them is the rarest is left open)
Candidates(p) == (Remote[p] \ bf) \ PendingPieces

TickPick ==
  /\ tick.pc = "pick"
  /\ \/ /\ Candidates(tick.peer) = {}
        /\ tick' = NextPeer
     \/ \E i \in Candidates(tick.peer) : tick' = [tick EXCEPT !.pc = "visit", !.idx = i]
  /\ UNCHANGED <<requests, cached, bf, disk, connVars, run, faults>>

TickVisit ==
  /\ tick.pc = "visit"
  /\ visitCached(tick.idx)
  /\ cached' = Visited(tick.idx)
  /\ tick' = [tick EXCEPT !.pc = "load", !.obj = Found(tick.idx)]
  /\ UNCHANGED <<bf, disk, connVars, run, faults>>

\* mutant: the last block of the piece is never looked at
FreeBlocksButLast(o) ==
  {b \in BlocksOf[cached[o].index] \ (cached[o].pending \union cached[o].obtained) :
     \E c \in BlocksOf[cached[o].index] : b < c}

\* cachedPiece.nextRequest: the first block neither pending nor obtained
FreeBlocks(o) == BlocksOf[cached[o].index] \ (cached[o].pending \union cached[o].obtained)

TickLoad ==
  LET free == FreeBlocks(tick.obj) IN
  /\ tick.pc \in {"loadlast", "load"}
  /\ \/ /\ free # {}
        /\ tick' = [tick EXCEPT !.pc = "store", !.block = Lowest(free),
                                !.snap = cached[tick.obj].pending]
        /\ UNCHANGED cached
     \/ /\ free = {}
        /\ tick' = IF tick.pc = "load" THEN NextPeer
                   ELSE [tick EXCEPT !.pc = "pick", !.obj = None, !.idx = None]
        /\ cached' = Sweep(cached, Reach(requests, run, tick'))
  /\ UNCHANGED <<requests, bf, disk, connVars, run, faults>>

TickStore ==
  /\ tick.pc = "store"
  /\ tick' = [tick EXCEPT !.pc = "queue", !.obj = None, !.snap = {}]
  /\ cached' = Sweep([cached EXCEPT ![tick.obj].pending = tick.snap \union {tick.block}],
                     Reach(requests, run, tick'))
  /\ UNCHANGED <<requests, bf, disk, connVars, run, faults>>

\* queueDownload; Send drops the message when the connection has closed
TickQueue ==
  LET p == tick.peer
      r == <<tick.idx, tick.block>> IN
  /\ tick.pc = "queue"
  /\ Unlocked(p)
  /\ lastRequest' = [lastRequest EXCEPT ![p] = r]
  /\ downloading' = [downloading EXCEPT ![p][r] = @ + 1]
  /\ outq' = IF open[p] THEN [outq EXCEPT ![p] = @ \union {r}] ELSE outq
  /\ tick' = NextPeer
  /\ UNCHANGED <<requests, cached, bf, disk, open, choked, interested, wire, run, faults>>

TickEnd ==
  /\ tick.pc = "download" /\ tick.peers = {}
  /\ tick' = TickIdle
  /\ UNCHANGED <<requests, cached, bf, disk, connVars, run, faults>>

-----------------------------------------------------------------------------
(* Time: five minutes pass with no activity on a cached piece.  A tick takes *)
(* far less, and an answer normally does too: a piece that gets old within a *)
(* tick, or while something happens to it, is slow and counts as a fault.    *)

Awaited(i) ==
  \/ tick.pc # "idle"
  \/ \E p \in Peers :
       \/ \E r \in outq[p] \union wire[p] : r[1] = i
       \/ run[p].pc # "idle" /\ (run[p].req = None \/ run[p].req[1] = i)

Age(i) ==
  /\ requests[i] # None /\ ~cached[requests[i]].old
  /\ IF Awaited(i) THEN faults < MaxFaults /\ faults' = faults + 1 ELSE UNCHANGED faults
  /\ cached' = [cached EXCEPT ![requests[i]].old = TRUE]
  /\ UNCHANGED <<requests, bf, disk, connVars, run, tick>>

-----------------------------------------------------------------------------
Init ==
  /\ requests = [i \in Pieces |-> None]
  /\ cached = [o \in Objects |-> Freed]
  /\ bf = {}
  /\ disk = [s \in Slots |-> "empty"]
  /\ open = [p \in Peers |-> TRUE]
  /\ choked = [p \in Peers |-> TRUE]
  /\ interested = [p \in Peers |-> Wanted(p, {})]
  /\ downloading = [p \in Peers |-> NoRequests]
  /\ lastRequest = [p \in Peers |-> None]
  /\ outq = [p \in Peers |-> {}]
  /\ wire = [p \in Peers |-> {}]
  /\ run = [p \in Peers |-> RunIdle]
  /\ tick = TickIdle
  /\ faults = 0

RunStep(p) ==
  \/ CancelLoad(p) \/ CancelStore(p)
  \/ VisitData(p) \/ PutChunk(p) \/ SetObtained(p) \/ UnsetPending(p)
  \/ CheckDone(p) \/ ReadBack(p) \/ SetHave(p) \/ BroadcastHave(p) \/ removePiece(p)

Remotely(p) ==
  \/ \E r \in wire[p] : ReceivePiece(p, r)
  \/ ReceiveUnchoke(p)

Fault(p) == ReceiveChoke(p) \/ doClose(p) \/ PutChunkFails(p) \/ ReadBackFails(p)

TickStep ==
  \/ TickStart \/ TickZero \/ TickVisitPeers \/ TickVisitLast \/ TickPick \/ TickVisit
  \/ TickLoad \/ TickStore \/ TickQueue \/ TickEnd
  \/ \E i \in Pieces : TickExpire(i)
  \/ \E p \in Peers : TickCancelPiece(p) \/ TickDownload(p)

Next ==
  \/ TickStep
  \/ \E i \in Pieces : Age(i)
  \/ \E p \in Peers :
       \/ RunStep(p) \/ Remotely(p) \/ Fault(p)
       \/ \E r \in outq[p] : WriteRequest(p, r)

Spec == Init /\ [][Next]_vars

\* Goroutines run, the remote peers answer what they are asked and unchoke us in
\* the end, time passes.  Chokes, closes and failures never have to happen.
Fairness ==
  /\ WF_vars(TickStep)
  /\ \A i \in Pieces : SF_vars(Age(i))
  /\ \A p \in Peers :
       /\ WF_vars(RunStep(p))
       /\ WF_vars(choked[p] /\ ReceiveUnchoke(p))
       /\ \A r \in Slots : WF_vars(ReceivePiece(p, r)) /\ WF_vars(WriteRequest(p, r))

FairSpec == Spec /\ Fairness

-----------------------------------------------------------------------------
(* Properties.                                                             *)

RunPCs ==
  {"idle", "cancel", "uncancel", "visit", "write", "put", "unset", "done", "verify",
   "have", "havenot", "broadcast", "remove"}

RunType ==
  [pc : RunPCs, req : Slots \union {None}, good : BOOLEAN, left : Nat,
   obj : Objects \union {None}, snap : SUBSET (Bits \union Pieces), todo : SUBSET Slots]

TickType ==
  [pc : {"idle", "expire", "cancel", "download", "last", "loadlast", "pick", "visit",
         "load", "store", "queue"},
   keys : SUBSET Pieces, peers : SUBSET Peers, peer : Peers \union {None},
   obj : Objects \union {None}, idx : Pieces \union {None},
   block : Bits \union {None}, snap : SUBSET Bits]

HeapType ==
  [Objects -> [index : Pieces \union {None}, pending : SUBSET Bits,
               obtained : SUBSET Bits, old : BOOLEAN]]

\* The variables have their types.
TypeOK ==
  /\ requests \in [Pieces -> Objects \union {None}]
  /\ cached \in HeapType
  /\ bf \in SUBSET Pieces
  /\ disk \in [Slots -> {"empty", "good", "bad"}]
  /\ open \in [Peers -> BOOLEAN]
  /\ choked \in [Peers -> BOOLEAN]
  /\ interested \in [Peers -> BOOLEAN]
  /\ downloading \in [Peers -> [Slots -> Nat]]
  /\ lastRequest \in [Peers -> Slots \union {None}]
  /\ outq \in [Peers -> SUBSET Slots]
  /\ wire \in [Peers -> SUBSET Slots]
  /\ run \in [Peers -> RunType]
  /\ tick \in TickType
  /\ faults \in 0..MaxFaults

\* A block marked obtained in any cached piece, the stale ones that a goroutine
\* still works on included, has been written to its place in the data files.
ObtainedOnDisk ==
  \A o \in Objects : cached[o].index # None =>
    \A b \in cached[o].obtained : disk[<<cached[o].index, b>>] # "empty"

\* With honest peers, a piece whose bit is set is good on disk: no stale cached
\* piece, no piece downloaded again and no lost update of the bitfield byte can
\* make XD offer data it does not have.
HaveIsValid == \A i \in bf : GoodOnDisk(i)

\* The pieces whose data is complete and good.
Whole == {i \in Pieces : GoodOnDisk(i)}

Store == INSTANCE PieceStore WITH have <- bf, whole <- Whole

\* With honest peers, all this is a PieceStore: no block written, by whichever
\* goroutine and for whichever copy of a cached piece, damages a piece that was
\* whole, and each byte stored in the bitfield names whole pieces only, although
\* it was loaded before other steps (fs.go:366, bitfield.go:202).
IsPieceStore == Store!Spec

\* A bit is set only for a piece whose data is good at that moment, whatever a
\* peer sends and however its answers mix.  It takes a single connection: two may
\* have the same piece, and one's bad block can land between the other's reading
\* the piece back and its setting the bit.
VerifiedWhenSet == [][\A i \in bf' \ bf : GoodOnDisk(i)]_bf

\* No connection has more than MaxParalellRequests blocks on request, although
\* tickDownload looks at the number and queueDownload adds to it under two
\* separate holds of the lock.
RequestLimit == \A p \in Peers : numDownloading(p) <= MaxParallel

\* When an expired piece's pending bits are about to be cleared, no open
\* connection whose requests were cancelled still has one of its blocks listed,
\* so none of the blocks freed is counted as on request by anybody.
ExpiryCancelsAll ==
  tick.pc = "cancel" =>
    \A p \in Peers \ tick.peers : open[p] =>
      \A s \in Listed(p) : s[1] # tick.idx

\* Once there are no more requests for the piece of the last request, a new
\* piece is picked (piece.go:219): a connection whose last request is for a
\* piece we hold goes on to one we do not hold, unless nothing is left to do.
Exhausted(p) == lastRequest[p] # None /\ lastRequest[p][1] \in bf /\ ~Done /\ open[p]

PicksNewPiece == \A p \in Peers : Exhausted(p) ~> ~Exhausted(p)

PendingNow(i, b) == requests[i] # None /\ b \in cached[requests[i]].pending

\* A block marked as on request is eventually released: answered, cancelled with
\* its connection, or freed when the piece expires, unless the torrent is complete.
PendingReleased ==
  \A i \in Pieces : \A b \in BlocksOf[i] : PendingNow(i, b) ~> (Done \/ ~PendingNow(i, b))

\* While a connection lasts, some piece is downloaded.
FirstPieceArrives == (\E p \in Peers : []open[p]) => <>(bf # {})

\* The tick goroutine, which serves every connection of every torrent, gets
\* through each round, whatever the goroutines it waits for are doing.
TickReturns == tick.pc # "idle" ~> tick.pc = "idle"

=============================================================================
