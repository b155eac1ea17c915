--------------------------- MODULE DownloadProofs ---------------------------
(***************************************************************************)
(* Safety of Download for any number of peers, pieces and blocks.          *)
(***************************************************************************)
EXTENDS Download, FiniteSetTheorems, WellFoundedInduction, TLAPS

-----------------------------------------------------------------------------
(* Facts about the constants and the data.                                 *)

\* A block names its piece and its place in it.
LEMMA SlotFacts ==
  /\ \A r \in Slots : /\ r[1] \in Pieces /\ r[2] \in BlocksOf[r[1]] /\ r[2] \in Bits
                      /\ r = <<r[1], r[2]>>
  /\ \A i \in Pieces : \A b \in BlocksOf[i] : <<i, b>> \in Slots /\ b \in Bits
BY PiecesAssumption DEF Slots, Bits

\* nil is none of the things it stands in for.
LEMMA NoneFacts ==
  None \notin Objects /\ None \notin Slots /\ None \notin Pieces /\ None \notin Peers
BY NoneAssumption

\* The goroutines' idle states have their types.
LEMMA IdleTypes == RunIdle \in RunType /\ TickIdle \in TickType
BY DEF RunIdle, RunType, RunPCs, TickIdle, TickType

\* What the goroutines point to is of the piece they work on.
MapRefs ==
  \A i \in Pieces : requests[i] # None =>
    requests[i] \in Objects /\ cached[requests[i]].index = i

RunRefs ==
  \A p \in Peers :
    /\ run[p].pc \notin {"idle", "cancel"} => run[p].req \in Slots
    /\ run[p].pc \in {"write", "put", "unset", "done", "uncancel"} =>
         run[p].obj \in Objects /\ cached[run[p].obj].index = run[p].req[1]
    /\ run[p].pc \in {"put", "unset", "uncancel"} => run[p].snap \in SUBSET Bits
    /\ run[p].pc \in {"have", "havenot"} => run[p].snap \in SUBSET Pieces

TickRefs ==
  /\ tick.pc \notin {"idle", "expire", "cancel", "download"} => tick.peer \in Peers
  /\ tick.pc \in {"cancel", "visit", "loadlast", "load", "store", "queue"} =>
       tick.idx \in Pieces
  /\ tick.pc \in {"cancel", "loadlast", "load", "store"} =>
       tick.obj \in Objects /\ cached[tick.obj].index = tick.idx
  /\ tick.pc = "last" => lastRequest[tick.peer] \in Slots
  /\ tick.pc \in {"store", "queue"} => tick.block \in BlocksOf[tick.idx]

Typed == TypeOK /\ MapRefs /\ RunRefs /\ TickRefs

\* The collector leaves the objects somebody can reach alone.
LEMMA SweepFacts ==
  ASSUME NEW heap \in HeapType, NEW live
  PROVE  /\ Sweep(heap, live) \in HeapType
         /\ \A o \in Objects : o \in live => Sweep(heap, live)[o] = heap[o]
         /\ \A o \in Objects : Sweep(heap, live)[o] = heap[o] \/ Sweep(heap, live)[o] = Freed
BY DEF Sweep, HeapType, Freed, Fresh

\* visitCached finds an object of the piece, and a new one is nobody else's.
LEMMA VisitFacts ==
  ASSUME TypeOK, MapRefs, NEW i \in Pieces, CanVisit(i)
  PROVE  /\ Found(i) \in Objects
         /\ Visited(i) \in HeapType
         /\ Visited(i)[Found(i)].index = i
         /\ \A o \in Objects \cap Reach(requests, run, tick) : Visited(i)[o] = cached[o]
         /\ \A o \in Objects : Visited(i)[o] = cached[o] \/ Visited(i)[o] = Fresh(i)
<1>1. CASE requests[i] # None
  BY <1>1 DEF TypeOK, MapRefs, Found, Visited
<1>2. CASE requests[i] = None
  <2>1. Spare \in Objects /\ Spare \notin Reach(requests, run, tick)
    BY <1>2 DEF CanVisit, Spare
  <2>2. Fresh(i) \in [index : Pieces \union {None}, pending : SUBSET Bits,
                      obtained : SUBSET Bits, old : BOOLEAN]
    BY DEF Fresh
  <2>3. QED
    BY <1>2, <2>1, <2>2 DEF TypeOK, HeapType, Found, Visited, Fresh
<1>3. QED
  BY <1>1, <1>2

\* What a goroutine's record becomes when it goes on to other work.
LEMMA RunRecords ==
  ASSUME TypeOK
  PROVE  /\ \A todo \in SUBSET Slots :
              Cancelling(todo) \in RunType /\ Cancelling(todo).pc \in {"idle", "cancel"}
         /\ \A p \in Peers : run[p].req \in Slots =>
              /\ Handled(p) \in RunType
              /\ Handled(p).pc \in {"idle", "visit"}
              /\ Handled(p).pc = "visit" => Handled(p).req = run[p].req
<1>1. ASSUME NEW todo \in SUBSET Slots
      PROVE  Cancelling(todo) \in RunType /\ Cancelling(todo).pc \in {"idle", "cancel"}
  <2>1. CASE todo = {}
    BY <2>1, IdleTypes DEF Cancelling, RunIdle
  <2>2. CASE todo # {}
    <3>1. Cancelling(todo) = [RunIdle EXCEPT !.pc = "cancel", !.todo = todo]
      BY <2>2 DEF Cancelling
    <3>2. QED
      BY <3>1, IdleTypes DEF RunType, RunPCs
  <2>3. QED
    BY <2>1, <2>2
<1>2. ASSUME NEW p \in Peers, run[p].req \in Slots
      PROVE  /\ Handled(p) \in RunType
             /\ Handled(p).pc \in {"idle", "visit"}
             /\ Handled(p).pc = "visit" => Handled(p).req = run[p].req
  <2>1. CASE run[p].left <= 1
    BY <2>1, IdleTypes DEF Handled, RunIdle
  <2>2. CASE ~(run[p].left <= 1)
    <3>1. Handled(p) = [RunIdle EXCEPT !.pc = "visit", !.req = run[p].req,
                                       !.good = run[p].good, !.left = run[p].left - 1]
      BY <2>2 DEF Handled
    <3>2. run[p].left \in Nat /\ run[p].good \in BOOLEAN
      BY DEF TypeOK, RunType
    <3>3. run[p].left - 1 \in Nat
      BY <2>2, <3>2
    <3>4. QED
      BY <1>2, <3>1, <3>2, <3>3, IdleTypes DEF RunType, RunPCs
  <2>3. QED
    BY <2>1, <2>2
<1>3. QED
  BY <1>1, <1>2

\* Writing the blocks or the age of a cached piece leaves its index as it was.
LEMMA HeapUpdates ==
  ASSUME TypeOK, NEW o \in Objects, NEW S \in SUBSET Bits
  PROVE  /\ [cached EXCEPT ![o].pending = S, ![o].old = FALSE] \in HeapType
         /\ [cached EXCEPT ![o].pending = S] \in HeapType
         /\ [cached EXCEPT ![o].obtained = S] \in HeapType
         /\ \A u \in Objects :
              /\ [cached EXCEPT ![o].pending = S, ![o].old = FALSE][u].index = cached[u].index
              /\ [cached EXCEPT ![o].pending = S][u].index = cached[u].index
              /\ [cached EXCEPT ![o].obtained = S][u].index = cached[u].index
<1>1. cached \in HeapType
  BY DEF TypeOK
<1>2. [cached EXCEPT ![o].pending = S] \in HeapType
  BY <1>1 DEF HeapType
<1>3. [cached EXCEPT ![o].obtained = S] \in HeapType
  BY <1>1 DEF HeapType
<1>4. [cached EXCEPT ![o].pending = S, ![o].old = FALSE] \in HeapType
  BY <1>1 DEF HeapType
<1>5. ASSUME NEW u \in Objects
      PROVE /\ [cached EXCEPT ![o].pending = S, ![o].old = FALSE][u].index = cached[u].index
            /\ [cached EXCEPT ![o].pending = S][u].index = cached[u].index
            /\ [cached EXCEPT ![o].obtained = S][u].index = cached[u].index
  BY <1>1 DEF HeapType
<1>6. QED
  BY <1>2, <1>3, <1>4, <1>5
\* Neither does the age of one.
LEMMA HeapAge ==
  ASSUME NEW heap \in HeapType, NEW o \in Objects, NEW b \in BOOLEAN
  PROVE  /\ [heap EXCEPT ![o].old = b] \in HeapType
         /\ \A u \in Objects : [heap EXCEPT ![o].old = b][u].index = heap[u].index
<1>1. [heap EXCEPT ![o].old = b] \in HeapType
  BY DEF HeapType
<1>2. ASSUME NEW u \in Objects PROVE [heap EXCEPT ![o].old = b][u].index = heap[u].index
  BY DEF HeapType
<1>3. QED
  BY <1>1, <1>2
-----------------------------------------------------------------------------
(* Types and references are kept by every action.                         *)

\* A new torrent: nothing is cached and nobody points anywhere.
THEOREM TypedInit == Init => Typed
<1>1. SUFFICES ASSUME Init PROVE Typed
  OBVIOUS
<1>2. TypeOK
  <2>1. requests \in [Pieces -> Objects \union {None}] /\ bf \in SUBSET Pieces
        /\ disk \in [Slots -> {"empty", "good", "bad"}] /\ open \in [Peers -> BOOLEAN]
        /\ choked \in [Peers -> BOOLEAN] /\ outq \in [Peers -> SUBSET Slots]
        /\ wire \in [Peers -> SUBSET Slots] /\ lastRequest \in [Peers -> Slots \union {None}]
    BY <1>1 DEF Init
  <2>2. interested \in [Peers -> BOOLEAN]
    BY <1>1 DEF Init, Wanted
  <2>3. downloading \in [Peers -> [Slots -> Nat]]
    BY <1>1 DEF Init, NoRequests
  <2>4. run \in [Peers -> RunType] /\ tick \in TickType
    BY <1>1, IdleTypes DEF Init
  <2>5. cached \in HeapType
    BY <1>1 DEF Init, HeapType, Freed, Fresh
  <2>6. faults \in 0..MaxFaults
    BY <1>1, BoundsAssumption DEF Init
  <2>7. QED
    BY <2>1, <2>2, <2>3, <2>4, <2>5, <2>6 DEF TypeOK
<1>3. MapRefs /\ RunRefs /\ TickRefs
  BY <1>1 DEF Init, MapRefs, RunRefs, TickRefs, RunIdle, TickIdle
<1>4. QED
  BY <1>2, <1>3 DEF Typed

\* A PIECE message starts the handling of a block that was asked for.
LEMMA TypedReceivePiece ==
  ASSUME Typed, NEW p \in Peers, NEW r \in wire[p], ReceivePiece(p, r)
  PROVE  Typed'
<1> USE DEF Typed
<1>0. r \in Slots
  BY DEF TypeOK
<1>1. PICK good \in BOOLEAN :
       run' = IF r \notin Listed(p) THEN run
              ELSE [run EXCEPT ![p] = [RunIdle EXCEPT !.pc = "visit", !.req = r,
                                                      !.good = good,
                                                      !.left = downloading[p][r]]]
  BY DEF ReceivePiece
<1>2. DEFINE x == [RunIdle EXCEPT !.pc = "visit", !.req = r, !.good = good,
                                                      !.left = downloading[p][r]]
<1>3. x \in RunType /\ x.pc = "visit" /\ x.req = r
  <2>1. downloading[p][r] \in Nat
    BY <1>0 DEF TypeOK
  <2>2. QED
    BY <1>0, <2>1, IdleTypes DEF RunType, RunPCs
<1> HIDE DEF x
<1>4. TypeOK'
  <2>1. run' \in [Peers -> RunType]
    BY <1>1, <1>3 DEF TypeOK, x
  <2>2. downloading' \in [Peers -> [Slots -> Nat]] /\ wire' \in [Peers -> SUBSET Slots]
    BY DEF ReceivePiece, TypeOK
  <2>3. QED
    BY <2>1, <2>2 DEF ReceivePiece, TypeOK
<1>5. MapRefs' /\ TickRefs'
  BY DEF ReceivePiece, MapRefs, TickRefs
<1>6. RunRefs'
  <2>1. run' = run \/ run' = [run EXCEPT ![p] = x]
    BY <1>1 DEF x
  <2>2. QED
   BY <2>1, <1>0, <1>3 DEF ReceivePiece, RunRefs, TypeOK
<1>7. QED
  BY <1>4, <1>5, <1>6

\* A choke starts the cancelling of all the blocks listed.
LEMMA TypedReceiveChoke ==
  ASSUME Typed, NEW p \in Peers, ReceiveChoke(p)
  PROVE  Typed'
<1> USE DEF Typed
<1>1. Cancelling(Listed(p)) \in RunType /\ Cancelling(Listed(p)).pc \in {"idle", "cancel"}
  BY RunRecords DEF Listed
<1>2. TypeOK'
  <2>1. downloading' \in [Peers -> [Slots -> Nat]]
    BY DEF ReceiveChoke, TypeOK, NoRequests
  <2>2. wire' \in [Peers -> SUBSET Slots] /\ faults' \in 0..MaxFaults
    BY BoundsAssumption DEF ReceiveChoke, TypeOK
  <2>3. QED
    BY <1>1, <2>1, <2>2 DEF ReceiveChoke, TypeOK
<1>3. MapRefs' /\ TickRefs'
  BY DEF ReceiveChoke, MapRefs, TickRefs
<1>4. RunRefs'
  BY <1>1 DEF ReceiveChoke, RunRefs, TypeOK
<1>5. QED
  BY <1>2, <1>3, <1>4

\* An unchoke only changes what the tick loop will ask.
LEMMA TypedReceiveUnchoke ==
  ASSUME Typed, NEW p \in Peers, ReceiveUnchoke(p)
  PROVE  Typed'
<1> USE DEF Typed
<1>1. TypeOK'
  BY DEF ReceiveUnchoke, TypeOK, Wanted
<1>2. MapRefs' /\ RunRefs' /\ TickRefs'
  BY DEF ReceiveUnchoke, MapRefs, RunRefs, TickRefs
<1>3. QED
  BY <1>1, <1>2

\* A queued request is written, or starts the cancelling of its block.
LEMMA TypedWriteRequest ==
  ASSUME Typed, NEW p \in Peers, NEW r \in outq[p], WriteRequest(p, r)
  PROVE  Typed'
<1> USE DEF Typed
<1>1. LET todo == Listed(p) \cap {r} IN
        Cancelling(todo) \in RunType /\ Cancelling(todo).pc \in {"idle", "cancel"}
  BY RunRecords DEF Listed
<1>2. r \in Slots
  BY DEF TypeOK
<1>3. TypeOK'
  <2>1. outq' \in [Peers -> SUBSET Slots] /\ wire' \in [Peers -> SUBSET Slots]
    BY <1>2 DEF WriteRequest, TypeOK
  <2>2. downloading' \in [Peers -> [Slots -> Nat]]
    BY <1>2 DEF WriteRequest, TypeOK
  <2>3. run' \in [Peers -> RunType]
    BY <1>1 DEF WriteRequest, TypeOK
  <2>4. QED
    BY <2>1, <2>2, <2>3 DEF WriteRequest, TypeOK
<1>4. MapRefs' /\ TickRefs'
  BY DEF WriteRequest, MapRefs, TickRefs
<1>5. RunRefs'
  BY <1>1 DEF WriteRequest, RunRefs, TypeOK
<1>6. QED
  BY <1>3, <1>4, <1>5

\* A close starts the cancelling of all the blocks listed.
LEMMA TypedDoClose ==
  ASSUME Typed, NEW p \in Peers, doClose(p)
  PROVE  Typed'
<1> USE DEF Typed
<1>1. Cancelling(Listed(p)) \in RunType /\ Cancelling(Listed(p)).pc \in {"idle", "cancel"}
  BY RunRecords DEF Listed
<1>2. TypeOK'
  <2>1. downloading' \in [Peers -> [Slots -> Nat]]
    BY DEF doClose, TypeOK, NoRequests
  <2>2. faults' \in 0..MaxFaults
    BY BoundsAssumption DEF doClose, TypeOK
  <2>3. QED
    BY <1>1, <2>1, <2>2 DEF doClose, TypeOK
<1>3. MapRefs' /\ TickRefs'
  BY DEF doClose, MapRefs, TickRefs
<1>4. RunRefs'
  BY <1>1 DEF doClose, RunRefs, TypeOK
<1>5. QED
  BY <1>2, <1>3, <1>4

\* The map and the tick goroutine keep their objects when visitCached(i) runs.
LEMMA VisitRefs ==
  ASSUME Typed, NEW i \in Pieces, visitCached(i),
         \A o \in Objects : cached'[o].index = Visited(i)[o].index
  PROVE  /\ requests' \in [Pieces -> Objects \union {None}]
         /\ MapRefs'
         /\ cached'[Found(i)].index = i
         /\ \A p \in Peers : run[p].obj \in Objects =>
              cached'[run[p].obj].index = cached[run[p].obj].index
         /\ tick.obj \in Objects => cached'[tick.obj].index = cached[tick.obj].index
<1> USE DEF Typed
<1>1. /\ Found(i) \in Objects
      /\ Visited(i)[Found(i)].index = i
      /\ \A o \in Objects \cap Reach(requests, run, tick) : Visited(i)[o] = cached[o]
  BY VisitFacts DEF visitCached
<1>2. requests' = [requests EXCEPT ![i] = Found(i)]
  BY DEF visitCached
<1>3. requests' \in [Pieces -> Objects \union {None}]
  BY <1>1, <1>2 DEF TypeOK
<1>4. MapRefs'
  BY <1>1, <1>2 DEF MapRefs, TypeOK, Reach
<1>5. \A p \in Peers : run[p].obj \in Objects =>
        cached'[run[p].obj].index = cached[run[p].obj].index
  BY <1>1 DEF Reach
<1>6. tick.obj \in Objects => cached'[tick.obj].index = cached[tick.obj].index
  BY <1>1 DEF Reach
<1>7. QED
  BY <1>1, <1>3, <1>4, <1>5, <1>6

\* Collecting the garbage leaves what is pointed to alone.
LEMMA SweepRefs ==
  ASSUME TypeOK, NEW heap \in HeapType,
         \A o \in Objects : heap[o].index = cached[o].index,
         cached' = Sweep(heap, Reach(requests', run', tick'))
  PROVE  /\ cached' \in HeapType
         /\ \A i \in Pieces : requests'[i] \in Objects =>
              cached'[requests'[i]].index = cached[requests'[i]].index
         /\ \A p \in Peers : run'[p].obj \in Objects =>
              cached'[run'[p].obj].index = cached[run'[p].obj].index
         /\ tick'.obj \in Objects => cached'[tick'.obj].index = cached[tick'.obj].index
<1>1. /\ cached' \in HeapType
      /\ \A o \in Objects : o \in Reach(requests', run', tick') => cached'[o] = heap[o]
  BY SweepFacts
<1>2. \A i \in Pieces : requests'[i] \in Reach(requests', run', tick')
  BY DEF Reach
<1>3. \A p \in Peers : run'[p].obj \in Reach(requests', run', tick')
  BY DEF Reach
<1>4. tick'.obj \in Reach(requests', run', tick')
  BY DEF Reach
<1>5. QED
  BY <1>1, <1>2, <1>3, <1>4

\* Going on elsewhere in a run loop changes the place and what was read.
LEMMA AtFacts ==
  ASSUME NEW x \in RunType, NEW c \in RunPCs, NEW S \in SUBSET (Bits \union Pieces)
  PROVE  /\ At(x, c, S) \in RunType
         /\ At(x, c, S).pc = c /\ At(x, c, S).snap = S
         /\ At(x, c, S).req = x.req /\ At(x, c, S).obj = x.obj
         /\ At(x, c, S).good = x.good /\ At(x, c, S).left = x.left
BY DEF At, RunType

\* canceledRequest gets a cached piece of the request's index.
LEMMA TypedCancelLoad ==
  ASSUME Typed, NEW p \in Peers, CancelLoad(p)
  PROVE  Typed'
<1> USE DEF Typed
<1>1. PICK r \in run[p].todo :
        /\ visitCached(r[1])
        /\ run' = [run EXCEPT ![p] = [@ EXCEPT !.pc = "uncancel", !.req = r, !.obj = Found(r[1]),
                               !.snap = Visited(r[1])[Found(r[1])].pending]]
        /\ cached' = Visited(r[1])
  BY DEF CancelLoad
<1>2. r \in Slots /\ r[1] \in Pieces
  BY SlotFacts DEF TypeOK, RunType
<1>3. /\ Found(r[1]) \in Objects
      /\ cached' \in HeapType
      /\ Visited(r[1])[Found(r[1])].pending \in SUBSET Bits
  <2>1. Found(r[1]) \in Objects /\ Visited(r[1]) \in HeapType
    BY <1>1, <1>2, VisitFacts DEF visitCached
  <2>2. QED
    BY <1>1, <2>1 DEF HeapType
<1> DEFINE S == Visited(r[1])[Found(r[1])].pending
           x == [run[p] EXCEPT !.pc = "uncancel", !.req = r, !.obj = Found(r[1]), !.snap = S]
<1>a. /\ x \in RunType
      /\ x.req = r /\ x.obj = Found(r[1]) /\ x.pc = "uncancel" /\ x.snap = S
  <2>1. run[p] \in RunType /\ S \in SUBSET (Bits \union Pieces)
    BY <1>3 DEF TypeOK
  <2> HIDE DEF S
  <2>2. QED
    BY <1>2, <1>3, <2>1 DEF RunType, RunPCs
<1>b. run' = [run EXCEPT ![p] = x]
  BY <1>1
<1> HIDE DEF x
<1>4. /\ run' \in [Peers -> RunType]
      /\ run'[p].req = r /\ run'[p].obj = Found(r[1]) /\ run'[p].pc = "uncancel"
      /\ run'[p].snap \in SUBSET Bits
      /\ \A q \in Peers : q # p => run'[q] = run[q]
  BY <1>3, <1>a, <1>b DEF TypeOK
<1>5. /\ requests' \in [Pieces -> Objects \union {None}]
      /\ MapRefs'
      /\ cached'[Found(r[1])].index = r[1]
      /\ \A q \in Peers : run[q].obj \in Objects =>
           cached'[run[q].obj].index = cached[run[q].obj].index
      /\ tick.obj \in Objects => cached'[tick.obj].index = cached[tick.obj].index
  BY <1>1, <1>2, VisitRefs
<1>6. TypeOK'
  BY <1>3, <1>4, <1>5 DEF CancelLoad, TypeOK, connVars
<1>7. RunRefs'
  BY <1>2, <1>3, <1>4, <1>5 DEF RunRefs
<1>8. TickRefs'
  BY <1>5 DEF CancelLoad, TickRefs, connVars
<1>9. QED
  BY <1>5, <1>6, <1>7, <1>8

\* The pending blocks stored are blocks; the collector spares the rest.
LEMMA TypedCancelStore ==
  ASSUME Typed, NEW p \in Peers, CancelStore(p)
  PROVE  Typed'
<1> USE DEF Typed
<1> DEFINE o == run[p].obj
           S == run[p].snap \ {run[p].req[2]}
           heap == [cached EXCEPT ![o].pending = S, ![o].old = FALSE]
           x == Cancelling(run[p].todo \ {run[p].req})
<1>1. o \in Objects
  BY DEF CancelStore, RunRefs
<1>2. S \in SUBSET Bits
  BY DEF CancelStore, RunRefs
<1>3. /\ heap \in HeapType
      /\ \A u \in Objects : heap[u].index = cached[u].index
  BY <1>1, <1>2, HeapUpdates
<1>4. x \in RunType /\ x.pc \in {"idle", "cancel"}
  BY RunRecords DEF TypeOK, RunType
<1>5. run' = [run EXCEPT ![p] = x] /\ cached' = Sweep(heap, Reach(requests', run', tick'))
  BY DEF CancelStore
<1> HIDE DEF heap, x
<1>6. /\ cached' \in HeapType
      /\ \A i \in Pieces : requests'[i] \in Objects =>
           cached'[requests'[i]].index = cached[requests'[i]].index
      /\ \A q \in Peers : run'[q].obj \in Objects =>
           cached'[run'[q].obj].index = cached[run'[q].obj].index
      /\ tick'.obj \in Objects => cached'[tick'.obj].index = cached[tick'.obj].index
  BY <1>3, <1>5, SweepRefs
<1>7. TypeOK'
  BY <1>4, <1>5, <1>6 DEF CancelStore, TypeOK, connVars
<1>8. MapRefs' /\ TickRefs'
  BY <1>6 DEF CancelStore, MapRefs, TickRefs, connVars
<1>9. RunRefs'
  BY <1>4, <1>5, <1>6 DEF RunRefs, TypeOK
<1>10. QED
  BY <1>7, <1>8, <1>9

\* handlePieceData gets a cached piece of the block's index.
LEMMA TypedVisitData ==
  ASSUME Typed, NEW p \in Peers, VisitData(p)
  PROVE  Typed'
<1> USE DEF Typed
<1> DEFINE i == run[p].req[1]
<1>1. /\ visitCached(i) /\ cached' = Visited(i) /\ run[p].pc = "visit"
      /\ run' = [run EXCEPT ![p] = [@ EXCEPT !.pc = "write", !.obj = Found(i)]]
  BY DEF VisitData
<1>2. run[p].req \in Slots /\ i \in Pieces
  BY <1>1, SlotFacts DEF RunRefs
<1>3. Found(i) \in Objects /\ cached' \in HeapType
  BY <1>1, <1>2, VisitFacts DEF visitCached
<1> DEFINE x == [run[p] EXCEPT !.pc = "write", !.obj = Found(i)]
<1>a. x \in RunType /\ x.req = run[p].req /\ x.obj = Found(i) /\ x.pc = "write"
  <2>1. run[p] \in RunType
    BY DEF TypeOK
  <2>2. QED
    BY <1>3, <2>1 DEF RunType, RunPCs
<1>b. run' = [run EXCEPT ![p] = x]
  BY <1>1
<1> HIDE DEF x
<1>4. /\ run' \in [Peers -> RunType]
      /\ run'[p].req = run[p].req /\ run'[p].obj = Found(i) /\ run'[p].pc = "write"
      /\ \A q \in Peers : q # p => run'[q] = run[q]
  BY <1>a, <1>b DEF TypeOK
<1>5. /\ requests' \in [Pieces -> Objects \union {None}]
      /\ MapRefs'
      /\ cached'[Found(i)].index = i
      /\ \A q \in Peers : run[q].obj \in Objects =>
           cached'[run[q].obj].index = cached[run[q].obj].index
      /\ tick.obj \in Objects => cached'[tick.obj].index = cached[tick.obj].index
  BY <1>1, <1>2, VisitRefs
<1>6. TypeOK'
  BY <1>3, <1>4, <1>5 DEF VisitData, TypeOK, connVars
<1>7. RunRefs'
  BY <1>2, <1>3, <1>4, <1>5 DEF RunRefs
<1>8. TickRefs'
  BY <1>5 DEF VisitData, TickRefs, connVars
<1>9. QED
  BY <1>5, <1>6, <1>7, <1>8

\* What put reads from the cached piece is a set of blocks.
LEMMA TypedPutChunk ==
  ASSUME Typed, NEW p \in Peers, PutChunk(p)
  PROVE  Typed'
<1> USE DEF Typed
<1>1. /\ run[p].pc = "write" /\ run[p].req \in Slots /\ run[p].obj \in Objects
      /\ cached[run[p].obj].index = run[p].req[1]
  BY DEF PutChunk, RunRefs
<1>2. cached[run[p].obj].obtained \in SUBSET Bits
  BY <1>1 DEF TypeOK, HeapType
<1>3. /\ run' \in [Peers -> RunType]
      /\ run'[p].req = run[p].req /\ run'[p].obj = run[p].obj /\ run'[p].pc = "put"
      /\ run'[p].snap = cached[run[p].obj].obtained
      /\ \A q \in Peers : q # p => run'[q] = run[q]
  <2>1. run' = [run EXCEPT ![p] = At(run[p], "put", cached[run[p].obj].obtained)]
    BY DEF PutChunk
  <2>2. QED
    BY <1>2, <2>1, AtFacts DEF TypeOK, RunPCs
<1>4. TypeOK'
  <2>1. disk' \in [Slots -> {"empty", "good", "bad"}]
    BY DEF PutChunk, TypeOK
  <2>2. QED
    BY <1>3, <2>1 DEF PutChunk, TypeOK, connVars
<1>5. MapRefs' /\ TickRefs'
  BY DEF PutChunk, MapRefs, TickRefs, connVars
<1>6. RunRefs'
  BY <1>1, <1>2, <1>3 DEF PutChunk, RunRefs
<1>7. QED
  BY <1>4, <1>5, <1>6

\* What cancel reads from the cached piece is a set of blocks.
LEMMA TypedPutChunkFails ==
  ASSUME Typed, NEW p \in Peers, PutChunkFails(p)
  PROVE  Typed'
<1> USE DEF Typed
<1>1. /\ run[p].pc = "write" /\ run[p].req \in Slots /\ run[p].obj \in Objects
      /\ cached[run[p].obj].index = run[p].req[1]
  BY DEF PutChunkFails, RunRefs
<1>2. cached[run[p].obj].pending \in SUBSET Bits
  BY <1>1 DEF TypeOK, HeapType
<1>3. /\ run' \in [Peers -> RunType]
      /\ run'[p].req = run[p].req /\ run'[p].obj = run[p].obj /\ run'[p].pc = "unset"
      /\ run'[p].snap = cached[run[p].obj].pending
      /\ \A q \in Peers : q # p => run'[q] = run[q]
  <2>1. run' = [run EXCEPT ![p] = At(run[p], "unset", cached[run[p].obj].pending)]
    BY DEF PutChunkFails
  <2>2. QED
    BY <1>2, <2>1, AtFacts DEF TypeOK, RunPCs
<1>4. TypeOK'
  <2>1. faults' \in 0..MaxFaults
    BY BoundsAssumption DEF PutChunkFails, TypeOK
  <2>2. QED
    BY <1>3, <2>1 DEF PutChunkFails, TypeOK, connVars
<1>5. MapRefs' /\ TickRefs'
  BY DEF PutChunkFails, MapRefs, TickRefs, connVars
<1>6. RunRefs'
  BY <1>1, <1>2, <1>3 DEF PutChunkFails, RunRefs
<1>7. QED
  BY <1>4, <1>5, <1>6

\* put stores blocks in obtained.
LEMMA TypedSetObtained ==
  ASSUME Typed, NEW p \in Peers, SetObtained(p)
  PROVE  Typed'
<1> USE DEF Typed
<1> DEFINE o == run[p].obj
           S == run[p].snap \union {run[p].req[2]}
<1>1. /\ run[p].pc = "put" /\ run[p].req \in Slots /\ o \in Objects
      /\ cached[o].index = run[p].req[1] /\ S \in SUBSET Bits
  BY SlotFacts DEF SetObtained, RunRefs
<1>2. cached' \in HeapType /\ \A u \in Objects : cached'[u].index = cached[u].index
  <2>1. cached' = [cached EXCEPT ![o].obtained = S]
    BY DEF SetObtained
  <2> HIDE DEF S
  <2>2. QED
    BY <1>1, <2>1, HeapUpdates
<1>3. cached[o].pending \in SUBSET Bits
  BY <1>1 DEF TypeOK, HeapType
<1>4. /\ run' \in [Peers -> RunType]
      /\ run'[p].req = run[p].req /\ run'[p].obj = o /\ run'[p].pc = "unset"
      /\ run'[p].snap \in SUBSET Bits
      /\ \A q \in Peers : q # p => run'[q] = run[q]
  <2>1. run' = [run EXCEPT ![p] = At(run[p], "unset", cached[o].pending)]
    BY DEF SetObtained
  <2>2. QED
    BY <1>3, <2>1, AtFacts DEF TypeOK, RunPCs
<1>5. TypeOK'
  BY <1>2, <1>4 DEF SetObtained, TypeOK, connVars
<1>6. MapRefs' /\ TickRefs'
  BY <1>2 DEF SetObtained, MapRefs, TickRefs, connVars
<1>7. RunRefs'
  BY <1>1, <1>2, <1>4 DEF RunRefs
<1>8. QED
  BY <1>5, <1>6, <1>7

\* put and cancel store blocks in pending.
LEMMA TypedUnsetPending ==
  ASSUME Typed, NEW p \in Peers, UnsetPending(p)
  PROVE  Typed'
<1> USE DEF Typed
<1> DEFINE o == run[p].obj
           S == run[p].snap \ {run[p].req[2]}
<1>1. /\ run[p].pc = "unset" /\ run[p].req \in Slots /\ o \in Objects
      /\ cached[o].index = run[p].req[1] /\ S \in SUBSET Bits
  BY DEF UnsetPending, RunRefs
<1>2. cached' \in HeapType /\ \A u \in Objects : cached'[u].index = cached[u].index
  <2>1. cached' = [cached EXCEPT ![o].pending = S, ![o].old = FALSE]
    BY DEF UnsetPending
  <2> HIDE DEF S
  <2>2. QED
    BY <1>1, <2>1, HeapUpdates
<1>3. /\ run' \in [Peers -> RunType]
      /\ run'[p].req = run[p].req /\ run'[p].obj = o /\ run'[p].pc = "done"
      /\ \A q \in Peers : q # p => run'[q] = run[q]
  <2>1. run' = [run EXCEPT ![p] = At(run[p], "done", {})]
    BY DEF UnsetPending
  <2>2. QED
    BY <2>1, AtFacts DEF TypeOK, RunPCs
<1>4. TypeOK'
  BY <1>2, <1>3 DEF UnsetPending, TypeOK, connVars
<1>5. MapRefs' /\ TickRefs'
  BY <1>2 DEF UnsetPending, MapRefs, TickRefs, connVars
<1>6. RunRefs'
  BY <1>1, <1>2, <1>3 DEF RunRefs
<1>7. QED
  BY <1>4, <1>5, <1>6

\* A piece not complete is left to the collector; nobody else's is.
LEMMA TypedCheckDone ==
  ASSUME Typed, NEW p \in Peers, CheckDone(p)
  PROVE  Typed'
<1> USE DEF Typed
<1>1. /\ run[p].pc = "done" /\ run[p].req \in Slots /\ run[p].obj \in Objects
      /\ cached[run[p].obj].index = run[p].req[1]
  BY DEF CheckDone, RunRefs
<1>2. CASE run' = [run EXCEPT ![p] = At(run[p], "verify", {})] /\ UNCHANGED cached
  <2>1. /\ run' \in [Peers -> RunType]
        /\ run'[p].req = run[p].req /\ run'[p].pc = "verify"
        /\ \A q \in Peers : q # p => run'[q] = run[q]
    BY <1>2, AtFacts DEF TypeOK, RunPCs
  <2>2. TypeOK'
    BY <1>2, <2>1 DEF CheckDone, TypeOK, connVars
  <2>3. MapRefs' /\ TickRefs'
    BY <1>2 DEF CheckDone, MapRefs, TickRefs, connVars
  <2>4. RunRefs'
    BY <1>1, <1>2, <2>1 DEF RunRefs
  <2>5. QED
    BY <2>2, <2>3, <2>4
<1>3. CASE /\ run' = [run EXCEPT ![p] = Handled(p)]
           /\ cached' = Sweep(cached, Reach(requests, run', tick))
  <2>1. /\ Handled(p) \in RunType /\ Handled(p).pc \in {"idle", "visit"}
        /\ Handled(p).pc = "visit" => Handled(p).req = run[p].req
    BY <1>1, RunRecords
  <2>2. /\ cached' \in HeapType
        /\ \A i \in Pieces : requests'[i] \in Objects =>
             cached'[requests'[i]].index = cached[requests'[i]].index
        /\ \A q \in Peers : run'[q].obj \in Objects =>
             cached'[run'[q].obj].index = cached[run'[q].obj].index
        /\ tick'.obj \in Objects => cached'[tick'.obj].index = cached[tick'.obj].index
    BY <1>3, SweepRefs DEF CheckDone, TypeOK
  <2>3. TypeOK'
    BY <1>3, <2>1, <2>2 DEF CheckDone, TypeOK, connVars
  <2>4. MapRefs' /\ TickRefs'
    BY <2>2 DEF CheckDone, MapRefs, TickRefs, connVars
  <2>5. RunRefs'
    BY <1>1, <1>3, <2>1, <2>2 DEF RunRefs, TypeOK
  <2>6. QED
    BY <2>3, <2>4, <2>5
<1>4. QED
  BY <1>2, <1>3 DEF CheckDone

\* The byte of the bitfield read is a set of pieces.
LEMMA TypedReadBack ==
  ASSUME Typed, NEW p \in Peers, ReadBack(p)
  PROVE  Typed'
<1> USE DEF Typed
<1> DEFINE c == IF GoodOnDisk(run[p].req[1]) THEN "have" ELSE "havenot"
<1>1. run[p].pc = "verify" /\ run[p].req \in Slots
  BY DEF ReadBack, RunRefs
<1>2. c \in {"have", "havenot"}
  OBVIOUS
<1>3. run' = [run EXCEPT ![p] = At(run[p], c, bf)]
  BY DEF ReadBack
<1> HIDE DEF c
<1>4. /\ run' \in [Peers -> RunType]
      /\ run'[p].req = run[p].req /\ run'[p].pc = c /\ run'[p].snap = bf
      /\ \A q \in Peers : q # p => run'[q] = run[q]
  BY <1>2, <1>3, AtFacts DEF TypeOK, RunPCs
<1>5. TypeOK'
  BY <1>4 DEF ReadBack, TypeOK, connVars
<1>6. MapRefs' /\ TickRefs'
  BY DEF ReadBack, MapRefs, TickRefs, connVars
<1>7. RunRefs'
  <2>1. bf \in SUBSET Pieces
    BY DEF TypeOK
  <2>2. UNCHANGED cached
    BY DEF ReadBack
  <2>3. QED
    BY <1>1, <1>2, <1>4, <2>1, <2>2 DEF RunRefs
<1>8. QED
  BY <1>5, <1>6, <1>7

\* A piece that can't be read back is dropped.
LEMMA TypedReadBackFails ==
  ASSUME Typed, NEW p \in Peers, ReadBackFails(p)
  PROVE  Typed'
<1> USE DEF Typed
<1>1. run[p].pc = "verify" /\ run[p].req \in Slots
  BY DEF ReadBackFails, RunRefs
<1>2. /\ run' \in [Peers -> RunType]
      /\ run'[p].req = run[p].req /\ run'[p].pc = "remove"
      /\ \A q \in Peers : q # p => run'[q] = run[q]
  <2>1. run' = [run EXCEPT ![p] = At(run[p], "remove", {})]
    BY DEF ReadBackFails
  <2>2. QED
    BY <2>1, AtFacts DEF TypeOK, RunPCs
<1>3. TypeOK'
  <2>1. faults' \in 0..MaxFaults
    BY BoundsAssumption DEF ReadBackFails, TypeOK
  <2>2. QED
    BY <1>2, <2>1 DEF ReadBackFails, TypeOK, connVars
<1>4. MapRefs' /\ TickRefs'
  BY DEF ReadBackFails, MapRefs, TickRefs, connVars
<1>5. RunRefs'
  BY <1>1, <1>2 DEF ReadBackFails, RunRefs
<1>6. QED
  BY <1>3, <1>4, <1>5

\* The byte of the bitfield stored is a set of pieces.
LEMMA TypedSetHave ==
  ASSUME Typed, NEW p \in Peers, SetHave(p)
  PROVE  Typed'
<1> USE DEF Typed
<1>1. run[p].pc \in {"have", "havenot"} /\ run[p].req \in Slots /\ run[p].snap \in SUBSET Pieces
  BY DEF SetHave, RunRefs
<1>2. bf' \in SUBSET Pieces
  BY <1>1, SlotFacts DEF SetHave
<1>3. PICK c \in {"broadcast", "remove"} : run' = [run EXCEPT ![p] = At(run[p], c, {})]
  BY DEF SetHave
<1>4. /\ run' \in [Peers -> RunType]
      /\ run'[p].req = run[p].req /\ run'[p].pc = c
      /\ \A q \in Peers : q # p => run'[q] = run[q]
  BY <1>3, AtFacts DEF TypeOK, RunPCs
<1>5. TypeOK'
  BY <1>2, <1>4 DEF SetHave, TypeOK, connVars
<1>6. MapRefs' /\ TickRefs'
  BY DEF SetHave, MapRefs, TickRefs, connVars
<1>7. RunRefs'
  BY <1>1, <1>3, <1>4 DEF SetHave, RunRefs
<1>8. QED
  BY <1>5, <1>6, <1>7

\* Every connection's interest is computed again.
LEMMA TypedBroadcastHave ==
  ASSUME Typed, NEW p \in Peers, BroadcastHave(p)
  PROVE  Typed'
<1> USE DEF Typed
<1>1. run[p].pc = "broadcast" /\ run[p].req \in Slots
  BY DEF BroadcastHave, RunRefs
<1>2. interested' \in [Peers -> BOOLEAN]
  BY DEF BroadcastHave, TypeOK, Wanted
<1>3. /\ run' \in [Peers -> RunType]
      /\ run'[p].req = run[p].req /\ run'[p].pc = "remove"
      /\ \A q \in Peers : q # p => run'[q] = run[q]
  <2>1. run' = [run EXCEPT ![p] = At(run[p], "remove", {})]
    BY DEF BroadcastHave
  <2>2. QED
    BY <2>1, AtFacts DEF TypeOK, RunPCs
<1>4. TypeOK'
  BY <1>2, <1>3 DEF BroadcastHave, TypeOK
<1>5. MapRefs' /\ TickRefs'
  BY DEF BroadcastHave, MapRefs, TickRefs
<1>6. RunRefs'
  BY <1>1, <1>3 DEF BroadcastHave, RunRefs
<1>7. QED
  BY <1>4, <1>5, <1>6

\* A piece leaves the map; whoever points to it still may.
LEMMA TypedRemovePiece ==
  ASSUME Typed, NEW p \in Peers, removePiece(p)
  PROVE  Typed'
<1> USE DEF Typed
<1>1. run[p].pc = "remove" /\ run[p].req \in Slots /\ run[p].req[1] \in Pieces
  BY SlotFacts DEF removePiece, RunRefs
<1>2. /\ run' = [run EXCEPT ![p] = Handled(p)]
      /\ requests' = [requests EXCEPT ![run[p].req[1]] = None]
      /\ cached' = Sweep(cached, Reach(requests', run', tick'))
  BY DEF removePiece
<1>3. /\ Handled(p) \in RunType /\ Handled(p).pc \in {"idle", "visit"}
      /\ Handled(p).pc = "visit" => Handled(p).req = run[p].req
  BY <1>1, RunRecords
<1>4. /\ cached' \in HeapType
      /\ \A i \in Pieces : requests'[i] \in Objects =>
           cached'[requests'[i]].index = cached[requests'[i]].index
      /\ \A q \in Peers : run'[q].obj \in Objects =>
           cached'[run'[q].obj].index = cached[run'[q].obj].index
      /\ tick'.obj \in Objects => cached'[tick'.obj].index = cached[tick'.obj].index
  BY <1>2, SweepRefs DEF TypeOK
<1>5. TypeOK'
  BY <1>2, <1>3, <1>4 DEF removePiece, TypeOK, connVars
<1>6. MapRefs'
  BY <1>1, <1>2, <1>4 DEF MapRefs, TypeOK
<1>7. TickRefs'
  BY <1>4 DEF removePiece, TickRefs, connVars
<1>8. RunRefs'
  <2>1. run'[p] = Handled(p) /\ \A q \in Peers : q # p => run'[q] = run[q]
    BY <1>2 DEF TypeOK
  <2>2. QED
    BY <1>1, <1>3, <1>4, <2>1 DEF RunRefs
<1>9. QED
  BY <1>5, <1>6, <1>7, <1>8

\* Between pieces and between connections the tick goroutine points to nothing.
LEMMA TickRecords ==
  ASSUME TypeOK
  PROVE  /\ NextPeer \in TickType /\ NextPeer.pc = "download"
         /\ \A S \in SUBSET Peers :
              LET t == [TickIdle EXCEPT !.pc = "download", !.peers = S] IN
                t \in TickType /\ t.pc = "download"
         /\ \A S \in SUBSET Pieces :
              LET t == [TickIdle EXCEPT !.pc = "expire", !.keys = S] IN
                t \in TickType /\ t.pc = "expire"
<1>1. tick.peers \ {tick.peer} \in SUBSET Peers
  BY DEF TypeOK, TickType
<1>2. NextPeer \in TickType /\ NextPeer.pc = "download"
  BY <1>1, IdleTypes DEF NextPeer, TickType
<1>3. \A S \in SUBSET Peers :
        LET t == [TickIdle EXCEPT !.pc = "download", !.peers = S] IN
          t \in TickType /\ t.pc = "download"
  BY IdleTypes DEF TickType
<1>4. \A S \in SUBSET Pieces :
        LET t == [TickIdle EXCEPT !.pc = "expire", !.keys = S] IN
          t \in TickType /\ t.pc = "expire"
  BY IdleTypes DEF TickType
<1>5. QED
  BY <1>2, <1>3, <1>4

\* A round begins at the expiry pass.
LEMMA TypedTickStart ==
  ASSUME Typed, TickStart
  PROVE  Typed'
<1> USE DEF Typed
<1> DEFINE t == [TickIdle EXCEPT !.pc = "expire",
                                 !.keys = {i \in Pieces : requests[i] # None}]
<1>1. t \in TickType /\ t.pc = "expire"
  BY TickRecords
<1>2. tick.pc = "idle" /\ (tick' = tick \/ tick' = t)
  BY DEF TickStart
<1> HIDE DEF t
<1>3. TypeOK'
  BY <1>1, <1>2 DEF TickStart, TypeOK, connVars
<1>4. MapRefs' /\ RunRefs'
  BY DEF TickStart, MapRefs, RunRefs
<1>5. TickRefs'
  BY <1>1, <1>2 DEF TickRefs
<1>6. QED
  BY <1>3, <1>4, <1>5

\* The expiry pass gets a cached piece of the index it looks at.
LEMMA TypedTickExpire ==
  ASSUME Typed, NEW i \in Pieces, TickExpire(i)
  PROVE  Typed'
<1> USE DEF Typed
<1> DEFINE o == Found(i)
           heap == Visited(i)
           expired == heap[o].old /\ heap[o].pending # {}
<1>1. visitCached(i) /\ tick.pc = "expire"
  BY DEF TickExpire
<1>2. o \in Objects /\ heap \in HeapType /\ heap[o].index = i
  BY <1>1, VisitFacts DEF visitCached
<1>3. cached' \in HeapType /\ \A u \in Objects : cached'[u].index = heap[u].index
  <2>1. cached' = heap \/ cached' = [heap EXCEPT ![o].old = FALSE]
    BY DEF TickExpire
  <2>2. FALSE \in BOOLEAN
    OBVIOUS
  <2>3. /\ [heap EXCEPT ![o].old = FALSE] \in HeapType
        /\ \A u \in Objects : [heap EXCEPT ![o].old = FALSE][u].index = heap[u].index
    BY <1>2, <2>2, HeapAge
  <2>4. QED
    BY <1>2, <2>1, <2>3
<1>4. /\ requests' \in [Pieces -> Objects \union {None}]
      /\ MapRefs'
      /\ cached'[o].index = i
      /\ \A p \in Peers : run[p].obj \in Objects =>
           cached'[run[p].obj].index = cached[run[p].obj].index
  BY <1>1, <1>3, VisitRefs
<1>5. \/ /\ tick' \in TickType /\ tick'.pc = "cancel" /\ tick'.obj = o /\ tick'.idx = i
      \/ /\ tick' \in TickType /\ tick'.pc = "expire"
  <2>1. \/ tick' = [tick EXCEPT !.pc = "cancel", !.keys = @ \ {i}, !.obj = o, !.idx = i,
                                !.peers = {p \in Peers : open[p]}]
        \/ tick' = [tick EXCEPT !.keys = @ \ {i}]
    BY DEF TickExpire
  <2>2. tick \in TickType /\ tick.keys \ {i} \in SUBSET Pieces
    BY DEF TypeOK, TickType
  <2>3. CASE tick' = [tick EXCEPT !.pc = "cancel", !.keys = @ \ {i}, !.obj = o, !.idx = i,
                                  !.peers = {p \in Peers : open[p]}]
    BY <1>2, <2>2, <2>3 DEF TickType
  <2>4. CASE tick' = [tick EXCEPT !.keys = @ \ {i}]
    BY <1>1, <2>2, <2>4 DEF TickType
  <2>5. QED
    BY <2>1, <2>3, <2>4
<1> HIDE DEF o, heap, expired
<1>6. TypeOK'
  BY <1>3, <1>4, <1>5 DEF TickExpire, TypeOK, connVars
<1>7. RunRefs'
  BY <1>4 DEF TickExpire, RunRefs
<1>8. TickRefs'
  BY <1>2, <1>4, <1>5 DEF TickRefs
<1>9. QED
  BY <1>4, <1>6, <1>7, <1>8

\* Cancelling a piece takes its requests off one connection.
LEMMA TypedTickCancelPiece ==
  ASSUME Typed, NEW p \in Peers, TickCancelPiece(p)
  PROVE  Typed'
<1> USE DEF Typed
<1>1. tick' \in TickType /\ tick'.pc = tick.pc /\ tick'.obj = tick.obj /\ tick'.idx = tick.idx
  <2>1. tick' = [tick EXCEPT !.peers = @ \ {p}] /\ tick.peers \ {p} \in SUBSET Peers
    BY DEF TickCancelPiece, TypeOK, TickType
  <2>2. tick \in TickType
    BY DEF TypeOK
  <2>3. QED
    BY <2>1, <2>2 DEF TickType
<1>2. downloading' \in [Peers -> [Slots -> Nat]]
  BY DEF TickCancelPiece, TypeOK
<1>3. wire' \in [Peers -> SUBSET Slots]
  BY DEF TickCancelPiece, TypeOK
<1>4. TypeOK'
  BY <1>1, <1>2, <1>3 DEF TickCancelPiece, TypeOK
<1>5. MapRefs' /\ RunRefs'
  BY DEF TickCancelPiece, MapRefs, RunRefs
<1>6. TickRefs'
  BY <1>1 DEF TickCancelPiece, TickRefs
<1>7. QED
  BY <1>4, <1>5, <1>6

\* Zeroing the pending blocks leaves the piece its index.
LEMMA TypedTickZero ==
  ASSUME Typed, TickZero
  PROVE  Typed'
<1> USE DEF Typed
<1> DEFINE heap == [cached EXCEPT ![tick.obj].pending = {}, ![tick.obj].old = FALSE]
<1>1. tick.obj \in Objects
  BY DEF TickZero, TickRefs
<1>2. heap \in HeapType /\ \A u \in Objects : heap[u].index = cached[u].index
  <2>1. {} \in SUBSET Bits
    OBVIOUS
  <2>2. QED
    BY <1>1, <2>1, HeapUpdates
<1>3. cached' = Sweep(heap, Reach(requests', run', tick'))
  BY DEF TickZero
<1> HIDE DEF heap
<1>4. /\ cached' \in HeapType
      /\ \A i \in Pieces : requests'[i] \in Objects =>
           cached'[requests'[i]].index = cached[requests'[i]].index
      /\ \A q \in Peers : run'[q].obj \in Objects =>
           cached'[run'[q].obj].index = cached[run'[q].obj].index
  BY <1>2, <1>3, SweepRefs
<1>5. tick' \in TickType /\ tick'.pc = "expire"
  <2>1. tick \in TickType /\ tick' = [tick EXCEPT !.pc = "expire", !.obj = None, !.idx = None]
    BY DEF TickZero, TypeOK
  <2>2. QED
    BY <2>1 DEF TickType
<1>6. TypeOK'
  BY <1>4, <1>5 DEF TickZero, TypeOK, connVars
<1>7. MapRefs' /\ RunRefs'
  BY <1>4 DEF TickZero, MapRefs, RunRefs
<1>8. TickRefs'
  BY <1>5 DEF TickRefs
<1>9. QED
  BY <1>6, <1>7, <1>8

\* The expiry pass gives way to the connections.
LEMMA TypedTickVisitPeers ==
  ASSUME Typed, TickVisitPeers
  PROVE  Typed'
<1> USE DEF Typed
<1>1. tick' \in TickType /\ tick'.pc = "download"
  BY TickRecords DEF TickVisitPeers
<1>2. TypeOK'
  BY <1>1 DEF TickVisitPeers, TypeOK, connVars
<1>3. MapRefs' /\ RunRefs'
  BY DEF TickVisitPeers, MapRefs, RunRefs
<1>4. TickRefs'
  BY <1>1 DEF TickRefs
<1>5. QED
  BY <1>2, <1>3, <1>4

\* A connection that may be asked for more is asked from its last piece on.
LEMMA TypedTickDownload ==
  ASSUME Typed, NEW p \in Peers, TickDownload(p)
  PROVE  Typed'
<1> USE DEF Typed
<1>1. /\ tick \in TickType /\ tick.pc = "download"
      /\ lastRequest[p] \in Slots \union {None}
  BY DEF TickDownload, TypeOK
<1>2. \/ tick' = [tick EXCEPT !.peers = @ \ {p}]
      \/ lastRequest[p] = None /\ tick' = [tick EXCEPT !.pc = "pick", !.peer = p]
      \/ lastRequest[p] # None /\ tick' = [tick EXCEPT !.pc = "last", !.peer = p]
  BY DEF TickDownload
<1>3. /\ tick' \in TickType
      /\ \/ tick'.pc = "download"
         \/ tick'.pc = "pick" /\ tick'.peer = p
         \/ tick'.pc = "last" /\ tick'.peer = p /\ lastRequest[p] # None
  <2>1. CASE tick' = [tick EXCEPT !.peers = @ \ {p}]
    <3>1. tick.peers \ {p} \in SUBSET Peers
      BY <1>1 DEF TickType
    <3>2. QED
      BY <1>1, <2>1, <3>1 DEF TickType
  <2>2. CASE tick' = [tick EXCEPT !.pc = "pick", !.peer = p]
    BY <1>1, <2>2 DEF TickType
  <2>3. CASE lastRequest[p] # None /\ tick' = [tick EXCEPT !.pc = "last", !.peer = p]
    BY <1>1, <2>3 DEF TickType
  <2>4. QED
    BY <1>2, <2>1, <2>2, <2>3
<1>4. TypeOK'
  BY <1>3 DEF TickDownload, TypeOK, connVars
<1>5. MapRefs' /\ RunRefs'
  BY DEF TickDownload, MapRefs, RunRefs
<1>6. TickRefs'
  BY <1>1, <1>3 DEF TickDownload, TickRefs, connVars
<1>7. QED
  BY <1>4, <1>5, <1>6

\* NextRequest gets a cached piece of the last request's index.
LEMMA TypedTickVisitLast ==
  ASSUME Typed, TickVisitLast
  PROVE  Typed'
<1> USE DEF Typed
<1> DEFINE i == lastRequest[tick.peer][1]
<1>1. /\ tick.pc = "last" /\ visitCached(i) /\ cached' = Visited(i)
      /\ tick' = [tick EXCEPT !.pc = "loadlast", !.obj = Found(i), !.idx = i]
  BY DEF TickVisitLast
<1>2. tick.peer \in Peers /\ i \in Pieces
  BY <1>1, SlotFacts DEF TickRefs
<1>3. Found(i) \in Objects /\ cached' \in HeapType
  BY <1>1, <1>2, VisitFacts DEF visitCached
<1>4. /\ tick' \in TickType /\ tick'.pc = "loadlast" /\ tick'.peer = tick.peer
      /\ tick'.obj = Found(i) /\ tick'.idx = i
  <2>1. tick \in TickType
    BY DEF TypeOK
  <2> HIDE DEF i
  <2>2. QED
    BY <1>1, <1>2, <1>3, <2>1 DEF TickType
<1>5. /\ requests' \in [Pieces -> Objects \union {None}]
      /\ MapRefs'
      /\ cached'[Found(i)].index = i
      /\ \A p \in Peers : run[p].obj \in Objects =>
           cached'[run[p].obj].index = cached[run[p].obj].index
  BY <1>1, <1>2, VisitRefs
<1>6. TypeOK'
  BY <1>3, <1>4, <1>5 DEF TickVisitLast, TypeOK, connVars
<1>7. RunRefs'
  BY <1>5 DEF TickVisitLast, RunRefs
<1>8. TickRefs'
  BY <1>2, <1>3, <1>4, <1>5 DEF TickRefs
<1>9. QED
  BY <1>5, <1>6, <1>7, <1>8

\* The piece picked is one of the torrent's.
LEMMA TypedTickPick ==
  ASSUME Typed, TickPick
  PROVE  Typed'
<1> USE DEF Typed
<1>1. tick.pc = "pick" /\ tick.peer \in Peers /\ tick \in TickType
  BY DEF TickPick, TickRefs, TypeOK
<1>2. /\ tick' \in TickType
      /\ \/ tick'.pc = "download"
         \/ tick'.pc = "visit" /\ tick'.peer = tick.peer /\ tick'.idx \in Pieces
  <2>1. CASE tick' = NextPeer
    BY <2>1, TickRecords
  <2>2. ASSUME NEW i \in Candidates(tick.peer), tick' = [tick EXCEPT !.pc = "visit", !.idx = i]
        PROVE  tick' \in TickType /\ tick'.pc = "visit" /\ tick'.peer = tick.peer /\ tick'.idx = i
               /\ i \in Pieces
    <3>1. i \in Pieces
      BY <1>1, PeersAssumption DEF Candidates
    <3>2. QED
      BY <1>1, <2>2, <3>1 DEF TickType
  <2>3. QED
    BY <2>1, <2>2 DEF TickPick
<1>3. TypeOK'
  BY <1>2 DEF TickPick, TypeOK, connVars
<1>4. MapRefs' /\ RunRefs'
  BY DEF TickPick, MapRefs, RunRefs
<1>5. TickRefs'
  BY <1>1, <1>2 DEF TickRefs
<1>6. QED
  BY <1>3, <1>4, <1>5

\* NextRequest gets a cached piece of the index picked.
LEMMA TypedTickVisit ==
  ASSUME Typed, TickVisit
  PROVE  Typed'
<1> USE DEF Typed
<1>1. /\ tick.pc = "visit" /\ visitCached(tick.idx) /\ cached' = Visited(tick.idx)
      /\ tick' = [tick EXCEPT !.pc = "load", !.obj = Found(tick.idx)]
  BY DEF TickVisit
<1>2. tick.peer \in Peers /\ tick.idx \in Pieces
  BY <1>1 DEF TickRefs
<1>3. Found(tick.idx) \in Objects /\ cached' \in HeapType
  BY <1>1, <1>2, VisitFacts DEF visitCached
<1>4. /\ tick' \in TickType /\ tick'.pc = "load" /\ tick'.peer = tick.peer
      /\ tick'.obj = Found(tick.idx) /\ tick'.idx = tick.idx
  <2>1. tick \in TickType
    BY DEF TypeOK
  <2>2. QED
    BY <1>1, <1>3, <2>1 DEF TickType
<1>5. /\ requests' \in [Pieces -> Objects \union {None}]
      /\ MapRefs'
      /\ cached'[Found(tick.idx)].index = tick.idx
      /\ \A p \in Peers : run[p].obj \in Objects =>
           cached'[run[p].obj].index = cached[run[p].obj].index
  BY <1>1, <1>2, VisitRefs
<1>6. TypeOK'
  BY <1>3, <1>4, <1>5 DEF TickVisit, TypeOK, connVars
<1>7. RunRefs'
  BY <1>5 DEF TickVisit, RunRefs
<1>8. TickRefs'
  BY <1>2, <1>3, <1>4, <1>5 DEF TickRefs
<1>9. QED
  BY <1>5, <1>6, <1>7, <1>8

\* The lowest of a non-empty set of numbers.
LEMMA LowestFacts ==
  ASSUME NEW S \in SUBSET Nat, S # {}
  PROVE  Lowest(S) \in S /\ \A c \in S : Lowest(S) <= c
<1>1. PICK b \in S : \A c \in S : ~ (<<c, b>> \in OpToRel(<, Nat))
  BY NatLessThanWellFounded, WFMin
<1>2. ASSUME NEW c \in S PROVE b <= c
  <2>1. <<c, b>> \in OpToRel(<, Nat) <=> c < b
    BY DEF OpToRel
  <2>2. ~ (c < b)
    BY <1>1, <2>1
  <2>3. QED
    BY <2>2
<1>3. QED
  BY <1>2 DEF Lowest

\* The block chosen is one of the piece's.
LEMMA TypedTickLoad ==
  ASSUME Typed, TickLoad
  PROVE  Typed'
<1> USE DEF Typed
<1> DEFINE o == tick.obj
           b == Lowest(FreeBlocks(o))
<1>1. /\ tick.pc \in {"loadlast", "load"} /\ tick.peer \in Peers /\ tick.idx \in Pieces
      /\ o \in Objects /\ cached[o].index = tick.idx /\ tick \in TickType
      /\ cached \in HeapType
  BY DEF TickLoad, TickRefs, TypeOK
<1>2. CASE /\ FreeBlocks(o) # {}
           /\ tick' = [tick EXCEPT !.pc = "store", !.block = b, !.snap = cached[o].pending]
           /\ UNCHANGED cached
  <2>1. b \in BlocksOf[tick.idx] /\ b \in Bits
    <3>1. FreeBlocks(o) \subseteq BlocksOf[tick.idx] /\ BlocksOf[tick.idx] \subseteq Nat
      BY <1>1, PiecesAssumption DEF FreeBlocks
    <3>2. b \in FreeBlocks(o)
      BY <1>2, <3>1, LowestFacts
    <3>3. QED
      BY <1>1, <3>1, <3>2, SlotFacts
  <2>2. cached[o].pending \in SUBSET Bits
    BY <1>1 DEF HeapType
  <2> HIDE DEF b
  <2>3. /\ tick' \in TickType /\ tick'.pc = "store" /\ tick'.peer = tick.peer
        /\ tick'.obj = o /\ tick'.idx = tick.idx /\ tick'.block = b
    BY <1>1, <1>2, <2>1, <2>2 DEF TickType
  <2>4. TypeOK'
    BY <1>2, <2>3 DEF TickLoad, TypeOK, connVars
  <2>5. MapRefs' /\ RunRefs'
    BY <1>2 DEF TickLoad, MapRefs, RunRefs
  <2>6. TickRefs'
    BY <1>1, <1>2, <2>1, <2>3 DEF TickRefs
  <2>7. QED
    BY <2>4, <2>5, <2>6
<1>3. CASE /\ \/ tick' = NextPeer
              \/ tick' = [tick EXCEPT !.pc = "pick", !.obj = None, !.idx = None]
           /\ cached' = Sweep(cached, Reach(requests, run, tick'))
  <2>1. /\ tick' \in TickType
        /\ tick'.pc = "download" \/ (tick'.pc = "pick" /\ tick'.peer = tick.peer)
    <3>1. CASE tick' = NextPeer
      BY <3>1, TickRecords
    <3>2. CASE tick' = [tick EXCEPT !.pc = "pick", !.obj = None, !.idx = None]
      BY <1>1, <3>2 DEF TickType
    <3>3. QED
      BY <1>3, <3>1, <3>2
  <2>2. /\ cached' \in HeapType
        /\ \A i \in Pieces : requests'[i] \in Objects =>
             cached'[requests'[i]].index = cached[requests'[i]].index
        /\ \A q \in Peers : run'[q].obj \in Objects =>
             cached'[run'[q].obj].index = cached[run'[q].obj].index
    BY <1>1, <1>3, SweepRefs DEF TickLoad
  <2>3. TypeOK'
    BY <2>1, <2>2 DEF TickLoad, TypeOK, connVars
  <2>4. MapRefs' /\ RunRefs'
    BY <2>2 DEF TickLoad, MapRefs, RunRefs
  <2>5. TickRefs'
    BY <1>1, <2>1 DEF TickRefs
  <2>6. QED
    BY <2>3, <2>4, <2>5
<1>4. QED
  BY <1>2, <1>3 DEF TickLoad

\* The block chosen joins the blocks on request.
LEMMA TypedTickStore ==
  ASSUME Typed, TickStore
  PROVE  Typed'
<1> USE DEF Typed
<1> DEFINE S == tick.snap \union {tick.block}
           heap == [cached EXCEPT ![tick.obj].pending = S]
<1>1. /\ tick.pc = "store" /\ tick.peer \in Peers /\ tick.idx \in Pieces
      /\ tick.obj \in Objects /\ tick.block \in BlocksOf[tick.idx] /\ tick \in TickType
  BY DEF TickStore, TickRefs, TypeOK
<1>2. S \in SUBSET Bits
  BY <1>1, SlotFacts DEF TickType
<1>3. cached' = Sweep(heap, Reach(requests', run', tick'))
  BY DEF TickStore
<1> HIDE DEF S
<1>4. heap \in HeapType /\ \A u \in Objects : heap[u].index = cached[u].index
  BY <1>1, <1>2, HeapUpdates
<1> HIDE DEF heap
<1>5. /\ cached' \in HeapType
      /\ \A i \in Pieces : requests'[i] \in Objects =>
           cached'[requests'[i]].index = cached[requests'[i]].index
      /\ \A q \in Peers : run'[q].obj \in Objects =>
           cached'[run'[q].obj].index = cached[run'[q].obj].index
  BY <1>3, <1>4, SweepRefs
<1>6. /\ tick' \in TickType /\ tick'.pc = "queue" /\ tick'.peer = tick.peer
      /\ tick'.idx = tick.idx /\ tick'.block = tick.block
  <2>1. tick' = [tick EXCEPT !.pc = "queue", !.obj = None, !.snap = {}]
    BY DEF TickStore
  <2>2. QED
    BY <1>1, <2>1 DEF TickType
<1>7. TypeOK'
  BY <1>5, <1>6 DEF TickStore, TypeOK, connVars
<1>8. MapRefs' /\ RunRefs'
  BY <1>5 DEF TickStore, MapRefs, RunRefs
<1>9. TickRefs'
  BY <1>1, <1>6 DEF TickRefs
<1>10. QED
  BY <1>7, <1>8, <1>9

\* The request for it joins the connection's list and its queue.
LEMMA TypedTickQueue ==
  ASSUME Typed, TickQueue
  PROVE  Typed'
<1> USE DEF Typed
<1> DEFINE r == <<tick.idx, tick.block>>
<1>1. tick.pc = "queue" /\ tick.peer \in Peers /\ r \in Slots
  BY SlotFacts DEF TickQueue, TickRefs
<1>2. tick' \in TickType /\ tick'.pc = "download"
  BY TickRecords DEF TickQueue
<1>3. /\ lastRequest' = [lastRequest EXCEPT ![tick.peer] = r]
      /\ downloading' = [downloading EXCEPT ![tick.peer][r] = @ + 1]
      /\ outq' = outq \/ outq' = [outq EXCEPT ![tick.peer] = @ \union {r}]
  BY DEF TickQueue
<1> HIDE DEF r
<1>4. /\ lastRequest' \in [Peers -> Slots \union {None}]
      /\ downloading' \in [Peers -> [Slots -> Nat]]
      /\ outq' \in [Peers -> SUBSET Slots]
  <2>1. lastRequest' \in [Peers -> Slots \union {None}]
    BY <1>1, <1>3 DEF TypeOK
  <2>2. downloading' \in [Peers -> [Slots -> Nat]]
    BY <1>1, <1>3 DEF TypeOK
  <2>3. outq' \in [Peers -> SUBSET Slots]
    <3>1. outq \in [Peers -> SUBSET Slots]
      BY DEF TypeOK
    <3>2. CASE outq' = [outq EXCEPT ![tick.peer] = @ \union {r}]
      <4>1. outq[tick.peer] \union {r} \in SUBSET Slots
        BY <1>1, <3>1
      <4>2. QED
        BY <3>1, <3>2, <4>1
    <3>3. QED
      BY <1>3, <3>1, <3>2
  <2>4. QED
    BY <2>1, <2>2, <2>3
<1>5. TypeOK'
  BY <1>2, <1>4 DEF TickQueue, TypeOK
<1>6. MapRefs' /\ RunRefs'
  BY DEF TickQueue, MapRefs, RunRefs
<1>7. TickRefs'
  BY <1>2 DEF TickRefs
<1>8. QED
  BY <1>5, <1>6, <1>7

\* A round ends with the tick loop pointing nowhere.
LEMMA TypedTickEnd ==
  ASSUME Typed, TickEnd
  PROVE  Typed'
<1> USE DEF Typed
<1>1. tick' \in TickType /\ tick'.pc = "idle"
  BY IdleTypes DEF TickEnd, TickIdle
<1>2. TypeOK'
  BY <1>1 DEF TickEnd, TypeOK, connVars
<1>3. MapRefs' /\ RunRefs'
  BY DEF TickEnd, MapRefs, RunRefs
<1>4. TickRefs'
  BY <1>1 DEF TickRefs
<1>5. QED
  BY <1>2, <1>3, <1>4

\* Getting old changes no reference.
LEMMA TypedAge ==
  ASSUME Typed, NEW i \in Pieces, Age(i)
  PROVE  Typed'
<1> USE DEF Typed
<1>1. requests[i] \in Objects /\ cached \in HeapType
  BY DEF Age, TypeOK
<1>2. cached' \in HeapType /\ \A o \in Objects : cached'[o].index = cached[o].index
  <2>1. TRUE \in BOOLEAN
    OBVIOUS
  <2>2. /\ [cached EXCEPT ![requests[i]].old = TRUE] \in HeapType
        /\ \A o \in Objects :
             [cached EXCEPT ![requests[i]].old = TRUE][o].index = cached[o].index
    BY <1>1, <2>1, HeapAge
  <2>3. QED
    BY <2>2 DEF Age
<1>3. faults' \in 0..MaxFaults
  BY BoundsAssumption DEF Age, TypeOK
<1>4. TypeOK'
  BY <1>2, <1>3 DEF Age, TypeOK, connVars
<1>5. MapRefs' /\ RunRefs' /\ TickRefs'
  BY <1>2 DEF Age, MapRefs, RunRefs, TickRefs, connVars
<1>6. QED
  BY <1>4, <1>5

\* Typed is inductive.
THEOREM TypedStep == Typed /\ [Next]_vars => Typed'
<1>1. ASSUME Typed, UNCHANGED vars PROVE Typed'
  <2>1. TypeOK'
    BY <1>1 DEF Typed, TypeOK, vars, connVars
  <2>2. MapRefs' /\ RunRefs' /\ TickRefs'
    BY <1>1 DEF Typed, MapRefs, RunRefs, TickRefs, vars, connVars
  <2>3. QED
    BY <2>1, <2>2 DEF Typed
<1>2. ASSUME Typed, TickStep PROVE Typed'
  BY <1>2, TypedTickStart, TypedTickZero, TypedTickVisitPeers, TypedTickVisitLast,
     TypedTickPick, TypedTickVisit, TypedTickLoad, TypedTickStore, TypedTickQueue,
     TypedTickEnd, TypedTickExpire, TypedTickCancelPiece, TypedTickDownload
     DEF TickStep
<1>3. ASSUME Typed, NEW p \in Peers, RunStep(p) PROVE Typed'
  BY <1>3, TypedCancelLoad, TypedCancelStore, TypedVisitData, TypedPutChunk,
     TypedSetObtained, TypedUnsetPending, TypedCheckDone, TypedReadBack, TypedSetHave,
     TypedBroadcastHave, TypedRemovePiece
     DEF RunStep
<1>4. ASSUME Typed, NEW p \in Peers, Remotely(p) \/ Fault(p) PROVE Typed'
  BY <1>4, TypedReceivePiece, TypedReceiveUnchoke, TypedReceiveChoke, TypedDoClose,
     TypedPutChunkFails, TypedReadBackFails
     DEF Remotely, Fault
<1>5. QED
  BY <1>1, <1>2, <1>3, <1>4, TypedAge, TypedWriteRequest DEF Next

\* Every variable keeps its type, and every goroutine that works on a cached
\* piece points to one of the right index: TypeOK for any peers, pieces, blocks.
THEOREM TypeCorrect == Spec => []TypeOK
<1>1. Typed => TypeOK
  BY DEF Typed
<1>2. QED
  BY <1>1, TypedInit, TypedStep, PTL DEF Spec

-----------------------------------------------------------------------------
(* With honest peers, what we say we have is good on disk.                 *)

RunSound(x) ==
  /\ x.pc \notin {"idle", "cancel", "uncancel"} => x.good
  /\ x.pc \in {"have", "havenot"} => \A i \in x.snap : GoodOnDisk(i)
  /\ x.pc = "have" => GoodOnDisk(x.req[1])

HaveInv ==
  /\ \A s \in Slots : disk[s] # "bad"
  /\ \A p \in Peers : RunSound(run[p])
  /\ HaveIsValid

\* A step that leaves the data, the bitfield and the run loops alone.
LEMMA HaveFrame ==
  ASSUME HaveInv, UNCHANGED <<disk, bf, run>>
  PROVE  HaveInv'
BY DEF HaveInv, RunSound, HaveIsValid, GoodOnDisk

\* A step of one run loop that leaves the data and the bitfield alone.
LEMMA HaveRun ==
  ASSUME Typed, HaveInv, UNCHANGED <<disk, bf>>, NEW p \in Peers, NEW x,
         RunSound(x), run' = [run EXCEPT ![p] = x]
  PROVE  HaveInv'
<1>1. run'[p] = x /\ \A q \in Peers : q # p => run'[q] = run[q]
  BY DEF Typed, TypeOK
<1>2. ASSUME NEW q \in Peers PROVE RunSound(run[q])'
  <2>1. \A i : GoodOnDisk(i)' <=> GoodOnDisk(i)
    BY DEF GoodOnDisk
  <2>2. CASE q = p
    BY <1>1, <2>1, <2>2 DEF RunSound
  <2>3. CASE q # p
    BY <1>1, <2>1, <2>3 DEF RunSound, HaveInv
  <2>4. QED
    BY <2>2, <2>3
<1>3. (\A s \in Slots : disk[s] # "bad")' /\ HaveIsValid'
  BY DEF HaveInv, HaveIsValid, GoodOnDisk
<1>4. QED
  BY <1>2, <1>3 DEF HaveInv

\* Records a run loop starts from.
LEMMA SoundRecords ==
  ASSUME Typed, HaveInv
  PROVE  /\ \A todo \in SUBSET Slots : RunSound(Cancelling(todo))
         /\ \A p \in Peers : run[p].pc \in {"done", "remove"} => RunSound(Handled(p))
<1>1. ASSUME NEW todo \in SUBSET Slots PROVE RunSound(Cancelling(todo))
  <2>1. Cancelling(todo).pc \in {"idle", "cancel"}
    BY RunRecords DEF Typed
  <2>2. QED
    BY <2>1 DEF RunSound
<1>2. ASSUME NEW p \in Peers, run[p].pc \in {"done", "remove"} PROVE RunSound(Handled(p))
  <2>1. run[p].good
    BY <1>2 DEF HaveInv, RunSound
  <2>2. Handled(p).pc \in {"idle", "visit"} /\ (Handled(p).pc = "visit" => Handled(p).good)
    <3>1. run[p].req \in Slots
      BY <1>2 DEF Typed, RunRefs
    <3>2. Handled(p).pc \in {"idle", "visit"}
      BY <3>1, RunRecords DEF Typed
    <3>3. CASE run[p].left <= 1
      BY <3>3, IdleTypes DEF Handled, RunIdle
    <3>4. CASE ~(run[p].left <= 1)
      <4>1. Handled(p) = [RunIdle EXCEPT !.pc = "visit", !.req = run[p].req,
                                         !.good = run[p].good, !.left = run[p].left - 1]
        BY <3>4 DEF Handled
      <4>2. Handled(p).good = run[p].good
        BY <4>1, IdleTypes DEF RunType
      <4>3. QED
        BY <2>1, <3>2, <4>2
    <3>5. QED
      BY <3>2, <3>3, <3>4
  <2>3. QED
    BY <2>2 DEF RunSound
<1>3. QED
  BY <1>1, <1>2

\* Of the other actions, only the run loop's touch what HaveInv is about.
LEMMA HaveTick ==
  ASSUME TickStep \/ \E i \in Pieces : Age(i)
  PROVE  UNCHANGED <<disk, bf, run>>
BY DEF TickStep, TickStart, TickExpire, TickCancelPiece, TickZero, TickVisitPeers,
       TickDownload, TickVisitLast, TickPick, TickVisit, TickLoad, TickStore, TickQueue,
       TickEnd, Age

\* Messages start handling a block an honest peer sent, or cancelling some.
LEMMA HaveRemote ==
  ASSUME Typed, HaveInv, Honest = Peers, NEW p \in Peers,
         Remotely(p) \/ ReceiveChoke(p) \/ doClose(p) \/ \E r \in outq[p] : WriteRequest(p, r)
  PROVE  HaveInv'
<1>1. ASSUME NEW r \in wire[p], ReceivePiece(p, r) PROVE HaveInv'
  <2>1. CASE run' = run
    BY <1>1, <2>1, HaveFrame DEF ReceivePiece
  <2>2. CASE run' # run
    <3>1. PICK x : /\ run' = [run EXCEPT ![p] = x]
                   /\ x = [RunIdle EXCEPT !.pc = "visit", !.req = r, !.good = TRUE,
                                          !.left = downloading[p][r]]
      BY <1>1, <2>2 DEF ReceivePiece
    <3>2. x.pc = "visit" /\ x.good
      BY <3>1, IdleTypes DEF RunType
    <3>3. RunSound(x)
      BY <3>2 DEF RunSound
    <3>4. QED
      BY <1>1, <3>1, <3>3, HaveRun DEF ReceivePiece
  <2>3. QED
    BY <2>1, <2>2
<1>2. ASSUME ReceiveChoke(p) \/ doClose(p) PROVE HaveInv'
  <2>1. RunSound(Cancelling(Listed(p)))
    BY SoundRecords DEF Listed
  <2>2. QED
    BY <1>2, <2>1, HaveRun DEF ReceiveChoke, doClose
<1>3. ASSUME ReceiveUnchoke(p) PROVE HaveInv'
  BY <1>3, HaveFrame DEF ReceiveUnchoke
<1>4. ASSUME NEW r \in outq[p], WriteRequest(p, r) PROVE HaveInv'
  <2>1. RunSound(Cancelling(Listed(p) \cap {r}))
    BY SoundRecords DEF Listed
  <2>2. QED
    BY <1>4, <2>1, HaveRun, HaveFrame DEF WriteRequest
<1>5. QED
  BY <1>1, <1>2, <1>3, <1>4 DEF Remotely

\* The steps of a run loop that read and mark, before and after the data.
LEMMA HaveMarks ==
  ASSUME Typed, HaveInv, NEW p \in Peers,
         \/ CancelLoad(p) \/ CancelStore(p) \/ VisitData(p) \/ PutChunkFails(p)
         \/ SetObtained(p) \/ UnsetPending(p) \/ CheckDone(p) \/ ReadBackFails(p)
         \/ BroadcastHave(p) \/ removePiece(p)
  PROVE  HaveInv'
<1>1. run[p] \in RunType /\ RunSound(run[p])
  BY DEF Typed, TypeOK, HaveInv
<1>2. ASSUME CancelLoad(p) PROVE HaveInv'
  <2>1. PICK r, o, S :
          run' = [run EXCEPT ![p] = [run[p] EXCEPT !.pc = "uncancel", !.req = r, !.obj = o,
                                                   !.snap = S]]
    BY <1>2 DEF CancelLoad
  <2> DEFINE x == [run[p] EXCEPT !.pc = "uncancel", !.req = r, !.obj = o, !.snap = S]
  <2>2. x.pc = "uncancel"
    BY <1>1 DEF RunType
  <2>3. run' = [run EXCEPT ![p] = x]
    BY <2>1
  <2> HIDE DEF x
  <2>4. RunSound(x)
    BY <2>2 DEF RunSound
  <2>5. QED
    BY <1>2, <2>3, <2>4, HaveRun DEF CancelLoad
<1>3. ASSUME CancelStore(p) PROVE HaveInv'
  <2>1. RunSound(Cancelling(run[p].todo \ {run[p].req}))
    BY <1>1, SoundRecords DEF RunType
  <2>2. QED
    BY <1>3, <2>1, HaveRun DEF CancelStore
<1>4. ASSUME VisitData(p) PROVE HaveInv'
  <2> DEFINE x == [run[p] EXCEPT !.pc = "write", !.obj = Found(run[p].req[1])]
  <2>1. x.pc = "write" /\ x.good = run[p].good
    BY <1>1 DEF RunType
  <2>2. run' = [run EXCEPT ![p] = x]
    BY <1>4 DEF VisitData
  <2> HIDE DEF x
  <2>3. RunSound(x)
    BY <1>1, <1>4, <2>1 DEF VisitData, RunSound
  <2>4. QED
    BY <1>4, <2>2, <2>3, HaveRun DEF VisitData
<1>5. ASSUME NEW c \in {"unset", "done", "verify", "remove"},
             NEW S \in SUBSET (Bits \union Pieces),
             run' = [run EXCEPT ![p] = At(run[p], c, S)], UNCHANGED <<disk, bf>>,
             run[p].pc \notin {"idle", "cancel", "uncancel"}
      PROVE  HaveInv'
  <2>1. At(run[p], c, S).pc = c /\ At(run[p], c, S).good = run[p].good
    BY <1>1, AtFacts DEF RunPCs
  <2>2. RunSound(At(run[p], c, S))
    BY <1>1, <1>5, <2>1 DEF RunSound
  <2>3. QED
    BY <1>5, <2>2, HaveRun
<1>6. ASSUME PutChunkFails(p) \/ SetObtained(p) PROVE HaveInv'
  <2>1. cached[run[p].obj].pending \in SUBSET (Bits \union Pieces)
    BY <1>6 DEF PutChunkFails, SetObtained, Typed, RunRefs, TypeOK, HeapType
  <2>2. QED
    BY <1>5, <1>6, <2>1 DEF PutChunkFails, SetObtained
<1>7. ASSUME UnsetPending(p) \/ BroadcastHave(p) \/ ReadBackFails(p) PROVE HaveInv'
  BY <1>5, <1>7 DEF UnsetPending, BroadcastHave, ReadBackFails, connVars
<1>8. ASSUME CheckDone(p) PROVE HaveInv'
  <2>1. RunSound(Handled(p))
    BY <1>8, SoundRecords DEF CheckDone
  <2>2. CASE run' = [run EXCEPT ![p] = Handled(p)]
    BY <1>8, <2>1, <2>2, HaveRun DEF CheckDone
  <2>3. CASE run' = [run EXCEPT ![p] = At(run[p], "verify", {})]
    <3>1. UNCHANGED <<disk, bf>> /\ run[p].pc \notin {"idle", "cancel", "uncancel"}
      BY <1>8 DEF CheckDone
    <3>2. {} \in SUBSET (Bits \union Pieces)
      OBVIOUS
    <3>3. QED
      BY <1>5, <2>3, <3>1, <3>2
  <2>4. QED
    BY <1>8, <2>2, <2>3 DEF CheckDone
<1>9. ASSUME removePiece(p) PROVE HaveInv'
  <2>1. RunSound(Handled(p))
    BY <1>9, SoundRecords DEF removePiece
  <2>2. QED
    BY <1>9, <2>1, HaveRun DEF removePiece
<1>10. QED
  BY <1>2, <1>3, <1>4, <1>6, <1>7, <1>8, <1>9

\* A block written is good: the others are as they were.
LEMMA HavePutChunk ==
  ASSUME Typed, HaveInv, NEW p \in Peers, PutChunk(p)
  PROVE  HaveInv'
<1>1. /\ run[p] \in RunType /\ run[p].pc = "write" /\ run[p].good /\ run[p].req \in Slots
      /\ disk \in [Slots -> {"empty", "good", "bad"}] /\ bf \in SUBSET Pieces
  BY DEF PutChunk, Typed, TypeOK, RunRefs, HaveInv, RunSound
<1>2. disk' = [disk EXCEPT ![run[p].req] = "good"] /\ bf' = bf
  BY <1>1 DEF PutChunk
<1>3. \A i \in Pieces : GoodOnDisk(i) => GoodOnDisk(i)'
  BY <1>1, <1>2, SlotFacts DEF GoodOnDisk
<1>4. PICK S \in SUBSET (Bits \union Pieces) : run' = [run EXCEPT ![p] = At(run[p], "put", S)]
  <2>1. cached[run[p].obj].obtained \in SUBSET Bits
    BY <1>1 DEF Typed, RunRefs, TypeOK, HeapType
  <2>2. QED
    BY <2>1 DEF PutChunk
<1>5. /\ run'[p].pc = "put" /\ run'[p].good
      /\ \A q \in Peers : q # p => run'[q] = run[q]
  BY <1>1, <1>4, AtFacts DEF Typed, TypeOK, RunPCs
<1>6. ASSUME NEW q \in Peers PROVE RunSound(run[q])'
  <2>1. CASE q = p
    BY <1>5, <2>1 DEF RunSound
  <2>2. CASE q # p
    <3>1. run'[q] = run[q] /\ RunSound(run[q])
      BY <1>5, <2>2 DEF HaveInv
    <3>2. run[q].pc \in {"have", "havenot"} =>
            run[q].snap \in SUBSET Pieces /\ run[q].req[1] \in Pieces
      BY SlotFacts DEF Typed, RunRefs
    <3>3. QED
      BY <1>3, <3>1, <3>2 DEF RunSound
  <2>3. QED
    BY <2>1, <2>2
<1>7. (\A s \in Slots : disk[s] # "bad")'
  BY <1>1, <1>2 DEF HaveInv
<1>8. HaveIsValid'
  BY <1>1, <1>2, <1>3 DEF HaveInv, HaveIsValid
<1>9. QED
  BY <1>6, <1>7, <1>8 DEF HaveInv

\* What the loaded byte of the bitfield has set was good when it was loaded.
LEMMA HaveReadBack ==
  ASSUME Typed, HaveInv, NEW p \in Peers, ReadBack(p)
  PROVE  HaveInv'
<1> DEFINE c == IF GoodOnDisk(run[p].req[1]) THEN "have" ELSE "havenot"
<1>1. /\ run[p] \in RunType /\ run[p].good /\ bf \in SUBSET (Bits \union Pieces)
      /\ c \in RunPCs
  BY DEF ReadBack, Typed, TypeOK, HaveInv, RunSound, RunPCs
<1>2. UNCHANGED <<disk, bf>> /\ run' = [run EXCEPT ![p] = At(run[p], c, bf)]
  BY DEF ReadBack
<1>3. c = "have" => GoodOnDisk(run[p].req[1])
  OBVIOUS
<1> HIDE DEF c
<1>4. /\ At(run[p], c, bf).pc = c /\ At(run[p], c, bf).good = run[p].good
      /\ At(run[p], c, bf).snap = bf /\ At(run[p], c, bf).req = run[p].req
  BY <1>1, AtFacts
<1>5. RunSound(At(run[p], c, bf))
  BY <1>1, <1>3, <1>4 DEF RunSound, HaveInv, HaveIsValid
<1>6. QED
  BY <1>2, <1>5, HaveRun

\* The byte stored is of pieces found good, whoever stored in between.
LEMMA HaveSetHave ==
  ASSUME Typed, HaveInv, NEW p \in Peers, SetHave(p)
  PROVE  HaveInv'
<1>1. /\ run[p] \in RunType /\ RunSound(run[p]) /\ run[p].good
      /\ run[p].pc \in {"have", "havenot"} /\ UNCHANGED disk
  BY DEF SetHave, Typed, TypeOK, HaveInv, RunSound
<1>2. \A i : GoodOnDisk(i)' <=> GoodOnDisk(i)
  BY <1>1 DEF GoodOnDisk
<1>3. HaveIsValid'
  BY <1>1, <1>2 DEF SetHave, HaveIsValid, RunSound
<1>4. PICK c \in {"broadcast", "remove"} : run' = [run EXCEPT ![p] = At(run[p], c, {})]
  BY DEF SetHave
<1>5. /\ run'[p].pc = c /\ run'[p].good
      /\ \A q \in Peers : q # p => run'[q] = run[q]
  BY <1>1, <1>4, AtFacts DEF Typed, TypeOK, RunPCs
<1>6. ASSUME NEW q \in Peers PROVE RunSound(run[q])'
  BY <1>2, <1>5 DEF RunSound, HaveInv
<1>7. (\A s \in Slots : disk[s] # "bad")'
  BY <1>1 DEF HaveInv
<1>8. QED
  BY <1>3, <1>6, <1>7 DEF HaveInv

\* HaveInv is inductive, next to Typed.
LEMMA HaveStep ==
  ASSUME Typed, HaveInv, Honest = Peers, [Next]_vars
  PROVE  HaveInv'
<1>1. CASE UNCHANGED vars
  BY <1>1, HaveFrame DEF vars
<1>2. CASE TickStep \/ \E i \in Pieces : Age(i)
  BY <1>2, HaveTick, HaveFrame
<1>3. ASSUME NEW p \in Peers, RunStep(p) \/ PutChunkFails(p) \/ ReadBackFails(p) PROVE HaveInv'
  BY <1>3, HaveMarks, HavePutChunk, HaveReadBack, HaveSetHave DEF RunStep
<1>4. ASSUME NEW p \in Peers,
             \/ Remotely(p) \/ ReceiveChoke(p) \/ doClose(p)
             \/ \E r \in outq[p] : WriteRequest(p, r)
      PROVE  HaveInv'
  BY <1>4, HaveRemote
<1>5. QED
  BY <1>1, <1>2, <1>3, <1>4 DEF Next, Fault

\* When all peers are honest, every piece whose bit is set is good on disk,
\* whatever the stale pieces, lost bitfield updates and repeated downloads.
THEOREM HaveCorrect ==
  ASSUME Honest = Peers
  PROVE  Spec => []HaveIsValid
<1>1. Init => HaveInv
  BY DEF Init, HaveInv, HaveIsValid, RunSound, RunIdle
<1>2. Typed /\ HaveInv /\ [Next]_vars => Typed' /\ HaveInv'
  BY HaveStep, TypedStep
<1>3. HaveInv => HaveIsValid
  BY DEF HaveInv
<1>4. QED
  BY <1>1, <1>2, <1>3, TypedInit, PTL DEF Spec

-----------------------------------------------------------------------------
(* With honest peers, the download is a PieceStore.                        *)

\* Before the first block is written no piece is whole: every piece has a block.
LEMMA StoreInit == Init => Store!Init
<1>1. ASSUME Init PROVE Whole = {}
  <2>1. ASSUME NEW i \in Pieces PROVE ~GoodOnDisk(i)
    <3>1. PICK b : b \in BlocksOf[i]
      BY PiecesAssumption
    <3>2. <<i, b>> \in Slots
      BY <3>1, SlotFacts
    <3>3. disk[<<i, b>>] = "empty"
      BY <1>1, <3>2 DEF Init
    <3>4. QED
      BY <3>1, <3>3 DEF GoodOnDisk
  <2>2. QED
    BY <2>1 DEF Whole
<1>2. QED
  BY <1>1 DEF Init, Store!Init

\* PutChunk is the only step that changes the data.
LEMMA OnlyPutChunkWrites ==
  ASSUME [Next]_vars, disk' # disk
  PROVE  \E p \in Peers : PutChunk(p)
<1>1. ASSUME TickStep \/ \E i \in Pieces : Age(i) PROVE FALSE
  BY <1>1, HaveTick
<1>2. ASSUME NEW p \in Peers,
             Remotely(p) \/ Fault(p) \/ \E r \in outq[p] : WriteRequest(p, r)
      PROVE  FALSE
  <2>1. ASSUME NEW r, ReceivePiece(p, r) \/ WriteRequest(p, r) PROVE UNCHANGED disk
    BY <2>1 DEF ReceivePiece, WriteRequest
  <2>2. ASSUME ReceiveUnchoke(p) \/ ReceiveChoke(p) \/ doClose(p) PROVE UNCHANGED disk
    BY <2>2 DEF ReceiveUnchoke, ReceiveChoke, doClose
  <2>3. ASSUME PutChunkFails(p) \/ ReadBackFails(p) PROVE UNCHANGED disk
    BY <2>3 DEF PutChunkFails, ReadBackFails
  <2>4. QED
    BY <1>2, <2>1, <2>2, <2>3 DEF Remotely, Fault
<1>3. ASSUME NEW p \in Peers, RunStep(p) PROVE PutChunk(p)
  BY <1>3 DEF RunStep, CancelLoad, CancelStore, VisitData, SetObtained, UnsetPending,
     CheckDone, ReadBack, SetHave, BroadcastHave, removePiece
<1>4. ~UNCHANGED vars
  BY DEF vars
<1>5. QED
  BY <1>1, <1>2, <1>3, <1>4 DEF Next

\* A block written makes its piece whole or leaves everything as it is: the
\* writer's block is good, and it goes to its own place.
LEMMA StoreArrive ==
  ASSUME Typed, HaveInv, NEW p \in Peers, PutChunk(p)
  PROVE  [Store!Next]_<<bf, Whole>>
<1> DEFINE i == run[p].req[1]
<1>1. /\ run[p].good /\ run[p].req \in Slots /\ i \in Pieces
      /\ disk \in [Slots -> {"empty", "good", "bad"}]
  BY SlotFacts DEF PutChunk, Typed, TypeOK, RunRefs, HaveInv, RunSound
<1>2. disk' = [disk EXCEPT ![run[p].req] = "good"] /\ bf' = bf
  BY <1>1 DEF PutChunk
<1>3. \A j \in Pieces : GoodOnDisk(j) => GoodOnDisk(j)'
  BY <1>1, <1>2, SlotFacts DEF GoodOnDisk
<1>4. ASSUME NEW j \in Pieces, j # i, GoodOnDisk(j)' PROVE GoodOnDisk(j)
  <2>1. ASSUME NEW b \in BlocksOf[j] PROVE disk[<<j, b>>] = "good"
    <3>1. <<j, b>> \in Slots /\ <<j, b>> # run[p].req
      BY <1>4, SlotFacts
    <3>2. disk'[<<j, b>>] = "good"
      BY <1>4 DEF GoodOnDisk
    <3>3. QED
      BY <1>1, <1>2, <3>1, <3>2
  <2>2. QED
    BY <2>1 DEF GoodOnDisk
<1>5. Whole' = Whole \/ (i \notin Whole /\ Whole' = Whole \union {i})
  BY <1>1, <1>3, <1>4 DEF Whole
<1>6. QED
  BY <1>1, <1>2, <1>5 DEF Store!Next, Store!Arrive

\* Every other step leaves the data alone, and what it puts in the bitfield is
\* whole before and after.
LEMMA StoreStep ==
  ASSUME Typed, HaveInv, Typed', HaveInv', [Next]_vars
  PROVE  [Store!Next]_<<bf, Whole>>
<1>1. CASE disk' = disk
  <2>1. Whole' = Whole
    BY <1>1 DEF Whole, GoodOnDisk
  <2>2. bf' \in SUBSET Whole'
    BY DEF HaveInv, HaveIsValid, Typed, TypeOK, Whole
  <2>3. QED
    BY <2>1, <2>2 DEF Store!Next, Store!Claim
<1>2. CASE disk' # disk
  BY <1>2, OnlyPutChunkWrites, StoreArrive
<1>3. QED
  BY <1>1, <1>2

\* When all peers are honest, the goroutines, the cached pieces and the unlocked
\* bitfield together do what PieceStore says: whole pieces stay whole, and what XD
\* says it has is whole.
THEOREM ImplementsPieceStore ==
  ASSUME Honest = Peers
  PROVE  Spec => IsPieceStore
<1>1. Init => HaveInv
  BY DEF Init, HaveInv, HaveIsValid, RunSound, RunIdle
<1>2. Typed /\ HaveInv /\ [Next]_vars => Typed' /\ HaveInv' /\ [Store!Next]_<<bf, Whole>>
  BY HaveStep, TypedStep, StoreStep
<1>3. QED
  BY <1>1, <1>2, StoreInit, TypedInit, PTL DEF Spec, IsPieceStore, Store!Spec

-----------------------------------------------------------------------------
(* What a cached piece calls obtained is on disk, good or bad.             *)

Written(i, B) == B \subseteq BlocksOf[i] /\ \A b \in B : disk[<<i, b>>] # "empty"

DiskInv ==
  /\ \A o \in Objects :
       cached[o].index # None => Written(cached[o].index, cached[o].obtained)
  /\ \A p \in Peers :
       run[p].pc = "put" => Written(run[p].req[1], run[p].snap \union {run[p].req[2]})

\* How heap may differ from the cached pieces without one having obtained more.
Kept(heap) ==
  \A o \in Objects :
    \/ heap[o].index = None
    \/ heap[o].obtained = {}
    \/ heap[o].index = cached[o].index /\ heap[o].obtained = cached[o].obtained

\* visitCached adds a piece that has obtained nothing, if any.
LEMMA KeptVisited ==
  ASSUME Typed, NEW i \in Pieces, CanVisit(i)
  PROVE  Kept(Visited(i))
<1>1. \A o \in Objects : Visited(i)[o] = cached[o] \/ Visited(i)[o] = Fresh(i)
  BY VisitFacts DEF Typed
<1>2. Fresh(i).obtained = {}
  BY DEF Fresh
<1>3. QED
  BY <1>1, <1>2 DEF Kept

\* The collector frees pieces, nothing else.
LEMMA KeptSwept ==
  ASSUME NEW heap \in HeapType, Kept(heap), NEW live
  PROVE  Kept(Sweep(heap, live))
<1>1. \A o \in Objects : Sweep(heap, live)[o] = heap[o] \/ Sweep(heap, live)[o] = Freed
  BY SweepFacts
<1>2. Freed.obtained = {}
  BY DEF Freed, Fresh
<1>3. QED
  BY <1>1, <1>2 DEF Kept

\* Writing the pending blocks or the age leaves the obtained blocks.
LEMMA KeptUpdates ==
  ASSUME NEW heap \in HeapType, Kept(heap), NEW o \in Objects, NEW S, NEW b
  PROVE  /\ Kept([heap EXCEPT ![o].pending = S, ![o].old = b])
         /\ Kept([heap EXCEPT ![o].pending = S])
         /\ Kept([heap EXCEPT ![o].old = b])
<1>1. ASSUME NEW u \in Objects
      PROVE  /\ [heap EXCEPT ![o].pending = S, ![o].old = b][u].index = heap[u].index
             /\ [heap EXCEPT ![o].pending = S][u].index = heap[u].index
             /\ [heap EXCEPT ![o].old = b][u].index = heap[u].index
  BY DEF HeapType
<1>2. ASSUME NEW u \in Objects
      PROVE  /\ [heap EXCEPT ![o].pending = S, ![o].old = b][u].obtained = heap[u].obtained
             /\ [heap EXCEPT ![o].pending = S][u].obtained = heap[u].obtained
             /\ [heap EXCEPT ![o].old = b][u].obtained = heap[u].obtained
  BY DEF HeapType
<1>3. QED
  BY <1>1, <1>2 DEF Kept

\* A step in which no cached piece obtains anything, no data is written, and no
\* run loop gets to put.
LEMMA DiskFrame ==
  ASSUME Typed, DiskInv, Kept(cached'), UNCHANGED disk,
         \A p \in Peers : run'[p].pc = "put" => run'[p] = run[p]
  PROVE  DiskInv'
<1>1. ASSUME NEW o \in Objects, (cached[o].index # None)'
      PROVE  Written(cached[o].index, cached[o].obtained)'
  <2>1. CASE cached'[o].obtained = {}
    BY <2>1 DEF Written
  <2>2. CASE cached'[o].index = cached[o].index /\ cached'[o].obtained = cached[o].obtained
    BY <1>1, <2>2 DEF Written, DiskInv
  <2>3. QED
    BY <1>1, <2>1, <2>2 DEF Kept
<1>2. ASSUME NEW p \in Peers, (run[p].pc = "put")'
      PROVE  Written(run[p].req[1], run[p].snap \union {run[p].req[2]})'
  BY <1>2 DEF Written, DiskInv
<1>3. QED
  BY <1>1, <1>2 DEF DiskInv

\* A step that leaves the cached pieces alone.
LEMMA KeptSame ==
  ASSUME UNCHANGED cached
  PROVE  Kept(cached')
BY DEF Kept

\* The cached pieces have obtained what they have obtained.
LEMMA KeptSelf == Kept(cached)
BY DEF Kept

\* The tick goroutine's steps and time leave the run loops and the data alone.
LEMMA DiskTick ==
  ASSUME Typed, DiskInv, TickStep \/ \E i \in Pieces : Age(i)
  PROVE  DiskInv'
<1>1. UNCHANGED <<disk, run>>
  BY HaveTick
<1>2. cached \in HeapType
  BY DEF Typed, TypeOK
<1>3. Kept(cached')
  <2>1. ASSUME NEW i \in Pieces, Age(i) PROVE Kept(cached')
    <3>1. requests[i] \in Objects /\ cached' = [cached EXCEPT ![requests[i]].old = TRUE]
      BY <2>1 DEF Age, Typed, TypeOK
    <3>2. QED
      BY <1>2, <3>1, KeptSelf, KeptUpdates
  <2>2. ASSUME NEW i \in Pieces, TickExpire(i) PROVE Kept(cached')
    <3>1. CanVisit(i) /\ Found(i) \in Objects /\ Visited(i) \in HeapType
      BY <2>2, VisitFacts DEF TickExpire, visitCached, Typed
    <3>2. cached' = Visited(i) \/ cached' = [Visited(i) EXCEPT ![Found(i)].old = FALSE]
      BY <2>2 DEF TickExpire
    <3>3. Kept(Visited(i))
      BY <3>1, KeptVisited
    <3>4. Kept([Visited(i) EXCEPT ![Found(i)].old = FALSE])
      BY <3>1, <3>3, KeptUpdates
    <3>5. QED
      BY <3>2, <3>3, <3>4
  <2>3. ASSUME TickZero PROVE Kept(cached')
    <3>1. tick.obj \in Objects
      BY <2>3 DEF TickZero, Typed, TickRefs
    <3>2. [cached EXCEPT ![tick.obj].pending = {}, ![tick.obj].old = FALSE] \in HeapType
      <4>1. {} \in SUBSET Bits
        OBVIOUS
      <4>2. QED
        BY <3>1, <4>1, HeapUpdates DEF Typed
    <3>3. Kept([cached EXCEPT ![tick.obj].pending = {}, ![tick.obj].old = FALSE])
      BY <1>2, <3>1, KeptSelf, KeptUpdates
    <3>4. QED
      BY <2>3, <3>2, <3>3, KeptSwept DEF TickZero
  <2>4. ASSUME TickVisitLast \/ TickVisit PROVE Kept(cached')
    <3>1. PICK i \in Pieces : CanVisit(i) /\ cached' = Visited(i)
      BY <2>4, SlotFacts DEF TickVisitLast, TickVisit, visitCached, Typed, TickRefs
    <3>2. QED
      BY <3>1, KeptVisited
  <2>5. ASSUME TickLoad PROVE Kept(cached')
    BY <1>2, <2>5, KeptSelf, KeptSwept DEF TickLoad
  <2>6. ASSUME TickStore PROVE Kept(cached')
    <3> DEFINE S == tick.snap \union {tick.block}
    <3>1. tick.obj \in Objects /\ S \in SUBSET Bits
      BY <2>6, SlotFacts DEF TickStore, Typed, TickRefs, TypeOK, TickType
    <3>2. cached' = Sweep([cached EXCEPT ![tick.obj].pending = S], Reach(requests, run, tick'))
      BY <2>6 DEF TickStore
    <3> HIDE DEF S
    <3>3. [cached EXCEPT ![tick.obj].pending = S] \in HeapType
      BY <3>1, HeapUpdates DEF Typed
    <3>4. Kept([cached EXCEPT ![tick.obj].pending = S])
      BY <1>2, <3>1, KeptSelf, KeptUpdates
    <3>5. QED
      BY <3>2, <3>3, <3>4, KeptSwept
  <2>7. ASSUME \/ TickStart \/ TickVisitPeers \/ TickPick \/ TickQueue \/ TickEnd
               \/ \E p \in Peers : TickCancelPiece(p) \/ TickDownload(p)
        PROVE  Kept(cached')
    BY <2>7, KeptSame DEF TickStart, TickVisitPeers, TickPick, TickQueue, TickEnd,
       TickCancelPiece, TickDownload
  <2>8. QED
    BY <2>1, <2>2, <2>3, <2>4, <2>5, <2>6, <2>7 DEF TickStep
<1>4. QED
  BY <1>1, <1>3, DiskFrame

\* Messages only start a run loop on something, far from put.
LEMMA DiskRemote ==
  ASSUME Typed, DiskInv, NEW p \in Peers,
         \/ Remotely(p) \/ ReceiveChoke(p) \/ doClose(p)
         \/ \E r \in outq[p] : WriteRequest(p, r)
  PROVE  DiskInv'
<1>1. UNCHANGED <<cached, disk>>
  BY DEF Remotely, ReceivePiece, ReceiveUnchoke, ReceiveChoke, doClose, WriteRequest
<1>2. \A q \in Peers : run'[q].pc = "put" => run'[q] = run[q]
  <2>1. run \in [Peers -> RunType]
    BY DEF Typed, TypeOK
  <2>2. ASSUME NEW x, x.pc # "put", run' = [run EXCEPT ![p] = x]
        PROVE  \A q \in Peers : run'[q].pc = "put" => run'[q] = run[q]
    BY <2>1, <2>2
  <2>3. ASSUME NEW r \in wire[p], ReceivePiece(p, r), run' # run
        PROVE  \A q \in Peers : run'[q].pc = "put" => run'[q] = run[q]
    <3>1. PICK good \in BOOLEAN :
            run' = [run EXCEPT ![p] = [RunIdle EXCEPT !.pc = "visit", !.req = r, !.good = good,
                                                      !.left = downloading[p][r]]]
      BY <2>3 DEF ReceivePiece
    <3> DEFINE x == [RunIdle EXCEPT !.pc = "visit", !.req = r, !.good = good,
                                    !.left = downloading[p][r]]
    <3>2. x.pc = "visit"
      BY IdleTypes DEF RunType
    <3>3. run' = [run EXCEPT ![p] = x]
      BY <3>1
    <3> HIDE DEF x
    <3>4. QED
      BY <2>2, <3>2, <3>3
  <2>4. \A todo \in SUBSET Slots : Cancelling(todo).pc # "put"
    BY RunRecords DEF Typed
  <2>5. ASSUME ReceiveChoke(p) \/ doClose(p)
        PROVE  \A q \in Peers : run'[q].pc = "put" => run'[q] = run[q]
    <3>1. run' = [run EXCEPT ![p] = Cancelling(Listed(p))]
      BY <2>5 DEF ReceiveChoke, doClose
    <3>2. QED
      BY <2>2, <2>4, <3>1 DEF Listed
  <2>6. ASSUME NEW r \in outq[p], WriteRequest(p, r)
        PROVE  \A q \in Peers : run'[q].pc = "put" => run'[q] = run[q]
    <3>1. run' = run \/ run' = [run EXCEPT ![p] = Cancelling(Listed(p) \cap {r})]
      BY <2>6 DEF WriteRequest
    <3>2. QED
      BY <2>2, <2>4, <3>1 DEF Listed
  <2>7. QED
    BY <2>3, <2>5, <2>6 DEF Remotely, ReceiveUnchoke
<1>3. QED
  BY <1>1, <1>2, DiskFrame, KeptSame

\* Every step of a run loop but the two of putting a block.
LEMMA DiskMarks ==
  ASSUME Typed, DiskInv, NEW p \in Peers,
         \/ CancelLoad(p) \/ CancelStore(p) \/ VisitData(p) \/ PutChunkFails(p)
         \/ UnsetPending(p) \/ CheckDone(p) \/ ReadBack(p) \/ ReadBackFails(p)
         \/ SetHave(p) \/ BroadcastHave(p) \/ removePiece(p)
  PROVE  DiskInv'
<1>1. /\ run \in [Peers -> RunType] /\ cached \in HeapType
      /\ bf \in SUBSET (Bits \union Pieces)
  BY DEF Typed, TypeOK
<1>2. ASSUME NEW x, x.pc # "put", run' = [run EXCEPT ![p] = x], Kept(cached'), UNCHANGED disk
      PROVE  DiskInv'
  <2>1. \A q \in Peers : run'[q].pc = "put" => run'[q] = run[q]
    BY <1>1, <1>2
  <2>2. QED
    BY <1>2, <2>1, DiskFrame
<1>3. ASSUME CancelLoad(p) PROVE DiskInv'
  <2>1. PICK r, o, S :
          /\ r \in run[p].todo /\ visitCached(r[1]) /\ cached' = Visited(r[1])
          /\ run' = [run EXCEPT ![p] = [run[p] EXCEPT !.pc = "uncancel", !.req = r, !.obj = o,
                                                      !.snap = S]]
    BY <1>3 DEF CancelLoad
  <2> DEFINE x == [run[p] EXCEPT !.pc = "uncancel", !.req = r, !.obj = o, !.snap = S]
  <2>2. x.pc = "uncancel"
    BY <1>1 DEF RunType
  <2>3. run' = [run EXCEPT ![p] = x]
    BY <2>1
  <2> HIDE DEF x
  <2>4. Kept(cached')
    BY <1>1, <2>1, SlotFacts, KeptVisited DEF RunType, visitCached
  <2>5. QED
    BY <1>2, <1>3, <2>2, <2>3, <2>4 DEF CancelLoad
<1>4. ASSUME CancelStore(p) PROVE DiskInv'
  <2> DEFINE S == run[p].snap \ {run[p].req[2]}
             x == Cancelling(run[p].todo \ {run[p].req})
  <2>1. x.pc # "put"
    BY <1>1, RunRecords DEF Typed, RunType
  <2>2. run[p].obj \in Objects /\ S \in SUBSET Bits
    BY <1>4 DEF CancelStore, Typed, RunRefs
  <2>3. /\ run' = [run EXCEPT ![p] = x] /\ UNCHANGED disk
        /\ cached' = Sweep([cached EXCEPT ![run[p].obj].pending = S, ![run[p].obj].old = FALSE],
                           Reach(requests, run', tick))
    BY <1>4 DEF CancelStore
  <2> HIDE DEF S, x
  <2>4. [cached EXCEPT ![run[p].obj].pending = S, ![run[p].obj].old = FALSE] \in HeapType
    BY <2>2, HeapUpdates DEF Typed
  <2>5. Kept([cached EXCEPT ![run[p].obj].pending = S, ![run[p].obj].old = FALSE])
    BY <1>1, <2>2, KeptSelf, KeptUpdates
  <2>6. Kept(cached')
    BY <2>3, <2>4, <2>5, KeptSwept
  <2>7. QED
    BY <1>2, <2>1, <2>3, <2>6
<1>5. ASSUME VisitData(p) PROVE DiskInv'
  <2> DEFINE x == [run[p] EXCEPT !.pc = "write", !.obj = Found(run[p].req[1])]
  <2>1. x.pc = "write"
    BY <1>1 DEF RunType
  <2>2. run' = [run EXCEPT ![p] = x]
    BY <1>5 DEF VisitData
  <2> HIDE DEF x
  <2>3. Kept(cached')
    <3>1. run[p].req[1] \in Pieces
      BY <1>5, SlotFacts DEF VisitData, Typed, RunRefs
    <3>2. QED
      BY <1>5, <3>1, KeptVisited DEF VisitData, visitCached
  <2>4. QED
    BY <1>2, <1>5, <2>1, <2>2, <2>3 DEF VisitData
<1>6. ASSUME NEW c \in RunPCs \ {"put"}, NEW S \in SUBSET (Bits \union Pieces),
             run' = [run EXCEPT ![p] = At(run[p], c, S)], UNCHANGED <<cached, disk>>
      PROVE  DiskInv'
  <2>1. At(run[p], c, S).pc = c
    BY <1>1, AtFacts
  <2>2. QED
    BY <1>2, <1>6, <2>1, KeptSame
<1>7. ASSUME UnsetPending(p) PROVE DiskInv'
  <2> DEFINE S == run[p].snap \ {run[p].req[2]}
  <2>1. run[p].obj \in Objects
    BY <1>7 DEF UnsetPending, Typed, RunRefs
  <2>2. cached' = [cached EXCEPT ![run[p].obj].pending = S, ![run[p].obj].old = FALSE]
    BY <1>7 DEF UnsetPending
  <2> HIDE DEF S
  <2>3. Kept(cached')
    BY <1>1, <2>1, <2>2, KeptSelf, KeptUpdates
  <2>4. At(run[p], "done", {}).pc = "done"
    BY <1>1, AtFacts DEF RunPCs
  <2>5. QED
    BY <1>2, <1>7, <2>3, <2>4 DEF UnsetPending
<1>8. ASSUME PutChunkFails(p) PROVE DiskInv'
  <2>1. cached[run[p].obj].pending \in SUBSET (Bits \union Pieces)
    BY <1>8 DEF PutChunkFails, Typed, RunRefs, TypeOK, HeapType
  <2>2. QED
    BY <1>6, <1>8, <2>1 DEF PutChunkFails, RunPCs
<1>9. ASSUME ReadBack(p) \/ ReadBackFails(p) \/ SetHave(p) \/ BroadcastHave(p)
      PROVE  DiskInv'
  <2>1. UNCHANGED <<cached, disk>>
    BY <1>9 DEF ReadBack, ReadBackFails, SetHave, BroadcastHave
  <2>2. {} \in SUBSET (Bits \union Pieces)
    OBVIOUS
  <2>3. PICK c \in {"have", "havenot", "broadcast", "remove"}, S \in {{}, bf} :
          run' = [run EXCEPT ![p] = At(run[p], c, S)]
    BY <1>9 DEF ReadBack, ReadBackFails, SetHave, BroadcastHave
  <2>4. QED
    BY <1>1, <1>6, <2>1, <2>2, <2>3 DEF RunPCs
<1>10. ASSUME CheckDone(p) \/ removePiece(p) PROVE DiskInv'
  <2>1. Handled(p).pc # "put"
    BY <1>10, RunRecords DEF CheckDone, removePiece, Typed, RunRefs
  <2>2. CASE run' = [run EXCEPT ![p] = Handled(p)]
    <3>1. UNCHANGED disk /\ \E live : cached' = Sweep(cached, live) \/ cached' = cached
      BY <1>10 DEF CheckDone, removePiece
    <3>2. Kept(cached')
      BY <1>1, <3>1, KeptSelf, KeptSwept
    <3>3. QED
      BY <1>2, <2>1, <2>2, <3>1, <3>2
  <2>3. CASE run' = [run EXCEPT ![p] = At(run[p], "verify", {})] /\ UNCHANGED <<cached, disk>>
    <3>1. {} \in SUBSET (Bits \union Pieces)
      OBVIOUS
    <3>2. QED
      BY <1>6, <2>3, <3>1 DEF RunPCs
  <2>4. QED
    BY <1>10, <2>2, <2>3 DEF CheckDone, removePiece
<1>11. QED
  BY <1>3, <1>4, <1>5, <1>7, <1>8, <1>9, <1>10

\* The block is on disk by the time put is called.
LEMMA DiskPutChunk ==
  ASSUME Typed, DiskInv, NEW p \in Peers, PutChunk(p)
  PROVE  DiskInv'
<1> DEFINE o == run[p].obj
           r == run[p].req
<1>1. /\ run[p] \in RunType /\ r \in Slots /\ o \in Objects /\ cached[o].index = r[1]
      /\ disk \in [Slots -> {"empty", "good", "bad"}] /\ cached[o].obtained \in SUBSET Bits
  BY DEF PutChunk, Typed, TypeOK, RunRefs, HeapType
<1>2. PICK d \in {"good", "bad"} : disk' = [disk EXCEPT ![r] = d]
  BY DEF PutChunk
<1>3. run' = [run EXCEPT ![p] = At(run[p], "put", cached[o].obtained)] /\ UNCHANGED cached
  BY DEF PutChunk
<1>4. \A i \in Pieces : \A b \in BlocksOf[i] :
        disk[<<i, b>>] # "empty" => disk'[<<i, b>>] # "empty"
  BY <1>1, <1>2, SlotFacts
<1>5. /\ run'[p].pc = "put" /\ run'[p].req = r /\ run'[p].snap = cached[o].obtained
      /\ \A q \in Peers : q # p => run'[q] = run[q]
  BY <1>1, <1>3, AtFacts DEF Typed, TypeOK, RunPCs
<1>6. ASSUME NEW u \in Objects, (cached[u].index # None)'
      PROVE  Written(cached[u].index, cached[u].obtained)'
  <2>1. cached[u].index \in Pieces
    BY <1>3, <1>6 DEF Typed, TypeOK, HeapType
  <2>2. Written(cached[u].index, cached[u].obtained)
    BY <1>3, <1>6 DEF DiskInv
  <2>3. QED
    BY <1>3, <1>4, <2>1, <2>2 DEF Written
<1>7. ASSUME NEW q \in Peers, (run[q].pc = "put")'
      PROVE  Written(run[q].req[1], run[q].snap \union {run[q].req[2]})'
  <2>1. CASE q = p
    <3>1. r[1] \in Pieces /\ r[2] \in BlocksOf[r[1]] /\ r = <<r[1], r[2]>>
      BY <1>1, SlotFacts
    <3>2. /\ cached[o].obtained \subseteq BlocksOf[r[1]]
          /\ \A b \in cached[o].obtained : disk'[<<r[1], b>>] # "empty"
      <4>1. Written(r[1], cached[o].obtained)
        BY <1>1, <3>1, NoneFacts DEF DiskInv
      <4>2. QED
        BY <1>4, <3>1, <4>1 DEF Written
    <3>3. disk'[<<r[1], r[2]>>] # "empty"
      BY <1>1, <1>2, <3>1
    <3>4. QED
      BY <1>3, <1>5, <2>1, <3>1, <3>2, <3>3 DEF Written
  <2>2. CASE q # p
    <3>1. run'[q] = run[q] /\ run[q].pc = "put" /\ run[q].req[1] \in Pieces
      BY <1>5, <1>7, <2>2, SlotFacts DEF Typed, RunRefs
    <3>2. Written(run[q].req[1], run[q].snap \union {run[q].req[2]})
      BY <3>1 DEF DiskInv
    <3>3. QED
      BY <1>4, <3>1, <3>2 DEF Written
  <2>3. QED
    BY <2>1, <2>2
<1>8. QED
  BY <1>6, <1>7 DEF DiskInv

\* What put stores is what it loaded, all of it written, and its own block.
LEMMA DiskSetObtained ==
  ASSUME Typed, DiskInv, NEW p \in Peers, SetObtained(p)
  PROVE  DiskInv'
<1> DEFINE o == run[p].obj
           S == run[p].snap \union {run[p].req[2]}
<1>1. /\ run[p] \in RunType /\ run \in [Peers -> RunType] /\ o \in Objects
      /\ cached[o].index = run[p].req[1] /\ cached \in HeapType
      /\ cached[o].pending \in SUBSET (Bits \union Pieces) /\ UNCHANGED disk
      /\ Written(run[p].req[1], S)
  BY DEF SetObtained, Typed, TypeOK, RunRefs, HeapType, DiskInv
<1>2. cached' = [cached EXCEPT ![o].obtained = S]
  BY DEF SetObtained
<1>3. run' = [run EXCEPT ![p] = At(run[p], "unset", cached[o].pending)]
  BY DEF SetObtained
<1> HIDE DEF S
<1>4. \A q \in Peers : run'[q].pc = "put" => run'[q] = run[q]
  <2>1. At(run[p], "unset", cached[o].pending).pc = "unset"
    BY <1>1, AtFacts DEF RunPCs
  <2>2. QED
    BY <1>1, <1>3, <2>1
<1>5. ASSUME NEW q \in Peers, (run[q].pc = "put")'
      PROVE  Written(run[q].req[1], run[q].snap \union {run[q].req[2]})'
  BY <1>1, <1>4, <1>5 DEF Written, DiskInv
<1>6. ASSUME NEW u \in Objects, (cached[u].index # None)'
      PROVE  Written(cached[u].index, cached[u].obtained)'
  <2>1. cached'[u].index = cached[u].index
    BY <1>1, <1>2 DEF HeapType
  <2>2. CASE u = o
    <3>1. cached'[o].obtained = S
      BY <1>1, <1>2 DEF HeapType
    <3>2. QED
      BY <1>1, <2>1, <2>2, <3>1 DEF Written
  <2>3. CASE u # o
    <3>1. cached'[u] = cached[u]
      BY <1>1, <1>2, <2>3 DEF HeapType
    <3>2. QED
      BY <1>1, <1>6, <3>1 DEF Written, DiskInv
  <2>4. QED
    BY <2>2, <2>3
<1>7. QED
  BY <1>5, <1>6 DEF DiskInv

\* DiskInv is inductive, next to Typed.
LEMMA DiskStep ==
  ASSUME Typed, DiskInv, [Next]_vars
  PROVE  DiskInv'
<1>1. CASE UNCHANGED vars
  BY <1>1 DEF vars, DiskInv, Written
<1>2. CASE TickStep \/ \E i \in Pieces : Age(i)
  BY <1>2, DiskTick
<1>3. ASSUME NEW p \in Peers, RunStep(p) \/ PutChunkFails(p) \/ ReadBackFails(p) PROVE DiskInv'
  BY <1>3, DiskMarks, DiskPutChunk, DiskSetObtained DEF RunStep
<1>4. ASSUME NEW p \in Peers,
             \/ Remotely(p) \/ ReceiveChoke(p) \/ doClose(p)
             \/ \E r \in outq[p] : WriteRequest(p, r)
      PROVE  DiskInv'
  BY <1>4, DiskRemote
<1>5. QED
  BY <1>1, <1>2, <1>3, <1>4 DEF Next, Fault

\* Whoever the peers are, a block that some cached piece calls obtained has been
\* written to disk: the stale pieces and the lost updates only forget blocks.
THEOREM ObtainedCorrect == Spec => []ObtainedOnDisk
<1>1. Init => DiskInv
  BY DEF Init, DiskInv, RunIdle, Freed, Fresh
<1>2. Typed /\ DiskInv /\ [Next]_vars => Typed' /\ DiskInv'
  BY DiskStep, TypedStep
<1>3. DiskInv => ObtainedOnDisk
  BY DEF DiskInv, ObtainedOnDisk, Written
<1>4. QED
  BY <1>1, <1>2, <1>3, TypedInit, PTL DEF Spec

-----------------------------------------------------------------------------
(* The expiry of a piece cancels it with every connection.                 *)

\* No connection opens again, and no list of requests grows, but by TickQueue.
LEMMA ListsShrink ==
  ASSUME Typed, [Next]_vars, ~TickQueue
  PROVE  \A q \in Peers : /\ open'[q] => open[q]
                          /\ \A s \in Slots : downloading'[q][s] <= downloading[q][s]
<1>1. open \in [Peers -> BOOLEAN] /\ downloading \in [Peers -> [Slots -> Nat]]
  BY DEF Typed, TypeOK
<1>2. CASE UNCHANGED <<open, downloading>>
  BY <1>1, <1>2
<1>3. ASSUME NEW p \in Peers, ReceiveChoke(p) \/ doClose(p)
      PROVE  \A q \in Peers : /\ open'[q] => open[q]
                              /\ \A s \in Slots : downloading'[q][s] <= downloading[q][s]
  BY <1>1, <1>3 DEF ReceiveChoke, doClose, NoRequests
<1>4. ASSUME NEW p \in Peers, NEW r \in Slots, UNCHANGED open,
             downloading' = [downloading EXCEPT ![p][r] = 0]
      PROVE  \A q \in Peers : /\ open'[q] => open[q]
                              /\ \A s \in Slots : downloading'[q][s] <= downloading[q][s]
  BY <1>1, <1>4
<1>5. ASSUME NEW p \in Peers, TickCancelPiece(p)
      PROVE  \A q \in Peers : /\ open'[q] => open[q]
                              /\ \A s \in Slots : downloading'[q][s] <= downloading[q][s]
  BY <1>1, <1>5 DEF TickCancelPiece
<1>6. ASSUME NEW p \in Peers, NEW r \in Slots, ReceivePiece(p, r) \/ WriteRequest(p, r)
      PROVE  \A q \in Peers : /\ open'[q] => open[q]
                              /\ \A s \in Slots : downloading'[q][s] <= downloading[q][s]
  <2>1. UNCHANGED open /\ (downloading' = downloading
                             \/ downloading' = [downloading EXCEPT ![p][r] = 0])
    BY <1>6 DEF ReceivePiece, WriteRequest
  <2>2. QED
    BY <1>2, <1>4, <2>1
<1>7. \A p \in Peers : outq[p] \subseteq Slots /\ wire[p] \subseteq Slots
  BY DEF Typed, TypeOK
<1>8. ASSUME NEW p \in Peers,
             RunStep(p) \/ PutChunkFails(p) \/ ReadBackFails(p) \/ ReceiveUnchoke(p)
      PROVE  UNCHANGED <<open, downloading>>
  BY <1>8 DEF RunStep, PutChunkFails, ReadBackFails, ReceiveUnchoke, CancelLoad, CancelStore, VisitData,
     PutChunk, SetObtained, UnsetPending, CheckDone, ReadBack, SetHave, BroadcastHave,
     removePiece, connVars
<1>9. ASSUME \/ TickStep /\ ~(\E p \in Peers : TickCancelPiece(p))
             \/ \E i \in Pieces : Age(i)
             \/ UNCHANGED vars
      PROVE  UNCHANGED <<open, downloading>>
  BY <1>9 DEF TickStep, TickStart, TickExpire, TickZero, TickVisitPeers, TickDownload,
     TickVisitLast, TickPick, TickVisit, TickLoad, TickStore, TickEnd, Age, connVars, vars
<1>10. QED
  BY <1>2, <1>3, <1>5, <1>6, <1>7, <1>8, <1>9 DEF Next, Remotely, Fault, TickStep

\* While a piece is being cancelled, what changes is the list of the connection
\* whose turn it is, which is left without a request for the piece.
LEMMA ExpiryStep ==
  ASSUME Typed, ExpiryCancelsAll, [Next]_vars
  PROVE  ExpiryCancelsAll'
<1>1. /\ tick \in TickType /\ downloading \in [Peers -> [Slots -> Nat]]
      /\ open \in [Peers -> BOOLEAN]
  BY DEF Typed, TypeOK
<1>2. CASE tick' = tick
  <2>1. CASE TickQueue
    <3>1. tick'.pc = "download"
      BY <2>1, TickRecords DEF TickQueue, Typed
    <3>2. QED
      BY <3>1 DEF ExpiryCancelsAll
  <2>2. CASE ~TickQueue
    <3>1. downloading' \in [Peers -> [Slots -> Nat]]
      BY TypedStep DEF Typed, TypeOK
    <3>2. \A q \in Peers, s \in Slots : downloading'[q][s] > 0 => downloading[q][s] > 0
      BY <1>1, <2>2, <3>1, ListsShrink
    <3>3. QED
      BY <1>2, <2>2, <3>2, ListsShrink DEF ExpiryCancelsAll, Listed
  <2>3. QED
    BY <2>1, <2>2
<1>3. CASE tick' # tick
  <2>1. TickStep
    <3>1. ASSUME NEW p \in Peers,
                 \/ RunStep(p) \/ Remotely(p) \/ Fault(p) \/ \E r \in outq[p] : WriteRequest(p, r)
          PROVE  UNCHANGED tick
      BY <3>1 DEF RunStep, Remotely, Fault, WriteRequest, ReceivePiece, ReceiveUnchoke,
         ReceiveChoke, doClose, PutChunkFails, ReadBackFails, CancelLoad, CancelStore,
         VisitData, PutChunk, SetObtained, UnsetPending, CheckDone, ReadBack, SetHave, BroadcastHave, removePiece
    <3>2. ASSUME \/ \E i \in Pieces : Age(i)
                 \/ UNCHANGED vars
          PROVE  UNCHANGED tick
      BY <3>2 DEF Age, vars
    <3>3. QED
      BY <1>3, <3>1, <3>2 DEF Next
  <2>2. ASSUME NEW i \in Pieces, TickExpire(i) PROVE ExpiryCancelsAll'
    <3>1. UNCHANGED open
      BY <2>2 DEF TickExpire, connVars
    <3>2. tick'.pc = "expire" \/ tick'.peers = {p \in Peers : open[p]}
      <4>1. \/ \E o, K : tick' = [tick EXCEPT !.pc = "cancel", !.keys = K, !.obj = o,
                                              !.idx = i, !.peers = {p \in Peers : open[p]}]
            \/ \E K : tick' = [tick EXCEPT !.keys = K]
        BY <2>2 DEF TickExpire
      <4>2. tick.pc = "expire"
        BY <2>2 DEF TickExpire
      <4>3. QED
        BY <1>1, <4>1, <4>2 DEF TickType
    <3>3. QED
      BY <1>1, <3>1, <3>2 DEF ExpiryCancelsAll
  <2>3. ASSUME NEW p \in Peers, TickCancelPiece(p) PROVE ExpiryCancelsAll'
    <3>1. /\ tick'.pc = "cancel" /\ tick'.idx = tick.idx /\ tick'.peers = tick.peers \ {p}
      <4>1. tick.pc = "cancel" /\ tick' = [tick EXCEPT !.peers = @ \ {p}]
        BY <2>3 DEF TickCancelPiece
      <4>2. QED
        BY <1>1, <4>1 DEF TickType
    <3>2. /\ \A s \in Slots : s[1] = tick.idx => downloading'[p][s] = 0
          /\ \A q \in Peers : q # p => downloading'[q] = downloading[q]
          /\ UNCHANGED open /\ tick.pc = "cancel"
      BY <1>1, <2>3 DEF TickCancelPiece
    <3>3. QED
      BY <3>1, <3>2 DEF ExpiryCancelsAll, Listed
  <2>4. ASSUME \/ TickStart \/ TickZero \/ TickVisitPeers \/ TickVisitLast \/ TickPick
               \/ TickVisit \/ TickLoad \/ TickStore \/ TickQueue \/ TickEnd
               \/ \E p \in Peers : TickDownload(p)
        PROVE  ExpiryCancelsAll'
    <3>1. tick'.pc # "cancel"
      <4>1. ASSUME TickStart \/ TickVisitPeers \/ TickQueue \/ TickEnd PROVE tick'.pc # "cancel"
        <5>1. ASSUME TickStart PROVE tick'.pc # "cancel"
          <6>1. tick' = [TickIdle EXCEPT !.pc = "expire",
                                         !.keys = {i \in Pieces : requests[i] # None}]
            BY <1>3, <5>1 DEF TickStart
          <6>2. QED
            BY <6>1, IdleTypes DEF TickType
        <5>2. ASSUME TickVisitPeers PROVE tick'.pc # "cancel"
          BY <5>2, IdleTypes DEF TickVisitPeers, TickType
        <5>3. ASSUME TickQueue PROVE tick'.pc # "cancel"
          BY <5>3, TickRecords DEF TickQueue, Typed
        <5>4. ASSUME TickEnd PROVE tick'.pc # "cancel"
          BY <5>4 DEF TickEnd, TickIdle
        <5>5. QED
          BY <4>1, <5>1, <5>2, <5>3, <5>4
      <4>2. ASSUME \/ TickZero \/ TickVisitLast \/ TickPick \/ TickVisit \/ TickLoad
                   \/ TickStore
            PROVE  tick'.pc # "cancel"
        <5>1. ASSUME TickZero PROVE tick'.pc # "cancel"
          BY <1>1, <5>1 DEF TickZero, TickType
        <5>2. ASSUME TickVisitLast \/ TickVisit PROVE tick'.pc # "cancel"
          BY <1>1, <5>2 DEF TickVisitLast, TickVisit, TickType
        <5>3. ASSUME TickPick PROVE tick'.pc # "cancel"
          BY <1>1, <5>3, TickRecords DEF TickPick, TickType, Typed
        <5>4. ASSUME TickLoad PROVE tick'.pc # "cancel"
          BY <1>1, <5>4, TickRecords DEF TickLoad, TickType, Typed
        <5>5. ASSUME TickStore PROVE tick'.pc # "cancel"
          BY <1>1, <5>5 DEF TickStore, TickType
        <5>6. QED
          BY <4>2, <5>1, <5>2, <5>3, <5>4, <5>5
      <4>3. ASSUME NEW p \in Peers, TickDownload(p) PROVE tick'.pc # "cancel"
        BY <1>1, <4>3 DEF TickDownload, TickType
      <4>4. QED
        BY <2>4, <4>1, <4>2, <4>3
    <3>2. QED
      BY <3>1 DEF ExpiryCancelsAll
  <2>5. QED
    BY <2>1, <2>2, <2>3, <2>4 DEF TickStep
<1>4. QED
  BY <1>2, <1>3

\* When an expired piece's blocks are freed, no open connection that has been
\* told still counts one of them as on request.
THEOREM ExpiryCorrect == Spec => []ExpiryCancelsAll
<1>1. Init => ExpiryCancelsAll
  BY DEF Init, ExpiryCancelsAll, TickIdle
<1>2. Typed /\ ExpiryCancelsAll /\ [Next]_vars => Typed' /\ ExpiryCancelsAll'
  BY ExpiryStep, TypedStep
<1>3. QED
  BY <1>1, <1>2, TypedInit, PTL DEF Spec
-----------------------------------------------------------------------------
(* The limit of requests.                                                  *)

\* A bag of requests as a set.
AsSet(bag) == UNION {{s} \X (1..bag[s]) : s \in Slots}

Outstanding(p) == AsSet(downloading[p])

\* where the tick goroutine goes on to ask tick.peer for a block
Asking == {"last", "loadlast", "pick", "visit", "load", "store", "queue"}

LimitInv ==
  \A p \in Peers :
    /\ IsFiniteSet(Outstanding(p)) /\ numDownloading(p) <= MaxParallel
    /\ tick.pc \in Asking /\ tick.peer = p => numDownloading(p) < MaxParallel

LEMMA AsSetFacts ==
  ASSUME NEW bag, NEW x
  PROVE  x \in AsSet(bag) <=> \E s \in Slots : \E k \in 1..bag[s] : x = <<s, k>>
<1>1. x \in AsSet(bag) <=> \E s \in Slots : x \in {s} \X (1..bag[s])
  BY DEF AsSet
<1>2. \A s \in Slots : x \in {s} \X (1..bag[s]) <=> \E k \in 1..bag[s] : x = <<s, k>>
  OBVIOUS
<1>3. QED
  BY <1>1, <1>2

LEMMA Length == \A p \in Peers : numDownloading(p) = Cardinality(Outstanding(p))
BY DEF numDownloading, Outstanding, AsSet

\* A list that grows in no request is no longer than before.
LEMMA NoLonger ==
  ASSUME NEW old \in [Slots -> Nat], NEW new \in [Slots -> Nat], IsFiniteSet(AsSet(old)),
         \A s \in Slots : new[s] <= old[s]
  PROVE  IsFiniteSet(AsSet(new)) /\ Cardinality(AsSet(new)) <= Cardinality(AsSet(old))
<1>1. \A s \in Slots : \A k \in 1..new[s] : k \in 1..old[s]
  OBVIOUS
<1>2. AsSet(new) \in SUBSET AsSet(old)
  BY <1>1, AsSetFacts
<1>3. QED
  BY <1>2, FS_Subset

\* A list with one request more is longer by one.
LEMMA OneLonger ==
  ASSUME NEW old \in [Slots -> Nat], NEW r \in Slots, IsFiniteSet(AsSet(old))
  PROVE  LET new == [old EXCEPT ![r] = @ + 1] IN
           IsFiniteSet(AsSet(new)) /\ Cardinality(AsSet(new)) <= Cardinality(AsSet(old)) + 1
<1> DEFINE new == [old EXCEPT ![r] = @ + 1]
           n == old[r] + 1
<1>1. \A s \in Slots : new[s] = IF s = r THEN n ELSE old[s]
  OBVIOUS
<1>2. \A s \in Slots : \A k : k \in 1..new[s] => k \in 1..old[s] \/ (s = r /\ k = n)
  BY <1>1
<1> HIDE DEF new, n
<1>3. AsSet(new) \in SUBSET (AsSet(old) \union {<<r, n>>})
  BY <1>2, AsSetFacts
<1>4. /\ IsFiniteSet(AsSet(old) \union {<<r, n>>})
      /\ Cardinality(AsSet(old) \union {<<r, n>>}) <= Cardinality(AsSet(old)) + 1
  <2>1. Cardinality(AsSet(old)) \in Nat
    BY FS_CardinalityType
  <2>2. /\ IsFiniteSet(AsSet(old) \union {<<r, n>>})
        /\ \/ Cardinality(AsSet(old) \union {<<r, n>>}) = Cardinality(AsSet(old))
           \/ Cardinality(AsSet(old) \union {<<r, n>>}) = Cardinality(AsSet(old)) + 1
    BY FS_AddElement
  <2>3. QED
    BY <2>1, <2>2
<1>5. /\ IsFiniteSet(AsSet(new))
      /\ Cardinality(AsSet(new)) <= Cardinality(AsSet(old) \union {<<r, n>>})
  BY <1>3, <1>4, FS_Subset
<1>6. /\ Cardinality(AsSet(new)) \in Nat /\ Cardinality(AsSet(old)) \in Nat
      /\ Cardinality(AsSet(old) \union {<<r, n>>}) \in Nat
  BY <1>4, <1>5, FS_CardinalityType
<1>7. QED
  BY <1>4, <1>5, <1>6 DEF new

\* queueDownload adds one request to one list.
LEMMA OneMore ==
  ASSUME Typed, LimitInv, TickQueue
  PROVE  LimitInv'
<1>1. /\ tick.peer \in Peers /\ <<tick.idx, tick.block>> \in Slots /\ tick'.pc = "download"
      /\ downloading \in [Peers -> [Slots -> Nat]] /\ tick.pc = "queue"
  BY TickRecords, SlotFacts DEF TickQueue, Typed, TypeOK, TickRefs
<1>2. PICK q \in Peers, r \in Slots : q = tick.peer /\ r = <<tick.idx, tick.block>>
  BY <1>1
<1> DEFINE new == [downloading[q] EXCEPT ![r] = @ + 1]
<1>3. downloading' = [downloading EXCEPT ![q] = new]
  <2>1. downloading' = [downloading EXCEPT ![tick.peer][<<tick.idx, tick.block>>] = @ + 1]
    BY DEF TickQueue
  <2>2. downloading' = [downloading EXCEPT ![q][r] = @ + 1]
    BY <1>2, <2>1
  <2>3. QED
    BY <2>2
<1>4. IsFiniteSet(AsSet(downloading[q])) /\ Cardinality(AsSet(downloading[q])) < MaxParallel
  BY <1>1, <1>2, Length DEF LimitInv, Asking, Outstanding
<1>5. IsFiniteSet(AsSet(new)) /\ Cardinality(AsSet(new)) <= MaxParallel
  <2>1. downloading[q] \in [Slots -> Nat]
    BY <1>1
  <2>2. IsFiniteSet(AsSet(new)) /\ Cardinality(AsSet(new)) <= Cardinality(AsSet(downloading[q])) + 1
    BY <1>4, <2>1, OneLonger
  <2>3. Cardinality(AsSet(new)) \in Nat /\ Cardinality(AsSet(downloading[q])) \in Nat
    BY <1>4, <2>2, FS_CardinalityType
  <2>4. QED
    BY <1>4, <2>2, <2>3, BoundsAssumption
<1> HIDE DEF new
<1>6. \A p \in Peers : downloading'[p] = IF p = q THEN new ELSE downloading[p]
  BY <1>1, <1>3
<1>7. \A p \in Peers : /\ IsFiniteSet(AsSet(downloading'[p]))
                       /\ Cardinality(AsSet(downloading'[p])) <= MaxParallel
  BY <1>5, <1>6, Length DEF LimitInv, Outstanding
<1>8. QED
  BY <1>1, <1>7 DEF LimitInv, Asking, numDownloading, Outstanding, AsSet

\* Only tickDownload decides whom to ask.
LEMMA WhoIsAsked ==
  ASSUME Typed, [Next]_vars, tick'.pc \in Asking
  PROVE  \/ tick.pc \in Asking /\ tick'.peer = tick.peer
         \/ \E p \in Peers : /\ tick'.peer = p /\ UNCHANGED downloading
                             /\ ~(numDownloading(p) >= MaxParallel)
<1>0. tick \in TickType
  BY DEF Typed, TypeOK
<1>1. CASE tick' = tick
  BY <1>1
<1>2. ASSUME NEW p \in Peers, TickDownload(p)
      PROVE  \/ tick'.pc = "download"
             \/ /\ tick'.peer = p /\ UNCHANGED downloading
                /\ ~(numDownloading(p) >= MaxParallel)
  <2>1. \/ tick' = [tick EXCEPT !.peers = @ \ {p}]
        \/ /\ ~(numDownloading(p) >= MaxParallel)
           /\ \E c : tick' = [tick EXCEPT !.pc = c, !.peer = p]
    BY <1>2 DEF TickDownload
  <2>2. tick.pc = "download" /\ UNCHANGED downloading
    BY <1>2 DEF TickDownload, connVars
  <2>3. QED
    BY <1>0, <2>1, <2>2 DEF TickType
<1>3. ASSUME TickVisitLast \/ TickVisit \/ TickStore
      PROVE  tick.pc \in Asking /\ tick'.peer = tick.peer
  BY <1>0, <1>3 DEF TickVisitLast, TickVisit, TickStore, TickType, Asking
<1>4. ASSUME TickPick PROVE tick'.pc = "download" \/ (tick.pc \in Asking /\ tick'.peer = tick.peer)
  <2>1. tick' = NextPeer \/ \E i : tick' = [tick EXCEPT !.pc = "visit", !.idx = i]
    BY <1>4 DEF TickPick
  <2>2. tick.pc = "pick"
    BY <1>4 DEF TickPick
  <2>3. QED
    BY <1>0, <2>1, <2>2, TickRecords DEF TickType, Asking, Typed
<1>5. ASSUME TickLoad PROVE tick'.pc = "download" \/ (tick.pc \in Asking /\ tick'.peer = tick.peer)
  <2>1. \/ tick' = NextPeer
        \/ tick' = [tick EXCEPT !.pc = "pick", !.obj = None, !.idx = None]
        \/ \E b, S : tick' = [tick EXCEPT !.pc = "store", !.block = b, !.snap = S]
    BY <1>5 DEF TickLoad
  <2>2. tick.pc \in Asking
    BY <1>5 DEF TickLoad, Asking
  <2>3. QED
    BY <1>0, <2>1, <2>2, TickRecords DEF TickType, Typed
<1>6. ASSUME TickStart \/ TickVisitPeers \/ TickQueue \/ TickEnd \/ TickZero
      PROVE  tick'.pc \notin Asking \/ tick' = tick
  <2>1. ASSUME TickStart, tick' # tick PROVE tick'.pc = "expire"
    <3>1. tick' = [TickIdle EXCEPT !.pc = "expire", !.keys = {i \in Pieces : requests[i] # None}]
      BY <2>1 DEF TickStart
    <3>2. QED
      BY <3>1, IdleTypes DEF TickType
  <2>2. ASSUME TickVisitPeers PROVE tick'.pc = "download"
    BY <2>2, IdleTypes DEF TickVisitPeers, TickType
  <2>3. ASSUME TickQueue PROVE tick'.pc = "download"
    BY <2>3, TickRecords DEF TickQueue, Typed
  <2>4. ASSUME TickEnd PROVE tick'.pc = "idle"
    BY <2>4 DEF TickEnd, TickIdle
  <2>5. ASSUME TickZero PROVE tick'.pc = "expire"
    BY <1>0, <2>5 DEF TickZero, TickType
  <2>6. QED
    BY <1>6, <2>1, <2>2, <2>3, <2>4, <2>5 DEF Asking
<1>7. ASSUME NEW i \in Pieces, TickExpire(i) PROVE tick'.pc \notin Asking
  <2>1. \/ \E o, K : tick' = [tick EXCEPT !.pc = "cancel", !.keys = K, !.obj = o,
                                          !.idx = i, !.peers = {p \in Peers : open[p]}]
        \/ \E K : tick' = [tick EXCEPT !.keys = K]
    BY <1>7 DEF TickExpire
  <2>2. tick.pc = "expire"
    BY <1>7 DEF TickExpire
  <2>3. QED
    BY <1>0, <2>1, <2>2 DEF TickType, Asking
<1>8. ASSUME NEW p \in Peers, TickCancelPiece(p) PROVE tick'.pc \notin Asking
  <2>1. tick.pc = "cancel" /\ tick' = [tick EXCEPT !.peers = @ \ {p}]
    BY <1>8 DEF TickCancelPiece
  <2>2. QED
    BY <1>0, <2>1 DEF TickType, Asking
<1>9. ASSUME NEW p \in Peers,
             \/ RunStep(p) \/ Remotely(p) \/ Fault(p) \/ \E r \in outq[p] : WriteRequest(p, r)
      PROVE  tick' = tick
  BY <1>9 DEF RunStep, Remotely, Fault, WriteRequest, ReceivePiece, ReceiveUnchoke,
     ReceiveChoke, doClose, PutChunkFails, ReadBackFails, CancelLoad, CancelStore,
     VisitData, PutChunk, SetObtained, UnsetPending, CheckDone, ReadBack, SetHave,
     BroadcastHave, removePiece
<1>10. (\E i \in Pieces : Age(i)) \/ UNCHANGED vars => tick' = tick
  BY DEF Age, vars
<1>11. TickStep => \/ tick' = tick
                   \/ tick.pc \in Asking /\ tick'.peer = tick.peer
                   \/ \E p \in Peers : /\ tick'.peer = p /\ UNCHANGED downloading
                                       /\ ~(numDownloading(p) >= MaxParallel)
  <2>1. tick'.pc # "download"
    BY DEF Asking
  <2>2. QED
    BY <2>1, <1>2, <1>3, <1>4, <1>5, <1>6, <1>7, <1>8 DEF TickStep
<1>12. QED
  BY <1>1, <1>9, <1>10, <1>11 DEF Next

LEMMA LimitStep ==
  ASSUME Typed, LimitInv, [Next]_vars
  PROVE  LimitInv'
<1>1. CASE TickQueue
  BY <1>1, OneMore
<1>2. CASE ~TickQueue
  <2>0. Typed'
    BY TypedStep
  <2>1. ASSUME NEW p \in Peers
        PROVE  /\ IsFiniteSet(Outstanding(p))' /\ numDownloading(p)' <= numDownloading(p)
               /\ numDownloading(p)' \in Nat /\ numDownloading(p) \in Nat
               /\ numDownloading(p)' <= MaxParallel
    <3>1. IsFiniteSet(AsSet(downloading[p])) /\ Cardinality(AsSet(downloading[p])) <= MaxParallel
      BY Length DEF LimitInv, Outstanding
    <3>2. downloading[p] \in [Slots -> Nat] /\ downloading'[p] \in [Slots -> Nat]
      BY <2>0 DEF Typed, TypeOK
    <3>3. /\ IsFiniteSet(AsSet(downloading'[p]))
          /\ Cardinality(AsSet(downloading'[p])) <= Cardinality(AsSet(downloading[p]))
      BY <1>2, <3>1, <3>2, ListsShrink, NoLonger
    <3>4. /\ Cardinality(AsSet(downloading[p])) \in Nat
          /\ Cardinality(AsSet(downloading'[p])) \in Nat
      BY <3>1, <3>3, FS_CardinalityType
    <3>5. /\ numDownloading(p) = Cardinality(AsSet(downloading[p]))
          /\ numDownloading(p)' = Cardinality(AsSet(downloading'[p]))
      BY DEF numDownloading, AsSet
    <3>6. QED
      BY <3>1, <3>3, <3>4, <3>5, BoundsAssumption DEF Outstanding
  <2>2. ASSUME NEW p \in Peers, tick'.pc \in Asking, tick'.peer = p
        PROVE  numDownloading(p)' < MaxParallel
    <3>1. numDownloading(p) < MaxParallel
      <4>1. CASE tick.pc \in Asking /\ tick'.peer = tick.peer
        BY <2>2, <4>1 DEF LimitInv
      <4>2. CASE ~(numDownloading(p) >= MaxParallel)
        BY <2>1, <4>2, BoundsAssumption
      <4>3. QED
        BY <2>2, <4>1, <4>2, WhoIsAsked
    <3>2. QED
      BY <2>1, <3>1, BoundsAssumption
  <2>3. QED
    BY <2>1, <2>2 DEF LimitInv
<1>3. QED
  BY <1>1, <1>2

\* No connection ever has more blocks on request than MaxParalellRequests, for any
\* limit and any number of connections, although the number is looked at and the
\* request added under two separate holds of the connection's lock (peer.go:
\* tickDownload, queueDownload): only the tick goroutine adds, and whatever comes
\* between makes the list shorter.
THEOREM RequestCorrect == Spec => []RequestLimit
<1>1. Init => LimitInv
  <2> SUFFICES ASSUME Init, NEW p \in Peers
               PROVE  /\ IsFiniteSet(Outstanding(p)) /\ numDownloading(p) <= MaxParallel
                      /\ tick.pc \notin Asking
    BY DEF LimitInv
  <2>1. \A s \in Slots : downloading[p][s] = 0
    BY DEF Init, NoRequests
  <2>2. \A s \in Slots : 1..downloading[p][s] = {}
    BY <2>1
  <2>3. Outstanding(p) = {}
    BY <2>2, AsSetFacts DEF Outstanding
  <2>4. tick.pc = "idle"
    BY DEF Init, TickIdle
  <2>5. QED
    BY <2>3, <2>4, FS_EmptySet, Length, BoundsAssumption DEF Asking
<1>2. LimitInv => RequestLimit
  BY DEF LimitInv, RequestLimit
<1>3. Typed /\ LimitInv /\ [Next]_vars => Typed' /\ LimitInv'
  BY LimitStep, TypedStep
<1>4. QED
  BY <1>1, <1>2, <1>3, TypedInit, PTL DEF Spec

-----------------------------------------------------------------------------
(* With one connection, a bit is set only for a piece that is good then.   *)

\* What the only connection has loaded of the bitfield is still in it, and a
\* piece it found good is good until its bit is stored.
OwnInv ==
  \A p \in Peers :
    /\ run[p].pc \in {"have", "havenot"} => run[p].snap = bf
    /\ run[p].pc = "have" => GoodOnDisk(run[p].req[1])

\* Wherever the only run loop goes, except to storing a bit, nothing is promised.
LEMMA OwnElsewhere ==
  ASSUME Typed, \A p, q \in Peers : p = q, NEW p \in Peers, NEW x,
         run' = [run EXCEPT ![p] = x], x.pc \notin {"have", "havenot"}
  PROVE  OwnInv'
BY DEF Typed, TypeOK, OwnInv

LEMMA OwnFrame ==
  ASSUME OwnInv, UNCHANGED <<disk, bf, run>>
  PROVE  OwnInv'
BY DEF OwnInv, GoodOnDisk

\* Messages, and the steps before and after the bit.
LEMMA OwnMarks ==
  ASSUME Typed, OwnInv, \A p, q \in Peers : p = q, NEW p \in Peers,
         \/ CancelLoad(p) \/ CancelStore(p) \/ VisitData(p) \/ PutChunk(p) \/ PutChunkFails(p)
         \/ SetObtained(p) \/ UnsetPending(p) \/ CheckDone(p) \/ ReadBackFails(p)
         \/ SetHave(p) \/ BroadcastHave(p) \/ removePiece(p)
  PROVE  OwnInv'
<1>1. run[p] \in RunType
  BY DEF Typed, TypeOK
<1>2. ASSUME CancelLoad(p) PROVE OwnInv'
  <2>1. PICK r, o, S :
          run' = [run EXCEPT ![p] = [run[p] EXCEPT !.pc = "uncancel", !.req = r, !.obj = o,
                                                   !.snap = S]]
    BY <1>2 DEF CancelLoad
  <2> DEFINE x == [run[p] EXCEPT !.pc = "uncancel", !.req = r, !.obj = o, !.snap = S]
  <2>2. x.pc = "uncancel"
    BY <1>1 DEF RunType
  <2>3. run' = [run EXCEPT ![p] = x]
    BY <2>1
  <2> HIDE DEF x
  <2>4. QED
    BY <2>2, <2>3, OwnElsewhere
<1>3. ASSUME CancelStore(p) PROVE OwnInv'
  <2>1. Cancelling(run[p].todo \ {run[p].req}).pc \in {"idle", "cancel"}
    BY <1>1, RunRecords DEF RunType, Typed
  <2>2. QED
    BY <1>3, <2>1, OwnElsewhere DEF CancelStore
<1>4. ASSUME VisitData(p) PROVE OwnInv'
  <2> DEFINE x == [run[p] EXCEPT !.pc = "write", !.obj = Found(run[p].req[1])]
  <2>1. x.pc = "write"
    BY <1>1 DEF RunType
  <2>2. run' = [run EXCEPT ![p] = x]
    BY <1>4 DEF VisitData
  <2> HIDE DEF x
  <2>3. QED
    BY <2>1, <2>2, OwnElsewhere
<1>5. ASSUME NEW c \in {"put", "unset", "done", "verify", "broadcast", "remove"}, NEW S,
             run' = [run EXCEPT ![p] = At(run[p], c, S)]
      PROVE  OwnInv'
  <2>1. At(run[p], c, S).pc = c
    BY <1>1 DEF At, RunType
  <2>2. QED
    BY <1>5, <2>1, OwnElsewhere
<1>6. ASSUME \/ PutChunk(p) \/ PutChunkFails(p) \/ SetObtained(p) \/ UnsetPending(p)
             \/ BroadcastHave(p) \/ ReadBackFails(p) \/ SetHave(p)
      PROVE  OwnInv'
  BY <1>5, <1>6 DEF PutChunk, PutChunkFails, SetObtained, UnsetPending, BroadcastHave,
                    ReadBackFails, SetHave
<1>7. ASSUME run[p].pc \in {"done", "remove"}, run' = [run EXCEPT ![p] = Handled(p)]
      PROVE  OwnInv'
  <2>1. run[p].req \in Slots
    BY <1>7 DEF Typed, RunRefs
  <2>2. Handled(p).pc \in {"idle", "visit"}
    BY <2>1, RunRecords DEF Typed
  <2>3. QED
    BY <1>7, <2>2, OwnElsewhere
<1>8. ASSUME CheckDone(p) \/ removePiece(p) PROVE OwnInv'
  BY <1>5, <1>7, <1>8 DEF CheckDone, removePiece
<1>9. QED
  BY <1>2, <1>3, <1>4, <1>6, <1>8

LEMMA OwnRemote ==
  ASSUME Typed, OwnInv, \A p, q \in Peers : p = q, NEW p \in Peers,
         Remotely(p) \/ ReceiveChoke(p) \/ doClose(p) \/ \E r \in outq[p] : WriteRequest(p, r)
  PROVE  OwnInv'
<1>1. ASSUME NEW r \in wire[p], ReceivePiece(p, r) PROVE OwnInv'
  <2>1. CASE run' = run
    BY <1>1, <2>1, OwnFrame DEF ReceivePiece
  <2>2. CASE run' # run
    <3>1. PICK x, g : /\ run' = [run EXCEPT ![p] = x]
                      /\ x = [RunIdle EXCEPT !.pc = "visit", !.req = r, !.good = g,
                                             !.left = downloading[p][r]]
      BY <1>1, <2>2 DEF ReceivePiece
    <3>2. x.pc = "visit"
      BY <3>1, IdleTypes DEF RunType
    <3>3. QED
      BY <3>1, <3>2, OwnElsewhere
  <2>3. QED
    BY <2>1, <2>2
<1>2. ASSUME NEW todo \in SUBSET Slots, run' = [run EXCEPT ![p] = Cancelling(todo)] PROVE OwnInv'
  <2>1. Cancelling(todo).pc \in {"idle", "cancel"}
    BY RunRecords DEF Typed
  <2>2. QED
    BY <1>2, <2>1, OwnElsewhere
<1>3. ASSUME ReceiveChoke(p) \/ doClose(p) PROVE OwnInv'
  BY <1>2, <1>3 DEF ReceiveChoke, doClose, Listed
<1>4. ASSUME ReceiveUnchoke(p) PROVE OwnInv'
  BY <1>4, OwnFrame DEF ReceiveUnchoke
<1>5. ASSUME NEW r \in outq[p], WriteRequest(p, r) PROVE OwnInv'
  BY <1>2, <1>5, OwnFrame DEF WriteRequest, Listed
<1>6. QED
  BY <1>1, <1>3, <1>4, <1>5 DEF Remotely

LEMMA OwnReadBack ==
  ASSUME Typed, OwnInv, \A p, q \in Peers : p = q, NEW p \in Peers, ReadBack(p)
  PROVE  OwnInv'
<1> DEFINE c == IF GoodOnDisk(run[p].req[1]) THEN "have" ELSE "havenot"
<1>1. /\ run[p] \in RunType /\ bf \in SUBSET (Bits \union Pieces) /\ c \in RunPCs
      /\ c = "have" => GoodOnDisk(run[p].req[1])
  BY DEF ReadBack, Typed, TypeOK, RunPCs
<1>2. UNCHANGED <<disk, bf>> /\ run' = [run EXCEPT ![p] = At(run[p], c, bf)]
  BY DEF ReadBack
<1> HIDE DEF c
<1>3. At(run[p], c, bf).pc = c /\ At(run[p], c, bf).snap = bf /\ At(run[p], c, bf).req = run[p].req
  BY <1>1, AtFacts
<1>4. run'[p].pc = c /\ run'[p].snap = bf /\ run'[p].req = run[p].req
  BY <1>2, <1>3 DEF Typed, TypeOK
<1>5. QED
  BY <1>1, <1>2, <1>4 DEF OwnInv, GoodOnDisk

LEMMA OwnStep ==
  ASSUME Typed, OwnInv, \A p, q \in Peers : p = q, [Next]_vars
  PROVE  OwnInv'
<1>1. CASE UNCHANGED vars
  BY <1>1, OwnFrame DEF vars
<1>2. CASE TickStep \/ \E i \in Pieces : Age(i)
  BY <1>2, HaveTick, OwnFrame
<1>3. ASSUME NEW p \in Peers, RunStep(p) \/ PutChunkFails(p) \/ ReadBackFails(p) PROVE OwnInv'
  BY <1>3, OwnMarks, OwnReadBack DEF RunStep
<1>4. ASSUME NEW p \in Peers,
             \/ Remotely(p) \/ ReceiveChoke(p) \/ doClose(p)
             \/ \E r \in outq[p] : WriteRequest(p, r)
      PROVE  OwnInv'
  BY <1>4, OwnRemote
<1>5. QED
  BY <1>1, <1>2, <1>3, <1>4 DEF Next, Fault

\* Only storing a bit changes the bitfield.
LEMMA OnlySetHaveSets ==
  ASSUME Next, bf' # bf
  PROVE  \E p \in Peers : SetHave(p)
<1>1. ASSUME NEW p \in Peers, RunStep(p), ~SetHave(p) PROVE bf' = bf
  BY <1>1 DEF RunStep, CancelLoad, CancelStore, VisitData, PutChunk, SetObtained, UnsetPending,
              CheckDone, ReadBack, BroadcastHave, removePiece
<1>2. ASSUME NEW p \in Peers, Remotely(p) \/ Fault(p) \/ \E r \in outq[p] : WriteRequest(p, r)
      PROVE  bf' = bf
  BY <1>2 DEF Remotely, ReceivePiece, ReceiveUnchoke, Fault, ReceiveChoke, doClose, PutChunkFails,
              ReadBackFails, WriteRequest
<1>3. QED
  BY <1>1, <1>2, HaveTick DEF Next

\* With a single connection a bit is set only for a piece whose data is good at
\* that moment, whatever the peer sends and however its answers and the disk's
\* failures mix (fs.go: VerifyPiece); two connections do not have this.
THEOREM VerifiedCorrect ==
  ASSUME \A p, q \in Peers : p = q
  PROVE  Spec => VerifiedWhenSet
<1>1. Init => OwnInv
  BY DEF Init, OwnInv, RunIdle
<1>2. Typed /\ OwnInv /\ [Next]_vars => Typed' /\ OwnInv'
  BY OwnStep, TypedStep
<1>3. OwnInv /\ [Next]_vars => [\A i \in bf' \ bf : GoodOnDisk(i)]_bf
  <2> SUFFICES ASSUME OwnInv, Next, bf' # bf, NEW i \in bf' \ bf PROVE GoodOnDisk(i)
    BY DEF vars
  <2>1. PICK p \in Peers : SetHave(p)
    BY OnlySetHaveSets
  <2>2. i = run[p].req[1] /\ run[p].pc = "have"
    BY <2>1 DEF SetHave, OwnInv
  <2>3. QED
    BY <2>2 DEF OwnInv
<1>4. QED
  BY <1>1, <1>2, <1>3, TypedInit, PTL DEF Spec, VerifiedWhenSet

=============================================================================
