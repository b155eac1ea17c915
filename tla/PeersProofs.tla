---------------------------- MODULE PeersProofs ----------------------------
(***************************************************************************)
(* Safety of the metadata exchange for any number of peers and slices, on  *)
(* the module that sets it beside the table of connections: M!X is what    *)
(* Metadata defines as X.                                                  *)
(***************************************************************************)
EXTENDS MCPeers, ConnectionsProofs, WellFoundedInduction

-----------------------------------------------------------------------------
(* Types.                                                                  *)

TaskType == [pc : {"idle", "set", "copy", "hash", "write", "ask"}, i : M!Bits,
             data : {"good", "bad"}]

LEMMA BitsFacts ==
    /\ M!Real \subseteq M!Bits /\ M!Bits \subseteq Nat /\ 0 \in M!Bits
    /\ M!Idle \in TaskType
BY PeersAssumption DEF M!Real, M!Bits, M!Idle, TaskType

LEMMA LowestFacts ==
    ASSUME NEW S \in SUBSET Nat, S # {}
    PROVE  M!Lowest(S) \in S
<1>1. PICK x \in S : \A y \in S : <<y, x>> \notin OpToRel(<, Nat)
    BY NatLessThanWellFounded, WFMin
<1>2. ASSUME NEW y \in S PROVE x <= y
    <2>1. <<y, x>> \in OpToRel(<, Nat) <=> y < x
        BY DEF OpToRel
    <2>2. ~(y < x)
        BY <1>1, <2>1
    <2>3. QED
        BY <2>2
<1>3. QED
    BY <1>2 DEF M!Lowest

LEMMA GotoFacts ==
    ASSUME M!TypeOK, NEW p \in Peers, NEW pc, M!Goto(p, pc)
    PROVE  /\ task'[p].pc = pc
           /\ \A q \in Peers \ {p} : task'[q] = task[q]
           /\ pc \in {"idle", "set", "copy", "hash", "write", "ask"} =>
                  task' \in [Peers -> TaskType]
<1> DEFINE to == [(IF pc \in {"set", "copy"} THEN task[p] ELSE M!Idle) EXCEPT !.pc = pc]
<1>1. task \in [Peers -> TaskType] /\ task' = [task EXCEPT ![p] = to]
    BY DEF M!TypeOK, M!Goto, TaskType
<1>2. to.pc = pc
    BY <1>1, BitsFacts DEF TaskType
<1>3. pc \in {"idle", "set", "copy", "hash", "write", "ask"} => to \in TaskType
    BY <1>1, BitsFacts DEF TaskType
<1> HIDE DEF to
<1>4. QED
    BY <1>1, <1>2, <1>3

LEMMA NextReqType ==
    ASSUME M!TypeOK, NEW p \in Peers, NEW reaches, M!nextMetaInfoReq(p, reaches)
    PROVE  asked' \subseteq M!Bits /\ req' \in [Peers -> SUBSET M!Bits]
<1>1. CASE M!Ready \/ M!Missing = {}
    BY <1>1 DEF M!nextMetaInfoReq, M!TypeOK
<1>2. CASE ~M!Ready /\ M!Missing # {}
    <2>1. M!Missing \subseteq M!Bits /\ M!Missing \in SUBSET Nat
        BY BitsFacts DEF M!Missing
    <2>2. M!Lowest(M!Missing) \in M!Bits
        BY <1>2, <2>1, LowestFacts
    <2>3. QED
        BY <1>2, <2>2 DEF M!nextMetaInfoReq, M!TypeOK
<1>3. QED
    BY <1>1, <1>2

LEMMA FaultType ==
    ASSUME M!TypeOK, M!Fault
    PROVE  faults' \in 0 .. MaxFaults
BY PeersAssumption DEF M!TypeOK, M!Fault

LEMMA ResetType ==
    ASSUME M!TypeOK, M!ResetPending
    PROVE  /\ putting' = FALSE /\ asked' \subseteq M!Bits /\ have' \subseteq M!Bits
           /\ buf' \in [M!Real -> {"empty", "good", "bad"}] /\ toAsk' \subseteq Peers
BY DEF M!TypeOK, M!ResetPending

(* A peer asks, is asked or answers.                                       *)
LEMMA InfoTypeAsking ==
    ASSUME M!TypeOK, NEW p \in Peers,
           M!metaInfoDownload(p) \/ M!askAllMetadata(p) \/ M!askNextMetadata(p)
    PROVE  M!TypeOK'
<1>1. PICK reaches \in {TRUE, (p \in SameId)} : M!nextMetaInfoReq(p, reaches)
    BY DEF M!metaInfoDownload, M!askAllMetadata, M!askNextMetadata
<1>2. asked' \subseteq M!Bits /\ req' \in [Peers -> SUBSET M!Bits]
    BY <1>1, NextReqType
<1>3. task' \in [Peers -> TaskType]
    <2>1. CASE M!askNextMetadata(p)
        BY <2>1, GotoFacts DEF M!askNextMetadata
    <2>2. QED
        BY <2>1 DEF M!metaInfoDownload, M!askAllMetadata, M!TypeOK, TaskType
<1>4. QED
    BY <1>2, <1>3 DEF M!metaInfoDownload, M!askAllMetadata, M!askNextMetadata, M!TypeOK, TaskType

LEMMA InfoTypeAnswer ==
    ASSUME M!TypeOK, NEW p \in Peers, NEW i \in M!Bits, M!Answer(p, i) \/ M!Reject(p, i)
    PROVE  M!TypeOK'
<1>1. req' \in [Peers -> SUBSET M!Bits]
    BY DEF M!TypeOK, M!Answer, M!Reject
<1>2. CASE M!Reject(p, i)
    BY <1>1, <1>2 DEF M!TypeOK, M!Reject
<1>3. CASE M!Answer(p, i)
    <2>1. PICK d \in {"good", "bad"} :
              /\ IF d = "bad" THEN M!Fault
                 ELSE (p \in Servers \/ M!handleMetadata(p, i)) /\ UNCHANGED faults
              /\ task' = [task EXCEPT ![p] =
                              IF M!Ready THEN M!Idle
                              ELSE IF putting THEN [M!Idle EXCEPT !.pc = "ask"]
                              ELSE [pc |-> "set", i |-> i, data |-> d]]
        BY <1>3 DEF M!Answer
    <2>2. faults' \in 0 .. MaxFaults
        BY <2>1, FaultType DEF M!TypeOK
    <2>3. task' \in [Peers -> TaskType]
        BY <2>1, BitsFacts DEF M!TypeOK, TaskType
    <2>4. QED
        BY <1>1, <1>3, <2>2, <2>3 DEF M!TypeOK, M!Answer, TaskType
<1>4. QED
    BY <1>2, <1>3

(* What becomes of a slice.                                                *)
LEMMA InfoTypeSlice ==
    ASSUME M!TypeOK, NEW p \in Peers,
           M!SetPending(p) \/ M!CopySlice(p)
             \/ M!PutInfoBytes(p) \/ M!WriteTorrentFile(p)
    PROVE  M!TypeOK'
<1>1. task[p] \in TaskType
    BY DEF M!TypeOK, TaskType
<1>2. task' \in [Peers -> TaskType]
    BY GotoFacts DEF M!SetPending, M!CopySlice, M!PutInfoBytes, M!WriteTorrentFile
<1>4. CASE M!SetPending(p)
    BY <1>1, <1>2, <1>4 DEF M!TypeOK, M!SetPending, TaskType
<1>5. CASE M!CopySlice(p)
    <2>1. buf' \in [M!Real -> {"empty", "good", "bad"}]
        BY <1>1, <1>5 DEF M!TypeOK, M!CopySlice, TaskType
    <2>2. putting' \in BOOLEAN /\ late' \in BOOLEAN
        BY <1>5 DEF M!TypeOK, M!CopySlice
    <2>3. QED
        BY <1>2, <1>5, <2>1, <2>2 DEF M!TypeOK, M!CopySlice, TaskType
<1>6. CASE M!PutInfoBytes(p)
    <2>1. /\ putting' \in BOOLEAN /\ asked' \subseteq M!Bits /\ have' \subseteq M!Bits
          /\ buf' \in [M!Real -> {"empty", "good", "bad"}] /\ toAsk' \subseteq Peers
          /\ meta' \in {None, "buffer", "own"}
        BY <1>6, ResetType DEF M!TypeOK, M!PutInfoBytes
    <2>2. QED
        BY <1>2, <1>6, <2>1 DEF M!TypeOK, M!PutInfoBytes, TaskType
<1>7. CASE M!WriteTorrentFile(p)
    <2>1. /\ putting' \in BOOLEAN /\ asked' \subseteq M!Bits /\ have' \subseteq M!Bits
          /\ buf' \in [M!Real -> {"empty", "good", "bad"}] /\ toAsk' \subseteq Peers
          /\ meta' \in {None, "buffer", "own"} /\ faults' \in 0 .. MaxFaults
        BY <1>7, ResetType, FaultType DEF M!TypeOK, M!WriteTorrentFile
    <2>2. QED
        BY <1>2, <1>7, <2>1 DEF M!TypeOK, M!WriteTorrentFile, TaskType
<1>8. QED
    BY <1>4, <1>5, <1>6, <1>7

(* A peer's handshake comes, or one is gone again.                         *)
LEMMA InfoTypeMeeting ==
    ASSUME M!TypeOK, M!FirstLeaves \/ \E p \in Peers : M!handleExtendedOpts(p)
    PROVE  M!TypeOK'
<1>1. CASE M!FirstLeaves
    <2>1. faults' \in 0 .. MaxFaults
        BY <1>1, FaultType DEF M!FirstLeaves, M!TypeOK
    <2>2. M!Lowest(M!Bits) \in M!Bits
        BY BitsFacts, LowestFacts
    <2>3. QED
        BY <1>1, <2>1, <2>2 DEF M!FirstLeaves, M!TypeOK
<1>2. CASE \E p \in Peers : M!handleExtendedOpts(p)
    BY <1>2 DEF M!handleExtendedOpts, M!TypeOK
<1>3. QED
    BY <1>1, <1>2

LEMMA InfoTypeInit == (M!Init \/ WithInfo) => M!TypeOK
<1> SUFFICES ASSUME M!Init \/ WithInfo PROVE M!TypeOK
    OBVIOUS
<1>1. 0 \in 0 .. MaxFaults
    BY PeersAssumption
<1>2. task \in [Peers -> TaskType]
    BY BitsFacts DEF M!Init, WithInfo
<1>3. /\ buf \in [M!Real -> {"empty", "good", "bad"}] /\ meta \in {None, "buffer", "own"}
      /\ req \in [Peers -> SUBSET M!Bits]
    BY DEF M!Init, WithInfo
<1>4. QED
    BY <1>1, <1>2, <1>3 DEF M!Init, WithInfo, M!TypeOK, TaskType

LEMMA InfoTypeStep == M!TypeOK /\ M!Next => M!TypeOK'
<1> SUFFICES ASSUME M!TypeOK, M!Next PROVE M!TypeOK'
    OBVIOUS
<1>1. CASE M!ResetRequests
    BY <1>1 DEF M!TypeOK, M!ResetRequests
<1>2. QED
    BY <1>1, InfoTypeMeeting, InfoTypeAsking, InfoTypeAnswer, InfoTypeSlice DEF M!Next, M!Handle

(* The variables of both modules keep their types (peer.go, torrent.go,    *)
(* swarm.go).                                                              *)
THEOREM TypesCorrect == MCSpec => []BothTypeOK
<1>1. MCInit => Typed /\ M!TypeOK
    BY TypedInit, InfoTypeInit DEF MCInit
<1>2. Typed /\ M!TypeOK /\ [MCNext]_<<part, vars, infoVars>> => Typed' /\ M!TypeOK'
    <2> SUFFICES ASSUME Typed, M!TypeOK, [MCNext]_<<part, vars, infoVars>>
                 PROVE  Typed' /\ M!TypeOK'
        OBVIOUS
    <2>1. CASE Next /\ UNCHANGED infoVars
        BY <2>1, TypedStep DEF infoVars, M!TypeOK
    <2>2. CASE M!Next /\ UNCHANGED vars
        BY <2>2, TypedStep, InfoTypeStep
    <2>3. CASE UNCHANGED <<vars, infoVars>>
        BY <2>3, TypedStep DEF infoVars, M!TypeOK
    <2>4. QED
        BY <2>1, <2>2, <2>3 DEF MCNext
<1>3. Typed /\ M!TypeOK => BothTypeOK
    BY DEF Typed, BothTypeOK
<1>4. QED
    BY <1>1, <1>2, <1>3, PTL DEF MCSpec

-----------------------------------------------------------------------------
(* The installed info.                                                     *)

Puts(p) == task[p].pc \in {"hash", "write"}

(* Unless a slice was stored after putting began, at most one goroutine is *)
(* putting the info, nobody starts over while it does, and what it has     *)
(* installed is what it checked.  That putting stays set once the info is  *)
(* installed is what keeps slices that are on their way out of it.         *)
OnePutter ==
    ~late =>
        /\ \A p, q \in Peers : Puts(p) /\ Puts(q) => p = q
        /\ \A p \in Peers : Puts(p) => putting
        /\ meta = "buffer" => putting /\ \A i \in M!Real : buf[i] = "good"

LEMMA OnePutterFrame ==
    ASSUME OnePutter, UNCHANGED <<putting, meta, buf, late>>,
           \A p \in Peers : Puts(p)' => Puts(p)
    PROVE  OnePutter'
BY DEF OnePutter, Puts

LEMMA OnePutterStep ==
    ASSUME M!TypeOK, OnePutter, M!Next
    PROVE  OnePutter'
<1>1. CASE M!ResetRequests \/ M!FirstLeaves
    BY <1>1, OnePutterFrame DEF M!ResetRequests, M!FirstLeaves, Puts
<1>2. ASSUME NEW p \in Peers,
             M!handleExtendedOpts(p) \/ M!metaInfoDownload(p) \/ M!askAllMetadata(p)
      PROVE  OnePutter'
    BY <1>2, OnePutterFrame
    DEF M!handleExtendedOpts, M!metaInfoDownload, M!askAllMetadata, Puts
<1>3. ASSUME NEW p \in Peers, NEW i \in M!Bits, M!Answer(p, i) \/ M!Reject(p, i)
      PROVE  OnePutter'
    <2>1. /\ UNCHANGED <<putting, meta, buf, late>>
          /\ task' = task \/ \E d : task' = [task EXCEPT ![p] = d] /\ d.pc \in {"idle", "set", "ask"}
        BY <1>3 DEF M!Answer, M!Reject, M!Idle
    <2>2. \A q \in Peers : Puts(q)' => Puts(q)
        BY <2>1 DEF Puts, M!TypeOK
    <2>3. QED
        BY <2>1, <2>2, OnePutterFrame
<1>4. ASSUME NEW p \in Peers, M!SetPending(p) \/ M!askNextMetadata(p)
      PROVE  OnePutter'
    <2>1. PICK pc \in {"copy", "idle"} : M!Goto(p, pc)
        BY <1>4 DEF M!SetPending, M!askNextMetadata
    <2>2. \A q \in Peers : Puts(q)' => Puts(q)
        BY <2>1, GotoFacts DEF Puts
    <2>3. QED
        BY <1>4, <2>2, OnePutterFrame DEF M!SetPending, M!askNextMetadata
<1>5. ASSUME NEW p \in Peers, M!CopySlice(p) PROVE OnePutter'
    <2>1. CASE putting \/ late
        BY <1>5, <2>1 DEF M!CopySlice, OnePutter
    <2>2. CASE ~putting /\ ~late
        <3>1. /\ \A q \in Peers : ~Puts(q)
              /\ meta # "buffer" /\ meta' = meta
            BY <1>5, <2>2 DEF OnePutter, M!CopySlice
        <3>2. \A q \in Peers \ {p} : ~Puts(q)'
            BY <1>5, <3>1, GotoFacts DEF M!CopySlice, Puts
        <3>3. Puts(p)' => putting'
            BY <1>5, GotoFacts DEF M!CopySlice, Puts
        <3>4. QED
            BY <3>1, <3>2, <3>3 DEF OnePutter
    <2>3. QED
        BY <2>1, <2>2
<1>6. ASSUME NEW p \in Peers, M!PutInfoBytes(p) PROVE OnePutter'
    <2>1. CASE late
        BY <1>6, <2>1 DEF M!PutInfoBytes, OnePutter
    <2>2. CASE ~late
        <3>1. Puts(p) /\ putting /\ \A q \in Peers \ {p} : ~Puts(q)
            BY <1>6, <2>2 DEF M!PutInfoBytes, OnePutter, Puts
        <3>2. \A q \in Peers \ {p} : ~Puts(q)'
            BY <1>6, <3>1, GotoFacts DEF M!PutInfoBytes, Puts
        <3>3. CASE M!Ready
            <4>1. M!Goto(p, "idle") /\ UNCHANGED <<meta, putting, buf, late>>
                BY <1>6, <3>3 DEF M!PutInfoBytes
            <4>2. QED
                BY <3>1, <3>2, <4>1, OnePutterFrame
        <3>4. CASE ~M!Ready /\ alloc = "right" /\ \A i \in M!Real : buf[i] = "good"
            BY <1>6, <3>1, <3>2, <3>4 DEF M!PutInfoBytes, OnePutter
        <3>5. CASE ~M!Ready /\ ~(alloc = "right" /\ \A i \in M!Real : buf[i] = "good")
            <4>1. M!Goto(p, "ask") /\ meta' = None
                BY <1>6, <3>5 DEF M!PutInfoBytes, M!Ready
            <4>2. ~Puts(p)' /\ meta' # "buffer"
                BY <4>1, GotoFacts, PeersAssumption DEF Puts
            <4>3. QED
                BY <3>2, <4>2 DEF OnePutter
        <3>6. QED
            BY <3>3, <3>4, <3>5
    <2>3. QED
        BY <2>1, <2>2
<1>7. ASSUME NEW p \in Peers, M!WriteTorrentFile(p) PROVE OnePutter'
    <2>1. CASE late
        BY <1>7, <2>1 DEF M!WriteTorrentFile, OnePutter
    <2>2. CASE ~late
        <3>1. Puts(p) /\ putting /\ \A q \in Peers \ {p} : ~Puts(q)
            BY <1>7, <2>2 DEF M!WriteTorrentFile, OnePutter, Puts
        <3>2. \A q \in Peers : ~Puts(q)'
            BY <1>7, <3>1, GotoFacts DEF M!WriteTorrentFile, Puts
        <3>3. CASE UNCHANGED <<meta, putting, buf>>
            BY <1>7, <3>2, <3>3, OnePutterFrame DEF M!WriteTorrentFile
        <3>4. CASE meta' = "own"
            BY <3>2, <3>4 DEF OnePutter
        <3>5. QED
            BY <1>7, <3>3, <3>4 DEF M!WriteTorrentFile
    <2>3. QED
        BY <2>1, <2>2
<1>8. QED
    BY <1>1, <1>2, <1>3, <1>4, <1>5, <1>6, <1>7 DEF M!Next, M!Handle

(* The info that is installed stays the one the hash was taken of, however *)
(* many peers send slices of it and in whatever order, unless one is       *)
(* stored in the shared buffer after putting began (torrent.go:566-577,    *)
(* fs.go:297).                                                             *)
THEOREM InstalledCorrect == MCSpec => []InstalledIsGood
<1>1. MCInit => M!TypeOK /\ OnePutter
    <2>1. M!Init \/ WithInfo => OnePutter
        BY PeersAssumption DEF M!Init, WithInfo, OnePutter, Puts, M!Idle
    <2>2. QED
        BY <2>1, InfoTypeInit DEF MCInit
<1>2. M!TypeOK /\ OnePutter /\ [MCNext]_<<part, vars, infoVars>> => M!TypeOK' /\ OnePutter'
    <2> SUFFICES ASSUME M!TypeOK, OnePutter, [MCNext]_<<part, vars, infoVars>>
                 PROVE  M!TypeOK' /\ OnePutter'
        OBVIOUS
    <2>1. CASE M!Next
        BY <2>1, InfoTypeStep, OnePutterStep
    <2>2. CASE UNCHANGED infoVars
        BY <2>2 DEF infoVars, M!TypeOK, OnePutter, Puts
    <2>3. QED
        BY <2>1, <2>2 DEF MCNext
<1>3. OnePutter => InstalledIsGood
    BY DEF OnePutter, InstalledIsGood, M!InstalledIsGood
<1>4. QED
    BY <1>1, <1>2, <1>3, PTL DEF MCSpec
=============================================================================
