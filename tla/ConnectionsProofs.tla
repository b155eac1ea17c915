------------------------- MODULE ConnectionsProofs -------------------------
(***************************************************************************)
(* Safety of Connections for any number of addresses, connections and      *)
(* dialing goroutines and any limit.                                       *)
(***************************************************************************)
EXTENDS Connections, FiniteSetTheorems, TLAPS

-----------------------------------------------------------------------------
(* Types.                                                                  *)

ConnType == [st : States, dir : {"in", "out"}, addr : {None} \union Addrs]

(* A connection has an address from its first step on, those in admission  *)
(* are inbound, and a goroutine that dials knows whom.                     *)
Placed ==
    /\ \A c \in Conns :
        /\ conn[c].st # "none" => conn[c].addr \in Addrs
        /\ conn[c].st \in {"hello", "test", "admit"} => conn[c].dir = "in"
    /\ \A d \in Dialers : dialer[d].pc # "idle" => dialer[d].addr \in Addrs

Typed == TypeOK /\ Placed

LEMMA BecomeFacts ==
    ASSUME TypeOK, NEW c \in Conns, NEW st \in States, Become(c, st)
    PROVE  /\ conn' \in [Conns -> ConnType]
           /\ conn'[c].st = st /\ conn'[c].dir = conn[c].dir /\ conn'[c].addr = conn[c].addr
           /\ \A o \in Conns \ {c} : conn'[o] = conn[o]
BY DEF TypeOK, Become, ConnType

LEMMA DialerFacts ==
    ASSUME TypeOK, NEW d \in Dialers
    PROVE  /\ Finished(d) \/ (\E pc \in {"top", "ob", "wire"} : DialerAt(d, pc)) =>
                  dialer' \in [Dialers -> [pc : {"idle", "top", "ob", "wire"},
                                           addr : {None} \union Addrs, tries : 0 .. MaxTries]]
           /\ Finished(d) => \A e \in Dialers : dialer'[e] = IF e = d THEN Resting ELSE dialer[e]
           /\ \A pc : DialerAt(d, pc) =>
                  \A e \in Dialers : dialer'[e].addr = dialer[e].addr
                                     /\ (e # d => dialer'[e] = dialer[e])
<1>1. Resting \in [pc : {"idle", "top", "ob", "wire"}, addr : {None} \union Addrs,
                   tries : 0 .. MaxTries]
    BY ConnectionsAssumption DEF Resting
<1>2. QED
    BY <1>1 DEF TypeOK, Finished, DialerAt

LEMMA AdmissionFinite ==
    /\ IsFiniteSet(InAdmission) /\ Cardinality(InAdmission) \in Nat
    /\ IsFiniteSet(Entries) /\ Cardinality(Entries) \in Nat
<1>1. InAdmission \in SUBSET Conns /\ Entries \in SUBSET Addrs
    BY DEF InAdmission, Entries
<1>2. QED
    BY <1>1, FS_Subset, FS_CardinalityType, ConnectionsAssumption

LEMMA TypedInbound ==
    ASSUME Typed, NEW c \in Conns,
           (\E a \in Addrs : Arrive(c, a)) \/ Admission(c) \/ TurnAway(c)
    PROVE  Typed'
<1>1. ASSUME NEW a \in Addrs, Arrive(c, a) PROVE Typed'
    <2> DEFINE new == [st |-> "hello", dir |-> "in", addr |-> a]
    <2>1. new \in ConnType
        BY DEF ConnType, States
    <2>2. /\ conn' \in [Conns -> ConnType] /\ conn'[c] = new
          /\ \A o \in Conns \ {c} : conn'[o] = conn[o]
        BY <1>1, <2>1 DEF Arrive, Typed, TypeOK, ConnType
    <2>3. peak' \in Nat
        BY <1>1, AdmissionFinite DEF Arrive, Typed, TypeOK
    <2>4. QED
        BY <1>1, <2>2, <2>3 DEF Arrive, Typed, TypeOK, Placed, ConnType
<1>2. CASE TurnAway(c) \/ TestDuplicate(c) \/ TestLimit(c)
    <2>1. PICK st \in {"closed", "refused", "test", "admit"} :
              Become(c, st) /\ (st \in {"test", "admit"} => conn[c].st \in {"hello", "test"})
        BY <1>2 DEF TurnAway, TestDuplicate, TestLimit
    <2>2. /\ UNCHANGED <<ib, ob, dialer, stopped, visit, pex, pop, raced, peak>>
          /\ closing' \in [Conns -> BOOLEAN] /\ conn[c].st # "none"
        BY <1>2 DEF TurnAway, TestDuplicate, TestLimit, Typed, TypeOK
    <2>3. QED
        BY <2>1, <2>2, BecomeFacts DEF Typed, TypeOK, Placed, ConnType, States
<1>3. CASE addIBPeer(c)
    <2>1. Become(c, "listed") /\ conn[c].st = "admit" /\ conn[c].addr \in Addrs
        BY <1>3 DEF addIBPeer, Typed, Placed
    <2>2. ib' \in [Addrs -> {None} \union Conns] /\ raced' \subseteq {"in", "out"} \X Addrs
        BY <1>3, <2>1 DEF addIBPeer, Typed, TypeOK
    <2>3. QED
        BY <1>3, <2>1, <2>2, BecomeFacts DEF addIBPeer, Typed, TypeOK, Placed, ConnType, States
<1>4. QED
    BY <1>1, <1>2, <1>3 DEF Admission

LEMMA TypedDial ==
    ASSUME Typed, NEW d \in Dialers,
           \/ Dialing(d)
           \/ \E a \in Addrs : addPeers(d, a)
           \/ \E c \in Conns : addOBPeer(d, c)
    PROVE  Typed'
<1> DEFINE DialerType == [pc : {"idle", "top", "ob", "wire"}, addr : {None} \union Addrs,
                          tries : 0 .. MaxTries]
<1>0. dialer \in [Dialers -> DialerType]
    BY DEF Typed, TypeOK
<1>1. CASE PersistPeer(d) \/ DialPeer(d)
    <2>1. /\ Finished(d) \/ \E pc \in {"top", "ob", "wire"} : DialerAt(d, pc)
          /\ dialer[d].pc # "idle"
        BY <1>1 DEF PersistPeer, DialPeer
    <2>2. UNCHANGED <<conn, closing, ib, ob, stopped, visit, pex, pop, raced, peak>>
        BY <1>1 DEF PersistPeer, DialPeer
    <2>3. Placed'
        BY <2>1, <2>2, DialerFacts DEF Typed, Placed, Resting
    <2>4. QED
        BY <2>1, <2>2, <2>3, DialerFacts DEF Typed, TypeOK
<1>2. CASE DialFails(d)
    <2>1. /\ UNCHANGED <<conn, closing, ib, ob, stopped, visit, pex, pop, raced, peak>>
          /\ dialer[d].pc = "wire"
        BY <1>2 DEF DialFails
    <2>2. CASE Finished(d)
        BY <2>1, <2>2, DialerFacts DEF Typed, TypeOK, Placed, Resting
    <2>3. CASE dialer[d].tries > 1 /\ dialer' = [dialer EXCEPT ![d].pc = "top", ![d].tries = @ - 1]
        <3> DEFINE new == [dialer[d] EXCEPT !.pc = "top", !.tries = @ - 1]
        <3>1. dialer[d].tries - 1 \in 0 .. MaxTries
            BY <1>0, <2>3, ConnectionsAssumption
        <3>2. new \in DialerType /\ new.addr = dialer[d].addr
            BY <1>0, <3>1
        <3>3. dialer' = [dialer EXCEPT ![d] = new]
            BY <2>3
        <3> HIDE DEF new
        <3>4. dialer' \in [Dialers -> DialerType]
              /\ \A e \in Dialers : dialer'[e] = IF e = d THEN new ELSE dialer[e]
            BY <1>0, <3>2, <3>3
        <3>5. Placed'
            BY <2>1, <3>2, <3>4 DEF Typed, Placed
        <3>6. QED
            BY <2>1, <3>4, <3>5 DEF Typed, TypeOK
    <2>4. QED
        BY <1>2, <2>2, <2>3 DEF DialFails
<1>3. ASSUME NEW a \in Addrs, addPeers(d, a) PROVE Typed'
    <2>1. [pc |-> "top", addr |-> a, tries |-> MaxTries] \in DialerType
        BY ConnectionsAssumption
    <2>2. dialer' \in [Dialers -> DialerType]
        BY <1>0, <1>3, <2>1 DEF addPeers
    <2>3. Placed'
        BY <1>0, <1>3 DEF addPeers, Typed, Placed
    <2>4. QED
        BY <1>3, <2>2, <2>3 DEF addPeers, Typed, TypeOK
<1>4. ASSUME NEW c \in Conns, addOBPeer(d, c) PROVE Typed'
    <2> DEFINE a == dialer[d].addr
               new == [st |-> "listed", dir |-> "out", addr |-> a]
    <2>1. a \in Addrs /\ Finished(d)
        BY <1>4 DEF addOBPeer, Typed, Placed
    <2>2. new \in ConnType
        BY <2>1 DEF ConnType, States
    <2>3. /\ conn' \in [Conns -> ConnType] /\ conn'[c] = new
          /\ \A o \in Conns \ {c} : conn'[o] = conn[o]
        BY <1>4, <2>2 DEF addOBPeer, Typed, TypeOK, ConnType
    <2>4. ob' \in [Addrs -> {None} \union Conns] /\ raced' \subseteq {"in", "out"} \X Addrs
        BY <1>4, <2>1 DEF addOBPeer, Typed, TypeOK
    <2>5. Placed'
        BY <2>1, <2>3, DialerFacts DEF Typed, Placed, Resting
    <2>6. QED
        BY <1>4, <2>1, <2>3, <2>4, <2>5, DialerFacts DEF addOBPeer, Typed, TypeOK, ConnType
<1>5. QED
    BY <1>1, <1>2, <1>3, <1>4 DEF Dialing

LEMMA TypedLife ==
    ASSUME Typed, NEW c \in Conns, Life(c) \/ End(c) \/ CloseConn(c)
    PROVE  Typed'
<1>1. CASE Start(c) \/ onPeerDisconnected(c)
    <2>1. /\ \E st \in {"open", "closed"} : Become(c, st)
          /\ conn[c].st \in {"listed", "removed"} /\ conn[c].addr \in Addrs
          /\ pex' \in [Addrs -> {"none", "up", "down"}]
        BY <1>1 DEF Start, onPeerDisconnected, Typed, TypeOK, Placed
    <2>2. QED
        BY <1>1, <2>1, BecomeFacts DEF Start, onPeerDisconnected, Typed, TypeOK, Placed, ConnType,
                                       States
<1>2. CASE doClose(c)
    <2>1. /\ Become(c, "removed") /\ conn[c].st = "open"
          /\ ib' \in [Addrs -> {None} \union Conns] /\ ob' \in [Addrs -> {None} \union Conns]
        BY <1>2 DEF doClose, Typed, TypeOK
    <2>2. UNCHANGED <<closing, dialer, stopped, visit, pex, pop, raced, peak>>
        BY <1>2 DEF doClose
    <2>3. "removed" \in States
        BY DEF States
    <2>4. conn' \in [Conns -> ConnType] /\ Placed'
        BY <2>1, <2>2, <2>3, BecomeFacts DEF Typed, Placed
    <2>5. QED
        BY <2>1, <2>2, <2>4 DEF Typed, TypeOK, ConnType
<1>3. CASE End(c) \/ CloseConn(c)
    BY <1>3 DEF End, CloseConn, Typed, TypeOK, Placed
<1>4. QED
    BY <1>1, <1>2, <1>3 DEF Life

LEMMA TypedTorrent ==
    ASSUME Typed, Close \/ StartTorrent \/ PopDelete \/ (\E a \in Addrs : PopVisit(a))
    PROVE  Typed'
<1>1. Placed'
    BY DEF Close, StartTorrent, PopDelete, PopVisit, Typed, Placed
<1>2. Listed \subseteq Conns
    BY DEF Listed, Typed, TypeOK
<1>3. TypeOK'
    BY <1>2 DEF Close, StartTorrent, PopDelete, PopVisit, Typed, TypeOK
<1>4. QED
    BY <1>1, <1>3 DEF Typed

LEMMA TypedInit == Init => Typed
<1> SUFFICES ASSUME Init PROVE Typed
    OBVIOUS
<1>1. Resting \in [pc : {"idle", "top", "ob", "wire"}, addr : {None} \union Addrs,
                   tries : 0 .. MaxTries]
    BY ConnectionsAssumption DEF Resting
<1>2. Placed
    BY DEF Init, Placed, Resting
<1>3. conn \in [Conns -> [st : States, dir : {"in", "out"}, addr : {None} \union Addrs]]
    BY DEF Init, States
<1>4. TypeOK
    BY <1>1, <1>3 DEF Init, TypeOK
<1>5. QED
    BY <1>2, <1>4 DEF Typed

LEMMA TypedStep == Typed /\ [Next]_vars => Typed'
<1>1. Typed /\ UNCHANGED vars => Typed'
    BY DEF vars, Typed, TypeOK, Placed
<1>2. QED
    BY <1>1, TypedInbound, TypedDial, TypedLife, TypedTorrent DEF Next, PeerExchange

(* Every variable keeps its type, and no goroutine works for an address it *)
(* does not have (torrent.go:500-520, 690-715).                            *)
THEOREM TypeCorrect == Spec => []TypeOK
<1>1. Typed => TypeOK
    BY DEF Typed
<1>2. QED
    BY <1>1, TypedInit, TypedStep, PTL DEF Spec

-----------------------------------------------------------------------------
(* The tables.                                                             *)

Lives(c) == conn[c].st \in {"listed", "open"}

(* Steps that store and delete nothing and begin or end no connection's    *)
(* life.                                                                   *)
LEMMA MatchFrame ==
    ASSUME Typed, TablesMatch, UNCHANGED <<ib, ob, raced>>, NEW c \in Conns,
           \A o \in Conns \ {c} : conn'[o] = conn[o],
           Lives(c)' <=> Lives(c),
           Lives(c) => conn'[c].dir = conn[c].dir /\ conn'[c].addr = conn[c].addr
    PROVE  TablesMatch'
<1>1. \A a \in Addrs, d \in {"in", "out"} :
          Table(d)[a] # None => Table(d)[a] \in Conns /\ Table(d)'[a] = Table(d)[a]
    BY DEF Typed, TypeOK, Table
<1>2. \A d : Table(d)' = Table(d)
    BY DEF Table
<1>3. QED
    BY <1>1, <1>2 DEF TablesMatch, Lives

(* What the tables have to satisfy after a step.                           *)
LEMMA MatchFrom ==
    ASSUME \A b \in Addrs, e \in {"in", "out"} :
               Table(e)'[b] # None =>
                   /\ conn'[Table(e)'[b]].st \in {"listed", "open"}
                   /\ conn'[Table(e)'[b]].dir = e /\ conn'[Table(e)'[b]].addr = b,
           \A o \in Conns : \A e, b :
               /\ conn'[o].dir = e /\ conn'[o].addr = b /\ Lives(o)' /\ <<e, b>> \notin raced'
               => Table(e)'[b] = o
    PROVE  TablesMatch'
BY DEF TablesMatch, Table, Lives

(* A connection is stored.                                                 *)
LEMMA MatchEnter ==
    ASSUME Typed, TablesMatch, NEW c \in Conns, ~Lives(c),
           NEW a \in Addrs, NEW d \in {"in", "out"},
           \A o \in Conns \ {c} : conn'[o] = conn[o],
           Lives(c)', conn'[c].dir = d, conn'[c].addr = a,
           Table(d)' = [Table(d) EXCEPT ![a] = c],
           \A e \in {"in", "out"} \ {d} : Table(e)' = Table(e),
           raced' = IF Table(d)[a] = None THEN raced ELSE raced \union {<<d, a>>}
    PROVE  TablesMatch'
<1>0. \A e \in {"in", "out"} : Table(e) \in [Addrs -> {None} \union Conns]
    BY DEF Typed, TypeOK, Table
<1>1. \A b \in Addrs, e \in {"in", "out"} :
          Table(e)'[b] = IF e = d /\ b = a THEN c ELSE Table(e)[b]
    BY <1>0
<1>2. \A b \in Addrs, e \in {"in", "out"} : Table(e)[b] # c
    BY ConnectionsAssumption DEF TablesMatch, Lives
<1>3. \A b \in Addrs, e \in {"in", "out"} :
          Table(e)'[b] # None =>
              /\ conn'[Table(e)'[b]].st \in {"listed", "open"}
              /\ conn'[Table(e)'[b]].dir = e /\ conn'[Table(e)'[b]].addr = b
    <2> TAKE b \in Addrs, e \in {"in", "out"}
    <2>1. CASE e = d /\ b = a
        BY <1>1, <2>1 DEF Lives
    <2>2. CASE ~(e = d /\ b = a)
        BY <1>0, <1>1, <1>2, <2>2 DEF TablesMatch
    <2>3. QED
        BY <2>1, <2>2
<1>4. ASSUME NEW o \in Conns, NEW e, NEW b, conn'[o].dir = e, conn'[o].addr = b,
             Lives(o)', <<e, b>> \notin raced'
      PROVE  Table(e)'[b] = o
    <2>1. CASE o = c
        BY <1>1, <1>4, <2>1
    <2>2. CASE o # c
        <3>1. conn[o].dir = e /\ conn[o].addr = b /\ Lives(o) /\ <<e, b>> \notin raced
            BY <1>4, <2>2 DEF Lives
        <3>2. e \in {"in", "out"} /\ b \in Addrs /\ o # None
            BY <3>1, ConnectionsAssumption DEF Typed, TypeOK, Placed, Lives
        <3>3. Table(e)[b] = o
            BY <3>1 DEF TablesMatch, Lives
        <3>4. ~(e = d /\ b = a)
            BY <1>4, <3>2, <3>3
        <3>5. QED
            BY <1>1, <3>2, <3>3, <3>4
    <2>3. QED
        BY <2>1, <2>2
<1>5. QED
    BY <1>3, <1>4, MatchFrom

(* A connection ends, and what is stored under its address is deleted.     *)
LEMMA MatchLeave ==
    ASSUME Typed, TablesMatch, NEW c \in Conns, doClose(c)
    PROVE  TablesMatch'
<1> DEFINE d == conn[c].dir
           a == conn[c].addr
<1>1. /\ d \in {"in", "out"} /\ a \in Addrs /\ Lives(c) /\ ~Lives(c)'
      /\ \A o \in Conns \ {c} : conn'[o] = conn[o]
      /\ UNCHANGED raced
    BY BecomeFacts DEF doClose, Typed, TypeOK, Placed, States, Lives
<1>2. \A b \in Addrs, e \in {"in", "out"} :
          /\ Table(e)[b] \in {None} \union Conns
          /\ Table(e)'[b] = IF e = d /\ b = a THEN None ELSE Table(e)[b]
    BY <1>1 DEF doClose, Typed, TypeOK, Table
<1>3. \A b \in Addrs, e \in {"in", "out"} :
          Table(e)[b] = c /\ c # None => e = d /\ b = a
    BY <1>1 DEF TablesMatch
<1>4. c # None
    BY ConnectionsAssumption
<1>5. \A b \in Addrs, e \in {"in", "out"} :
          Table(e)'[b] # None =>
              /\ conn'[Table(e)'[b]].st \in {"listed", "open"}
              /\ conn'[Table(e)'[b]].dir = e /\ conn'[Table(e)'[b]].addr = b
    BY <1>1, <1>2, <1>3, <1>4 DEF TablesMatch
<1>6. ASSUME NEW o \in Conns, NEW e, NEW b, conn'[o].dir = e, conn'[o].addr = b,
             Lives(o)', <<e, b>> \notin raced'
      PROVE  Table(e)'[b] = o
    <2>1. o # c /\ conn'[o] = conn[o] /\ Lives(o)
        BY <1>1, <1>6 DEF Lives
    <2>2. e \in {"in", "out"} /\ b \in Addrs /\ Table(e)[b] = o
        BY <1>1, <1>6, <2>1 DEF TablesMatch, Typed, TypeOK, Placed, Lives
    <2>3. ~(e = d /\ b = a)
        BY <1>1, <1>6, <2>1, <2>2 DEF TablesMatch, Lives
    <2>4. QED
        BY <1>2, <2>2, <2>3
<1>7. QED
    BY <1>5, <1>6, MatchFrom

LEMMA MatchStep ==
    ASSUME Typed, TablesMatch, [Next]_vars
    PROVE  TablesMatch'
<1>1. CASE UNCHANGED <<conn, ib, ob, raced>>
    BY <1>1 DEF TablesMatch, Table
<1>2. ASSUME NEW c \in Conns, NEW a \in Addrs, Arrive(c, a) PROVE TablesMatch'
    <2>1. /\ \A o \in Conns \ {c} : conn'[o] = conn[o]
          /\ conn'[c].st = "hello" /\ conn[c].st = "none"
          /\ UNCHANGED <<ib, ob, raced>>
        BY <1>2 DEF Arrive, Typed, TypeOK
    <2>2. QED
        BY <2>1, MatchFrame DEF Lives
<1>3. ASSUME NEW c \in Conns,
             \/ TurnAway(c) \/ TestDuplicate(c) \/ TestLimit(c)
             \/ Start(c) \/ onPeerDisconnected(c)
      PROVE  TablesMatch'
    <2>1. /\ UNCHANGED <<ib, ob, raced>>
          /\ \/ \E st \in {"closed", "refused", "test", "admit"} :
                    Become(c, st) /\ conn[c].st \in {"hello", "test", "removed"}
             \/ Become(c, "open") /\ conn[c].st = "listed"
        BY <1>3 DEF TurnAway, TestDuplicate, TestLimit, Start, onPeerDisconnected
    <2>2. /\ \A o \in Conns \ {c} : conn'[o] = conn[o]
          /\ conn'[c].dir = conn[c].dir /\ conn'[c].addr = conn[c].addr
          /\ Lives(c)' <=> Lives(c)
        BY <2>1, BecomeFacts DEF Typed, States, Lives
    <2>3. QED
        BY <2>1, <2>2, MatchFrame
<1>4. ASSUME NEW c \in Conns, addIBPeer(c) PROVE TablesMatch'
    <2>1. /\ conn[c].st = "admit" /\ conn[c].dir = "in" /\ conn[c].addr \in Addrs
          /\ Become(c, "listed")
        BY <1>4 DEF addIBPeer, Typed, Placed
    <2>2. PICK a \in Addrs : a = conn[c].addr
        BY <2>1
    <2>3. /\ \A o \in Conns \ {c} : conn'[o] = conn[o]
          /\ conn'[c].st = "listed" /\ conn'[c].dir = "in" /\ conn'[c].addr = a
        BY <2>1, <2>2, BecomeFacts DEF Typed, States
    <2>4. /\ Table("in")' = [Table("in") EXCEPT ![a] = c]
          /\ \A e \in {"in", "out"} \ {"in"} : Table(e)' = Table(e)
          /\ raced' = IF Table("in")[a] = None THEN raced ELSE raced \union {<<"in", a>>}
        BY <1>4, <2>2 DEF addIBPeer, Table
    <2>5. QED
        BY <2>1, <2>3, <2>4, MatchEnter DEF Lives
<1>5. ASSUME NEW d \in Dialers, NEW c \in Conns, addOBPeer(d, c) PROVE TablesMatch'
    <2>1. dialer[d].addr \in Addrs
        BY <1>5 DEF addOBPeer, Typed, Placed
    <2>2. PICK a \in Addrs : a = dialer[d].addr
        BY <2>1
    <2>3. /\ \A o \in Conns \ {c} : conn'[o] = conn[o]
          /\ conn'[c].st = "listed" /\ conn'[c].dir = "out" /\ conn'[c].addr = a
          /\ conn[c].st = "none"
        BY <1>5, <2>2 DEF addOBPeer, Typed, TypeOK
    <2>4. /\ Table("out")' = [Table("out") EXCEPT ![a] = c]
          /\ \A e \in {"in", "out"} \ {"out"} : Table(e)' = Table(e)
          /\ raced' = IF Table("out")[a] = None THEN raced ELSE raced \union {<<"out", a>>}
        BY <1>5, <2>2 DEF addOBPeer, Table
    <2>5. QED
        BY <2>3, <2>4, MatchEnter DEF Lives
<1>6. ASSUME NEW d \in Dialers, Dialing(d) \/ \E a \in Addrs : addPeers(d, a)
      PROVE  UNCHANGED <<conn, ib, ob, raced>>
    BY <1>6 DEF Dialing, PersistPeer, DialPeer, DialFails, addPeers
<1>7. ASSUME NEW c \in Conns, End(c) \/ CloseConn(c) PROVE UNCHANGED <<conn, ib, ob, raced>>
    BY <1>7 DEF End, CloseConn
<1>8. Close \/ StartTorrent \/ PopDelete \/ (\E a \in Addrs : PopVisit(a)) \/ UNCHANGED vars =>
          UNCHANGED <<conn, ib, ob, raced>>
    BY DEF Close, StartTorrent, PopDelete, PopVisit, vars
<1>9. QED
    BY <1>1, <1>2, <1>3, <1>4, <1>5, <1>6, <1>7, <1>8, MatchLeave
       DEF Next, Admission, Life, PeerExchange

(* No entry of a table outlives its connection, and every connection that  *)
(* lives is in its table unless two of one address met, for any number of  *)
(* connections that come and go at once (torrent.go:505, 619, 653, 712).   *)
THEOREM TablesCorrect == Spec => []TablesMatch
<1>1. Init => TablesMatch
    BY DEF Init, TablesMatch, Table
<1>2. Typed /\ TablesMatch /\ [Next]_vars => Typed' /\ TablesMatch'
    BY MatchStep, TypedStep
<1>3. QED
    BY <1>1, <1>2, TypedInit, PTL DEF Spec

-----------------------------------------------------------------------------
(* The PEX state.                                                          *)

(* An address comes up with its connection's start, and a connection that  *)
(* has started stays until it has told that it is down.                    *)
LEMMA GhostStep ==
    ASSUME Typed, NoGhostPeers, [Next]_vars
    PROVE  NoGhostPeers'
<1> DEFINE Told(c) == conn[c].st \in {"open", "removed"}
<1>1. ASSUME UNCHANGED pex,
             \A c \in Conns : Told(c) => Told(c)' /\ conn'[c].addr = conn[c].addr
      PROVE  NoGhostPeers'
    BY <1>1 DEF NoGhostPeers
<1>2. ASSUME NEW c \in Conns, NEW a \in Addrs, Arrive(c, a) PROVE NoGhostPeers'
    <2>1. \A o \in Conns : Told(o) => Told(o)' /\ conn'[o].addr = conn[o].addr
        BY <1>2 DEF Arrive, Typed, TypeOK
    <2>2. QED
        BY <1>1, <1>2, <2>1 DEF Arrive
<1>3. ASSUME NEW c \in Conns,
             TurnAway(c) \/ TestDuplicate(c) \/ TestLimit(c) \/ addIBPeer(c) \/ doClose(c)
      PROVE  NoGhostPeers'
    <2>1. /\ UNCHANGED pex
          /\ \/ \E st \in {"closed", "refused", "test", "admit", "listed"} :
                    Become(c, st) /\ conn[c].st \in {"hello", "test", "admit"}
             \/ Become(c, "removed") /\ conn[c].st = "open"
        BY <1>3 DEF TurnAway, TestDuplicate, TestLimit, addIBPeer, doClose
    <2>2. \A o \in Conns : Told(o) => Told(o)' /\ conn'[o].addr = conn[o].addr
        BY <2>1, BecomeFacts DEF Typed, States
    <2>3. QED
        BY <1>1, <2>1, <2>2
<1>4. ASSUME NEW c \in Conns, Start(c) PROVE NoGhostPeers'
    <2>1. /\ conn'[c].st = "open" /\ conn'[c].addr = conn[c].addr
          /\ \A o \in Conns \ {c} : conn'[o] = conn[o]
          /\ conn[c].st = "listed"
        BY <1>4, BecomeFacts DEF Start, Typed, States
    <2>2. \A a \in Addrs : pex'[a] = "up" => pex[a] = "up" \/ a = conn[c].addr
        BY <1>4 DEF Start, Typed, TypeOK
    <2>3. QED
        BY <2>1, <2>2 DEF NoGhostPeers
<1>5. ASSUME NEW c \in Conns, onPeerDisconnected(c) PROVE NoGhostPeers'
    <2>1. \A o \in Conns \ {c} : conn'[o] = conn[o]
        BY <1>5, BecomeFacts DEF onPeerDisconnected, Typed, States
    <2>2. \A a \in Addrs : pex'[a] = "up" => pex[a] = "up" /\ a # conn[c].addr
        BY <1>5 DEF onPeerDisconnected, Typed, TypeOK
    <2>3. QED
        BY <2>1, <2>2 DEF NoGhostPeers
<1>6. ASSUME NEW d \in Dialers, NEW c \in Conns, addOBPeer(d, c) PROVE NoGhostPeers'
    <2>1. \A o \in Conns : Told(o) => Told(o)' /\ conn'[o].addr = conn[o].addr
        BY <1>6 DEF addOBPeer, Typed, TypeOK
    <2>2. QED
        BY <1>1, <1>6, <2>1 DEF addOBPeer
<1>7. CASE PopDelete \/ \E a \in Addrs : PopVisit(a)
    <2>1. \A a \in Addrs : pex'[a] = "up" => pex[a] = "up"
        BY <1>7 DEF PopDelete, PopVisit, Typed, TypeOK
    <2>2. UNCHANGED conn
        BY <1>7 DEF PopDelete, PopVisit
    <2>3. QED
        BY <2>1, <2>2 DEF NoGhostPeers
<1>8. ASSUME NEW d \in Dialers, Dialing(d) \/ \E a \in Addrs : addPeers(d, a)
      PROVE  UNCHANGED <<conn, pex>>
    BY <1>8 DEF Dialing, PersistPeer, DialPeer, DialFails, addPeers
<1>9. ASSUME NEW c \in Conns, End(c) \/ CloseConn(c) PROVE UNCHANGED <<conn, pex>>
    BY <1>9 DEF End, CloseConn
<1>10. Close \/ StartTorrent \/ UNCHANGED vars => UNCHANGED <<conn, pex>>
    BY DEF Close, StartTorrent, vars
<1>11. UNCHANGED <<conn, pex>> => NoGhostPeers'
    BY DEF NoGhostPeers
<1>12. QED
    BY <1>2, <1>3, <1>4, <1>5, <1>6, <1>7, <1>8, <1>9, <1>10, <1>11
       DEF Next, Admission, Life, PeerExchange

(* Peers are told only of addresses with a connection that has yet to say  *)
(* that it is down (pex.go:14-20), however many share an address.          *)
THEOREM GhostsCorrect == Spec => []NoGhostPeers
<1>1. Init => NoGhostPeers
    BY DEF Init, NoGhostPeers
<1>2. Typed /\ NoGhostPeers /\ [Next]_vars => Typed' /\ NoGhostPeers'
    BY GhostStep, TypedStep
<1>3. QED
    BY <1>1, <1>2, TypedInit, PTL DEF Spec

-----------------------------------------------------------------------------
(* The limit of inbound connections.                                       *)

(* Connections that have passed the test and have yet to be stored.        *)
Admitted == {c \in Conns : conn[c].st = "admit"}

(* Each of those, and each entry beyond the limit, was in admission when   *)
(* the last test was passed.                                               *)
BoundInv ==
    /\ Cardinality(InAdmission) <= peak
    /\ Cardinality(Entries) + Cardinality(Admitted) <= MaxPeers + peak

LEMMA Counted ==
    /\ \A S \in SUBSET Conns : IsFiniteSet(S) /\ Cardinality(S) \in Nat
    /\ \A S \in SUBSET Addrs : IsFiniteSet(S) /\ Cardinality(S) \in Nat
    /\ {InAdmission, Admitted} \subseteq SUBSET Conns /\ Entries \in SUBSET Addrs
    /\ {InAdmission', Admitted'} \subseteq SUBSET Conns /\ Entries' \in SUBSET Addrs
BY FS_Subset, FS_CardinalityType, ConnectionsAssumption DEF InAdmission, Admitted, Entries

(* Steps that admit nobody.                                                *)
LEMMA BoundFrame ==
    ASSUME Typed, BoundInv, UNCHANGED peak,
           InAdmission' \subseteq InAdmission, Admitted' \subseteq Admitted,
           Entries' \subseteq Entries
    PROVE  BoundInv'
<1>1. /\ Cardinality(InAdmission') <= Cardinality(InAdmission)
      /\ Cardinality(Admitted') <= Cardinality(Admitted)
      /\ Cardinality(Entries') <= Cardinality(Entries)
    BY Counted, FS_Subset
<1>2. /\ {Cardinality(InAdmission), Cardinality(InAdmission'), Cardinality(Admitted),
          Cardinality(Admitted'), Cardinality(Entries), Cardinality(Entries')} \subseteq Nat
      /\ peak \in Nat /\ MaxPeers \in Nat
    BY Counted, ConnectionsAssumption DEF Typed, TypeOK
<1>3. QED
    BY <1>1, <1>2 DEF BoundInv

LEMMA BoundArrive ==
    ASSUME Typed, BoundInv, NEW c \in Conns, NEW a \in Addrs, Arrive(c, a)
    PROVE  BoundInv'
<1>1. InAdmission' = InAdmission \union {c} /\ Admitted' = Admitted /\ c \notin InAdmission
    BY DEF Arrive, Typed, TypeOK, InAdmission, Admitted
<1>2. Entries' = Entries
    BY DEF Arrive, Entries
<1>3. Cardinality(InAdmission') = Cardinality(InAdmission) + 1
    BY <1>1, Counted, FS_AddElement
<1>4. peak' = IF Cardinality(InAdmission) < peak THEN peak ELSE Cardinality(InAdmission) + 1
    BY DEF Arrive
<1>5. /\ {Cardinality(InAdmission), Cardinality(Admitted), Cardinality(Entries)} \subseteq Nat
      /\ peak \in Nat /\ MaxPeers \in Nat
    BY Counted, ConnectionsAssumption DEF Typed, TypeOK
<1>6. peak <= peak' /\ Cardinality(InAdmission') <= peak' /\ peak' \in Nat
    BY <1>3, <1>4, <1>5 DEF BoundInv
<1>7. QED
    BY <1>1, <1>2, <1>5, <1>6 DEF BoundInv

LEMMA BoundTestLimit ==
    ASSUME Typed, BoundInv, NEW c \in Conns, TestLimit(c)
    PROVE  BoundInv'
<1>1. UNCHANGED <<ib, ob, peak>> /\ conn[c].st = "test" /\ Entries' = Entries
    BY DEF TestLimit, Entries
<1>2. CASE ~NeedsPeers
    <2>1. conn'[c].st = "refused" /\ \A o \in Conns \ {c} : conn'[o] = conn[o]
        BY <1>2, BecomeFacts DEF TestLimit, Typed, States
    <2>2. InAdmission' \subseteq InAdmission /\ Admitted' \subseteq Admitted
        BY <2>1 DEF InAdmission, Admitted
    <2>3. QED
        BY <1>1, <2>2, BoundFrame
<1>3. CASE NeedsPeers
    <2>1. conn'[c].st = "admit" /\ \A o \in Conns \ {c} : conn'[o] = conn[o]
        BY <1>3, BecomeFacts DEF TestLimit, Typed, States
    <2>2. InAdmission' = InAdmission /\ Admitted' \in SUBSET InAdmission
        BY <1>1, <2>1 DEF InAdmission, Admitted
    <2>3. Cardinality(Admitted') <= Cardinality(InAdmission)
        BY <2>2, Counted, FS_Subset
    <2>4. Cardinality(Entries) <= MaxPeers
        <3>1. {a \in Addrs : ob[a] # None} \in SUBSET Addrs
            OBVIOUS
        <3>2. Cardinality({a \in Addrs : ob[a] # None}) \in Nat /\ Cardinality(Entries) \in Nat
            BY <3>1, Counted
        <3>3. QED
            BY <1>3, <3>2, ConnectionsAssumption DEF NeedsPeers
    <2>5. /\ {Cardinality(InAdmission), Cardinality(Admitted'), Cardinality(Entries)} \subseteq Nat
          /\ peak \in Nat /\ MaxPeers \in Nat
        BY Counted, ConnectionsAssumption DEF Typed, TypeOK
    <2>6. QED
        BY <1>1, <2>2, <2>3, <2>4, <2>5 DEF BoundInv
<1>4. QED
    BY <1>2, <1>3

LEMMA BoundStored ==
    ASSUME Typed, BoundInv, NEW c \in Conns, addIBPeer(c)
    PROVE  BoundInv'
<1>1. /\ Become(c, "listed") /\ conn[c].st = "admit" /\ UNCHANGED peak
      /\ ib' = [ib EXCEPT ![conn[c].addr] = c] /\ conn[c].addr \in Addrs
    BY DEF addIBPeer, Typed, Placed
<1>2. conn'[c].st = "listed" /\ \A o \in Conns \ {c} : conn'[o] = conn[o]
    BY <1>1, BecomeFacts DEF Typed, States
<1>3. /\ InAdmission' \in SUBSET InAdmission
      /\ Admitted' = Admitted \ {c} /\ c \in Admitted
    BY <1>1, <1>2 DEF InAdmission, Admitted
<1>4. PICK a \in Addrs : a = conn[c].addr
    BY <1>1
<1>5. Entries' \in SUBSET (Entries \union {a})
    BY <1>1, <1>4 DEF Entries, Typed, TypeOK
<1>6. /\ Cardinality(InAdmission') <= Cardinality(InAdmission)
      /\ Cardinality(Admitted') = Cardinality(Admitted) - 1
    BY <1>3, Counted, FS_Subset, FS_RemoveElement
<1>7. Cardinality(Entries') <= Cardinality(Entries) + 1
    <2>1. /\ Cardinality(Entries') <= Cardinality(Entries \union {a})
          /\ Entries \union {a} \in SUBSET Addrs
        BY <1>5, Counted, FS_Subset
    <2>2. \/ Cardinality(Entries \union {a}) = Cardinality(Entries)
          \/ Cardinality(Entries \union {a}) = Cardinality(Entries) + 1
        BY Counted, FS_AddElement
    <2>3. {Cardinality(Entries'), Cardinality(Entries), Cardinality(Entries \union {a})}
              \subseteq Nat
        BY <2>1, Counted
    <2>4. QED
        BY <2>1, <2>2, <2>3
<1>8. /\ {Cardinality(InAdmission), Cardinality(InAdmission'), Cardinality(Admitted),
          Cardinality(Entries), Cardinality(Entries')} \subseteq Nat
      /\ peak \in Nat /\ MaxPeers \in Nat
    BY Counted, ConnectionsAssumption DEF Typed, TypeOK
<1>9. QED
    BY <1>1, <1>6, <1>7, <1>8 DEF BoundInv

LEMMA BoundStep ==
    ASSUME Typed, BoundInv, [Next]_vars
    PROVE  BoundInv'
<1>1. ASSUME UNCHANGED peak, Entries' \subseteq Entries,
             \A c \in Conns : /\ conn'[c].st = "admit" => conn[c].st = "admit"
                              /\ conn'[c].st \in {"hello", "test", "admit"} =>
                                     conn[c].st \in {"hello", "test", "admit"}
      PROVE  BoundInv'
    <2>1. InAdmission' \subseteq InAdmission /\ Admitted' \subseteq Admitted
        BY <1>1 DEF InAdmission, Admitted
    <2>2. QED
        BY <1>1, <2>1, BoundFrame
<1>2. ASSUME NEW c \in Conns,
             \/ TurnAway(c) \/ TestDuplicate(c) \/ Start(c) \/ doClose(c)
             \/ onPeerDisconnected(c)
      PROVE  BoundInv'
    <2>1. /\ UNCHANGED peak /\ Entries' \subseteq Entries
          /\ \E st \in {"closed", "refused", "test", "open", "removed"} :
                 Become(c, st) /\ (st = "test" => conn[c].st = "hello")
        BY <1>2 DEF TurnAway, TestDuplicate, Start, doClose, onPeerDisconnected, Entries, Typed,
                    TypeOK
    <2>2. PICK st \in {"closed", "refused", "test", "open", "removed"} :
              Become(c, st) /\ (st = "test" => conn[c].st = "hello")
        BY <2>1
    <2>3. conn'[c].st = st /\ \A o \in Conns \ {c} : conn'[o] = conn[o]
        BY <2>2, BecomeFacts DEF Typed, States
    <2>4. QED
        BY <1>1, <2>1, <2>2, <2>3
<1>3. ASSUME NEW d \in Dialers, NEW c \in Conns, addOBPeer(d, c) PROVE BoundInv'
    <2>1. /\ UNCHANGED <<ib, peak>> /\ conn'[c].st = "listed"
          /\ \A o \in Conns \ {c} : conn'[o] = conn[o]
        BY <1>3 DEF addOBPeer, Typed, TypeOK
    <2>2. QED
        BY <1>1, <2>1 DEF Entries
<1>4. ASSUME NEW d \in Dialers, Dialing(d) \/ \E a \in Addrs : addPeers(d, a)
      PROVE  UNCHANGED <<conn, ib, peak>>
    BY <1>4 DEF Dialing, PersistPeer, DialPeer, DialFails, addPeers
<1>5. ASSUME NEW c \in Conns, End(c) \/ CloseConn(c) PROVE UNCHANGED <<conn, ib, peak>>
    BY <1>5 DEF End, CloseConn
<1>6. Close \/ StartTorrent \/ PopDelete \/ (\E a \in Addrs : PopVisit(a)) \/ UNCHANGED vars =>
          UNCHANGED <<conn, ib, peak>>
    BY DEF Close, StartTorrent, PopDelete, PopVisit, vars
<1>7. UNCHANGED <<conn, ib, peak>> => BoundInv'
    BY <1>1 DEF Entries
<1>8. QED
    BY <1>2, <1>3, <1>4, <1>5, <1>6, <1>7, BoundArrive, BoundTestLimit, BoundStored
       DEF Next, Admission, Life, PeerExchange

(* MaxPeers is exceeded by at most as many inbound connections as have     *)
(* ever been in admission at one time, whatever the limit: the test and    *)
(* the store are apart (torrent.go:699,710), so each one in admission may  *)
(* pass the test before any of them is stored, and no more.                *)
THEOREM BoundCorrect == Spec => []InboundBound
<1>1. Init => BoundInv
    <2> SUFFICES ASSUME Init PROVE BoundInv
        OBVIOUS
    <2>1. InAdmission = {} /\ Admitted = {} /\ Entries = {} /\ peak = 0
        BY DEF Init, InAdmission, Admitted, Entries
    <2>2. QED
        BY <2>1, FS_EmptySet, ConnectionsAssumption DEF BoundInv
<1>2. Typed /\ BoundInv => InboundBound
    <2> SUFFICES ASSUME Typed, BoundInv PROVE InboundBound
        OBVIOUS
    <2>1. /\ Cardinality(Admitted) \in Nat /\ Cardinality(Entries) \in Nat
          /\ peak \in Nat /\ MaxPeers \in Nat
        BY Counted, ConnectionsAssumption DEF Typed, TypeOK
    <2>2. QED
        BY <2>1 DEF BoundInv, InboundBound
<1>3. Typed /\ BoundInv /\ [Next]_vars => Typed' /\ BoundInv'
    BY BoundStep, TypedStep
<1>4. QED
    BY <1>1, <1>2, <1>3, TypedInit, PTL DEF Spec

=============================================================================
