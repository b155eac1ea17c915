--------------------------- MODULE NetworkProofs ---------------------------
(***************************************************************************)
(* Safety of the network context for any number of callers, sessions and   *)
(* faults, with a keyfile and without.                                     *)
(***************************************************************************)
EXTENDS Network, TLAPS

-----------------------------------------------------------------------------
(* Types.                                                                  *)

AccType == [pc : {"top", "get", "accept", "report", "sleep", "end"}, n : {None} \union Sessions]
CallerType == [pc : {"idle", "get", "have", "wait"}, n : {None} \union Sessions]

(* What only the router and the manager change ...                         *)
SamType ==
    /\ sess \in [Sessions -> {"new", "open", "dead"}]
    /\ key \in [Sessions -> {None} \union Sessions]
    /\ keyfile \in {None, Torn} \union Sessions
    /\ made \in Sessions
    /\ queue \in [Sessions -> Seq(Callers)]
    /\ server \in [Sessions -> {"off", "idle"} \union Callers]
    /\ faults \in 0 .. MaxFaults

(* ... and the goroutines of the swarm.                                    *)
SwarmType ==
    /\ mgr \in {"open", "give", "run", "lost", "create", "end"}
    /\ net \in {None} \union Sessions
    /\ loop \in {"top", "offer", "end"}
    /\ acc \in AccType
    /\ caller \in [Callers -> CallerType]
    /\ closing \in BOOLEAN

LEMMA TypeParts == (TypeOK <=> SamType /\ SwarmType) /\ (TypeOK' <=> SamType' /\ SwarmType')
BY DEF TypeOK, SamType, SwarmType, AccType, CallerType

LEMMA TypeInit == Init => TypeOK
<1> SUFFICES ASSUME Init PROVE TypeOK
    OBVIOUS
<1>1. 1 \in Sessions /\ 0 \in 0 .. MaxFaults /\ <<>> \in Seq(Callers)
    BY NetworkAssumption DEF Sessions
<1>2. QED
    BY <1>1 DEF Init, Idle, TypeOK

LEMMA EnsureType ==
    ASSUME SamType, ensure(made)
    PROVE  /\ key' \in [Sessions -> {None} \union Sessions]
           /\ keyfile' \in {None, Torn} \union Sessions
           /\ key'[made] = IF keyfile = None THEN made ELSE keyfile
           /\ \A s \in Sessions \ {made} : key'[s] = key[s]
BY DEF SamType, ensure

LEMMA FaultType == ASSUME SamType, Fault PROVE faults' \in 0 .. MaxFaults /\ faults' = faults + 1
BY NetworkAssumption DEF SamType, Fault

LEMMA TypeManager ==
    ASSUME TypeOK, ManagerStep
    PROVE  TypeOK'
<1> USE TypeParts
<1>1. CASE Open
    <2>1. sess' \in [Sessions -> {"new", "open", "dead"}]
          /\ server' \in [Sessions -> {"off", "idle"} \union Callers]
        BY <1>1 DEF Open, SamType
    <2>2. SamType'
        BY <1>1, <2>1, EnsureType DEF Open, SamType
    <2>3. QED
        BY <1>1, <2>2 DEF Open, SwarmType, swarmVars
<1>2. CASE OpenFails
    <2>1. sess' \in [Sessions -> {"new", "open", "dead"}]
        BY <1>2 DEF OpenFails, SamType
    <2>2. /\ key' \in [Sessions -> {None} \union Sessions]
          /\ keyfile' \in {None, Torn} \union Sessions
          /\ faults' \in 0 .. MaxFaults
        BY <1>2, EnsureType, FaultType DEF OpenFails, SamType
    <2>3. QED
        BY <1>2, <2>1, <2>2 DEF OpenFails, SamType, SwarmType, swarmVars
<1>3. CASE CreateSession
    <2>1. made' \in Sessions /\ sess' \in [Sessions -> {"new", "open", "dead"}]
        <3>1. CASE closing
            BY <1>3, <3>1 DEF CreateSession, SamType
        <3>2. CASE ~closing
            <4>1. made < MaxSessions => made + 1 \in Sessions
                BY NetworkAssumption DEF SamType, Sessions
            <4>2. QED
                BY <1>3, <3>2, <4>1 DEF CreateSession, SamType
        <3>3. QED
            BY <3>1, <3>2
    <2>2. QED
        BY <1>3, <2>1 DEF CreateSession, SamType, SwarmType, swarmVars, samVars
<1>4. QED
    BY <1>1, <1>2, <1>3 DEF ManagerStep

LEMMA TypeSession ==
    ASSUME TypeOK, NEW s \in Sessions, Die(s) \/ Lookup(s) \/ LookupReply(s)
    PROVE  TypeOK'
<1> USE TypeParts
<1>1. CASE Die(s)
    BY <1>1, FaultType DEF Die, SamType, SwarmType, swarmVars, samVars
<1>2. CASE Lookup(s)
    <2>1. Head(queue[s]) \in Callers /\ Tail(queue[s]) \in Seq(Callers)
        BY <1>2 DEF Lookup, SamType
    <2>2. QED
        BY <1>2, <2>1 DEF Lookup, SamType, SwarmType, swarmVars
<1>3. CASE LookupReply(s)
    <2>1. caller' \in [Callers -> CallerType]
        BY <1>3 DEF LookupReply, SwarmType, CallerType, Idle
    <2>2. server' \in [Sessions -> {"off", "idle"} \union Callers]
        BY <1>3 DEF LookupReply, SamType
    <2>3. QED
        BY <1>3, <2>1, <2>2 DEF LookupReply, SamType, SwarmType
<1>4. QED
    BY <1>1, <1>2, <1>3

LEMMA TypeCaller ==
    ASSUME TypeOK, NEW c \in Callers, CallNetwork(c) \/ Dial(c) \/ HandToCaller(c)
    PROVE  TypeOK'
<1> USE TypeParts
<1>1. caller' \in [Callers -> CallerType]
    BY DEF CallNetwork, Dial, HandToCaller, SwarmType, CallerType
<1>2. queue' \in [Sessions -> Seq(Callers)]
    <2>1. CASE Dial(c)
        <3>1. \A s \in Sessions : Append(queue[s], c) \in Seq(Callers)
            BY DEF SamType
        <3>2. QED
            BY <2>1, <3>1 DEF Dial, SamType
    <2>2. QED
        BY <2>1 DEF CallNetwork, HandToCaller, SamType, samVars
<1>3. QED
    BY <1>1, <1>2 DEF CallNetwork, Dial, HandToCaller, SamType, SwarmType, samVars

LEMMA TypeLoops ==
    ASSUME TypeOK, LoopStep \/ AcceptStep \/ HandToAccept \/ Accept \/ Close \/ CloseSession
    PROVE  TypeOK'
<1> USE TypeParts
<1>1. CASE LoopStep
    BY <1>1 DEF LoopStep, ObtainedNetwork, LostNetwork, OfferNetwork, NetLoopEnds,
                SamType, SwarmType, samVars
<1>2. CASE AcceptStep \/ HandToAccept \/ Accept
    <2>1. acc' \in AccType
        BY <1>2 DEF AcceptStep, AcceptLoop, AcceptFails, AcceptRefused, NetError, AcceptWakes,
                    HandToAccept, Accept, SwarmType, AccType
    <2>2. SamType'
        BY <1>2, FaultType DEF AcceptStep, AcceptLoop, AcceptFails, AcceptRefused, NetError,
                    AcceptWakes, HandToAccept, Accept, SamType, samVars
    <2>3. QED
        BY <1>2, <2>1, <2>2 DEF AcceptStep, AcceptLoop, AcceptFails, AcceptRefused, NetError,
                    AcceptWakes, HandToAccept, Accept, SwarmType
<1>3. CASE Close \/ CloseSession
    BY <1>3 DEF Close, CloseSession, SamType, SwarmType, samVars, swarmVars
<1>4. QED
    BY <1>1, <1>2, <1>3

LEMMA TypeStep == TypeOK /\ [Next]_vars => TypeOK'
<1> SUFFICES ASSUME TypeOK, [Next]_vars PROVE TypeOK'
    OBVIOUS
<1>1. CASE UNCHANGED vars
    BY <1>1 DEF vars, TypeOK
<1>2. CASE Next
    BY <1>2, TypeManager, TypeSession, TypeCaller, TypeLoops DEF Next
<1>3. QED
    BY <1>1, <1>2

(* Every variable keeps its type: a session, a key, a network is handed on *)
(* only when there is one (swarm.go:218-290, sam.go).                      *)
THEOREM TypeCorrect == Spec => []TypeOK
BY TypeInit, TypeStep, PTL DEF Spec

-----------------------------------------------------------------------------
(* The destination.                                                        *)

(* No session has a key but the one on disk: a session without a keyfile   *)
(* of its time would have to be followed by one that finds it, and a torn  *)
(* keyfile only comes before the first key.                                *)
KeyInv == Persistent => \A s \in Sessions : key[s] # None => keyfile = key[s]

LEMMA KeyEnsure ==
    ASSUME TypeOK, KeyInv, ensure(made)
    PROVE  KeyInv'
<1> SUFFICES ASSUME Persistent, NEW s \in Sessions, key'[s] # None PROVE keyfile' = key'[s]
    BY DEF KeyInv
<1>1. SamType /\ made \in Sessions /\ keyfile' = key'[made]
    BY TypeParts DEF SamType, ensure
<1>2. CASE s = made
    BY <1>1, <1>2
<1>3. CASE s # made
    <2>1. key'[s] = key[s] /\ keyfile = key[s]
        BY <1>1, <1>3, EnsureType DEF KeyInv
    <2>2. key'[made] = keyfile
        BY <1>1, <2>1, EnsureType
    <2>3. QED
        BY <1>1, <2>1, <2>2
<1>4. QED
    BY <1>2, <1>3

LEMMA KeyStep == TypeOK /\ KeyInv /\ [Next]_vars => KeyInv'
<1> SUFFICES ASSUME TypeOK, KeyInv, [Next]_vars PROVE KeyInv'
    OBVIOUS
<1>1. ASSUME UNCHANGED <<key, keyfile>> PROVE KeyInv'
    BY <1>1 DEF KeyInv
<1>2. CASE Open
    BY <1>2, KeyEnsure DEF Open
<1>3. CASE OpenFails
    <2>1. CASE Persistent /\ keyfile = None /\ keyfile' = Torn /\ UNCHANGED key
        BY <2>1 DEF KeyInv
    <2>2. QED
        BY <1>1, <1>3, <2>1, KeyEnsure DEF OpenFails
<1>4. CASE CreateSession \/ LoopStep \/ AcceptStep \/ HandToAccept \/ Accept \/ Close \/ CloseSession
    BY <1>1, <1>4 DEF CreateSession, LoopStep, ObtainedNetwork, LostNetwork, OfferNetwork,
        NetLoopEnds, AcceptStep, AcceptLoop, AcceptFails, AcceptRefused, NetError, AcceptWakes,
        HandToAccept, Accept, Close, CloseSession, samVars
<1>5. CASE \E s \in Sessions : Die(s) \/ Lookup(s) \/ LookupReply(s)
    BY <1>1, <1>5 DEF Die, Lookup, LookupReply, samVars
<1>6. CASE \E c \in Callers : CallNetwork(c) \/ Dial(c) \/ HandToCaller(c)
    BY <1>1, <1>6 DEF CallNetwork, Dial, HandToCaller, samVars
<1>7. CASE UNCHANGED vars
    BY <1>1, <1>7 DEF vars
<1>8. QED
    BY <1>2, <1>3, <1>4, <1>5, <1>6, <1>7 DEF Next, ManagerStep

(* With a keyfile all sessions have the same destination, however many are *)
(* opened and whichever step of opening one fails (keyfile.go:66-105).     *)
THEOREM DestinationCorrect == Spec => []SameDestination
<1>1. Init => KeyInv
    BY DEF Init, KeyInv
<1>2. KeyInv => SameDestination
    BY DEF KeyInv, SameDestination
<1>3. QED
    BY <1>1, <1>2, TypeInit, TypeStep, KeyStep, PTL DEF Spec

-----------------------------------------------------------------------------
(* The lost network.                                                       *)

(* What is offered is a network, and so is what acceptLoop accepts on.     *)
Handed ==
    /\ loop = "offer" => net # None
    /\ acc.pc = "accept" => acc.n # None

GoneInv == TypeOK /\ LostIsGone /\ Handed

LEMMA GoneInit == Init => GoneInv
BY TypeInit DEF Init, GoneInv, LostIsGone, Handed

LEMMA GoneStep == GoneInv /\ [Next]_vars => GoneInv'
<1> SUFFICES ASSUME GoneInv, [Next]_vars PROVE LostIsGone' /\ Handed'
    BY TypeStep DEF GoneInv
<1> USE DEF GoneInv, LostIsGone, Handed
<1>1. CASE ManagerStep
    BY <1>1 DEF ManagerStep, Open, OpenFails, CreateSession, swarmVars
<1>2. CASE LoopStep
    BY <1>2 DEF LoopStep, ObtainedNetwork, LostNetwork, OfferNetwork, NetLoopEnds
<1>3. CASE AcceptStep \/ HandToAccept \/ Accept
    BY <1>3, TypeParts DEF AcceptStep, AcceptLoop, AcceptFails, AcceptRefused, NetError,
                AcceptWakes, HandToAccept, Accept, SwarmType, AccType
<1>4. CASE Close \/ CloseSession
    BY <1>4 DEF Close, CloseSession, swarmVars
<1>5. CASE \E s \in Sessions : Die(s) \/ Lookup(s) \/ LookupReply(s)
    BY <1>5 DEF Die, Lookup, LookupReply, swarmVars
<1>6. CASE \E c \in Callers : CallNetwork(c) \/ Dial(c) \/ HandToCaller(c)
    BY <1>6 DEF CallNetwork, Dial, HandToCaller
<1>7. CASE UNCHANGED vars
    BY <1>7 DEF vars
<1>8. QED
    BY <1>1, <1>2, <1>3, <1>4, <1>5, <1>6, <1>7 DEF Next

(* Once LostNetwork has returned nobody is given the lost network, until   *)
(* the manager brings the next one (swarm.go:224-232).                     *)
THEOREM LostCorrect == Spec => []LostIsGone
<1>1. GoneInv => LostIsGone
    BY DEF GoneInv
<1>2. QED
    BY <1>1, GoneInit, GoneStep, PTL DEF Spec

-----------------------------------------------------------------------------
(* What a fault costs.                                                     *)

(* acceptLoop has an error to report, or is about to get one.              *)
Failing == acc.pc = "report" \/ (acc.pc = "accept" /\ sess[acc.n] = "dead")

(* The network on offer is dead, or the one that will be next.             *)
DeadOnOffer ==
    \/ mgr \in {"run", "lost"} /\ net # None /\ sess[net] = "dead"
    \/ mgr = "give" /\ sess[made] = "dead"

(* The sessions that are still to be made for the faults there have been.  *)
(* A dead network is taken twice, an error is reported once, and a lost    *)
(* network is replaced once.                                               *)
Due ==
    IF DeadOnOffer THEN 2
    ELSE (IF mgr \in {"lost", "create"} THEN 1 ELSE 0) + (IF Failing THEN 1 ELSE 0)

(* Every fault pays for two sessions, those still to be made included,     *)
(* until the swarm is closed: then no more are made.                       *)
CostInv ==
    keyfile # Torn =>
        /\ made <= 2 * faults + 1
        /\ ~closing => mgr # "end" /\ made + Due <= 2 * faults + 1

LEMMA DueFacts ==
    /\ Due \in Nat /\ Due' \in Nat /\ Due <= 2 /\ Due' <= 2
    /\ (DeadOnOffer => Due = 2) /\ (DeadOnOffer' => Due' = 2)
BY DEF Due

LEMMA Budget ==
    ASSUME NEW m \in Nat, NEW f \in Nat, NEW d \in Nat, NEW e \in Nat, m + d <= 2 * f + 1
    PROVE  /\ e <= d => m + e <= 2 * f + 1
           /\ e <= 2 => m + e <= 2 * (f + 1) + 1
           /\ d = e + 1 => m + 1 + e <= 2 * f + 1
           /\ m <= 2 * f + 1
OBVIOUS

(* Steps that spend a fault.                                               *)
LEMMA CostFault ==
    ASSUME GoneInv, CostInv, Fault, closing' = closing, made' = made,
           keyfile' # Torn => keyfile # Torn,
           mgr' # "end" \/ mgr' = mgr
    PROVE  CostInv'
<1>1. made \in Nat /\ faults \in Nat /\ faults' = faults + 1
    BY NetworkAssumption DEF GoneInv, TypeOK, Sessions, Fault
<1>2. made + Due <= 2 * faults + 1 => made + Due' <= 2 * (faults + 1) + 1
    BY <1>1, DueFacts, Budget, Zenon
<1>3. made <= 2 * faults + 1 => made <= 2 * (faults + 1) + 1
    BY <1>1
<1>4. QED
    BY <1>1, <1>2, <1>3, Zenon DEF CostInv

(* Steps that spend none.                                                  *)
LEMMA CostFrame ==
    ASSUME GoneInv, CostInv, faults' = faults, made' = made,
           keyfile' # Torn => keyfile # Torn,
           ~closing' => ~closing /\ Due' <= Due /\ (mgr' # "end" \/ mgr' = mgr)
    PROVE  CostInv'
<1>1. made \in Nat /\ faults \in Nat
    BY NetworkAssumption DEF GoneInv, TypeOK, Sessions
<1>2. Due' <= Due /\ made + Due <= 2 * faults + 1 => made + Due' <= 2 * faults + 1
    BY <1>1, DueFacts, Budget, Zenon
<1>3. QED
    BY <1>1, <1>2, Zenon DEF CostInv

LEMMA CostManager ==
    ASSUME GoneInv, CostInv, ManagerStep
    PROVE  CostInv'
<1>1. /\ SamType /\ SwarmType /\ Handed
      /\ mgr \in {"create", "open"} => net = None
    BY TypeParts DEF GoneInv, LostIsGone
<1>2. CASE Open
    <2>1. sess'[made] = "open" /\ \A s \in Sessions : sess'[s] = "dead" => sess[s] = "dead"
        BY <1>1, <1>2 DEF Open, SamType
    <2>2. ~DeadOnOffer'
        BY <1>2, <2>1 DEF Open, DeadOnOffer
    <2>3. Failing' => Failing
        BY <1>1, <1>2, <2>1 DEF Open, Failing, SwarmType, AccType, Handed, swarmVars
    <2>4. Due' <= Due
        BY <1>2, <2>2, <2>3 DEF Open, Due
    <2>5. QED
        BY <1>2, <2>4, CostFrame DEF Open, ensure, swarmVars
<1>3. CASE OpenFails
    <2>1. CASE keyfile = Torn \/ keyfile' = Torn
        BY <1>3, <2>1 DEF OpenFails, ensure, CostInv
    <2>2. CASE keyfile # Torn /\ keyfile' # Torn
        BY <1>3, <2>2, CostFault DEF OpenFails, swarmVars
    <2>3. QED
        BY <2>1, <2>2
<1>4. CASE CreateSession
    <2>1. CASE closing \/ keyfile = Torn
        BY <1>4, <2>1 DEF CreateSession, CostInv, swarmVars, samVars
    <2>2. CASE ~closing /\ keyfile # Torn
        <3>1. made' = made + 1 /\ mgr = "create" /\ mgr' = "open" /\ UNCHANGED sess
            BY <1>4, <2>2 DEF CreateSession
        <3>2. ~DeadOnOffer' /\ ~DeadOnOffer /\ (Failing' <=> Failing)
            BY <1>4, <3>1 DEF CreateSession, DeadOnOffer, Failing, swarmVars
        <3>3. Due = Due' + 1
            BY <3>1, <3>2 DEF Due
        <3>4. made \in Nat /\ faults \in Nat /\ UNCHANGED <<keyfile, faults, closing>>
            BY <1>1, <1>4, NetworkAssumption DEF SamType, Sessions, CreateSession, swarmVars, samVars
        <3>5. made + Due <= 2 * faults + 1 => made' + Due' <= 2 * faults + 1 /\ made' <= 2 * faults + 1
            <4>1. made + Due <= 2 * faults + 1 => made + 1 + Due' <= 2 * faults + 1
                BY <3>3, <3>4, DueFacts, Budget, Zenon
            <4>2. made + 1 \in Nat
                BY <3>4
            <4>3. QED
                BY <3>1, <3>4, <4>1, <4>2, DueFacts, Budget, Zenon
        <3>6. QED
            BY <2>2, <3>1, <3>4, <3>5 DEF CostInv
    <2>3. QED
        BY <2>1, <2>2
<1>5. QED
    BY <1>2, <1>3, <1>4 DEF ManagerStep

LEMMA CostLoop ==
    ASSUME GoneInv, CostInv, LoopStep
    PROVE  CostInv'
<1>1. /\ faults' = faults /\ made' = made /\ sess' = sess /\ acc' = acc
      /\ (keyfile' # Torn => keyfile # Torn) /\ (~closing' => ~closing)
      /\ mgr' # "end" \/ mgr' = mgr
      /\ (Failing' <=> Failing)
    BY DEF LoopStep, ObtainedNetwork, LostNetwork, OfferNetwork, NetLoopEnds, samVars, Failing
<1>2. CASE ObtainedNetwork
    <2>1. DeadOnOffer' => DeadOnOffer
        BY <1>1, <1>2 DEF ObtainedNetwork, DeadOnOffer
    <2>2. Due' <= Due
        BY <1>1, <1>2, <2>1, DueFacts DEF ObtainedNetwork, Due
    <2>3. QED
        BY <1>1, <2>2, CostFrame, Zenon
<1>3. CASE LostNetwork
    <2>1. ~DeadOnOffer'
        BY <1>3 DEF LostNetwork, DeadOnOffer
    <2>2. Due' <= Due
        BY <1>1, <1>3, <2>1 DEF LostNetwork, Due
    <2>3. QED
        BY <1>1, <2>2, CostFrame, Zenon
<1>4. CASE OfferNetwork \/ NetLoopEnds
    <2>1. Due' = Due
        BY <1>1, <1>4 DEF OfferNetwork, NetLoopEnds, Due, DeadOnOffer
    <2>2. QED
        BY <1>1, <2>1, CostFrame, DueFacts
<1>5. QED
    BY <1>2, <1>3, <1>4 DEF LoopStep

(* acceptLoop: an attempt on a dead network was due from the time it could *)
(* take it.                                                                *)
LEMMA CostAccept ==
    ASSUME GoneInv, CostInv, AcceptStep \/ HandToAccept \/ Accept
    PROVE  CostInv'
<1>1. SamType /\ SwarmType /\ Handed
    BY TypeParts DEF GoneInv
<1>2. CASE AcceptRefused
    BY <1>2, CostFault DEF AcceptRefused, samVars
<1>3. CASE ~AcceptRefused
    <2>1. /\ UNCHANGED <<keyfile, faults, made, closing, sess, net>>
          /\ mgr' = mgr \/ (acc.pc = "report" /\ acc'.pc = "sleep" /\ mgr = "run" /\ mgr' = "lost")
        BY <1>1, <1>3 DEF AcceptStep, AcceptLoop, AcceptFails, NetError, AcceptWakes, HandToAccept,
                    Accept, samVars, SwarmType, AccType
    <2>2. DeadOnOffer' <=> DeadOnOffer
        BY <2>1 DEF DeadOnOffer
    <2>3. CASE HandToAccept
        <3>1. acc' = [pc |-> "accept", n |-> net] /\ mgr' = mgr /\ loop = "offer"
            BY <2>3 DEF HandToAccept
        <3>2. Failing' /\ mgr # "end" => DeadOnOffer
            BY <1>1, <2>1, <3>1 DEF Failing, DeadOnOffer, Handed, GoneInv, LostIsGone, SwarmType
        <3>3. ~closing /\ keyfile # Torn => Due' <= Due
            BY <2>1, <2>2, <3>1, <3>2, DueFacts DEF Due, CostInv
        <3>4. CASE closing \/ keyfile = Torn
            BY <2>1, <3>1, <3>4 DEF CostInv
        <3>5. QED
            BY <2>1, <3>1, <3>3, <3>4, CostFrame
    <2>4. CASE ~HandToAccept
        <3>1. /\ Failing' => Failing
              /\ mgr' # mgr => Failing /\ ~Failing'
            BY <1>1, <1>3, <2>1, <2>4 DEF AcceptStep, AcceptLoop, AcceptFails, NetError, AcceptWakes,
                        Accept, samVars, SwarmType, AccType, Failing
        <3>2. Due' <= Due
            BY <2>1, <2>2, <3>1 DEF Due
        <3>3. QED
            BY <2>1, <3>2, CostFrame
    <2>5. QED
        BY <2>3, <2>4
<1>4. QED
    BY <1>2, <1>3

LEMMA CostStep == GoneInv /\ CostInv /\ [Next]_vars => CostInv'
<1> SUFFICES ASSUME GoneInv, CostInv, [Next]_vars PROVE CostInv'
    OBVIOUS
<1>1. ASSUME UNCHANGED <<keyfile, faults, made, sess, acc, net, mgr>>, closing' = closing \/ closing'
      PROVE  CostInv'
    <2>1. Due' <= Due
        <3>1. Due' = Due /\ Due \in 0 .. 2
            BY <1>1 DEF Due, DeadOnOffer, Failing
        <3>2. QED
            BY <3>1
    <2>2. /\ faults' = faults /\ made' = made /\ mgr' = mgr
          /\ (keyfile' # Torn => keyfile # Torn) /\ (~closing' => ~closing)
        BY <1>1
    <2>3. QED
        BY <2>1, <2>2, CostFrame, Zenon
<1>2. CASE ManagerStep \/ LoopStep \/ AcceptStep \/ HandToAccept \/ Accept
    BY <1>2, CostManager, CostLoop, CostAccept
<1>3. CASE Close
    BY <1>1, <1>3 DEF Close, samVars
<1>4. CASE CloseSession
    BY <1>4 DEF CloseSession, CostInv, swarmVars, samVars
<1>5. CASE \E s \in Sessions : Die(s)
    BY <1>5, CostFault DEF Die, swarmVars, samVars
<1>6. CASE \E s \in Sessions : Lookup(s) \/ LookupReply(s)
    BY <1>1, <1>6 DEF Lookup, LookupReply, swarmVars
<1>7. CASE \E c \in Callers : CallNetwork(c) \/ Dial(c) \/ HandToCaller(c)
    BY <1>1, <1>7 DEF CallNetwork, Dial, HandToCaller, samVars
<1>8. CASE UNCHANGED vars
    BY <1>1, <1>8 DEF vars
<1>9. QED
    BY <1>2, <1>3, <1>4, <1>5, <1>6, <1>7, <1>8 DEF Next

(* One fault costs at most two sessions, however long XD runs and whatever *)
(* the order of faults, reports and hand-outs (swarm.go:247, 270).         *)
THEOREM CostCorrect == Spec => []FaultCost
<1>1. Init => CostInv
    BY NetworkAssumption DEF Init, CostInv, Due, DeadOnOffer, Failing
<1>2. CostInv => FaultCost
    BY DEF CostInv, FaultCost
<1>3. QED
    BY <1>1, <1>2, GoneInit, GoneStep, CostStep, PTL DEF Spec

-----------------------------------------------------------------------------
(* The network context implements Context.                                 *)

Dialing == [c \in Callers |-> caller[c].n]

X == INSTANCE Context WITH
    Users <- Callers, Networks <- Sessions,
    current <- net, dialing <- Dialing, accepting <- acc.n

Networks == {caller[c].n : c \in Callers} \union {acc.n}

(* The network on hand is the last session made; nobody has one that is    *)
(* being opened; and those who wait for a network have none.  A session is *)
(* made anew under the same number only when its keyfile was torn, and     *)
(* then nobody ever had it.                                                *)
UseInv ==
    /\ net # None => net = made
    /\ \A m \in Networks : m # None => m <= made
    /\ mgr \in {"open", "give"} \/ (mgr = "create" /\ keyfile = Torn) =>
         \A m \in Networks : m # None => m < made
    /\ mgr \in {"give", "run", "lost"} => keyfile # Torn
    /\ \A c \in Callers : caller[c].pc \in {"idle", "get"} => caller[c].n = None
    /\ acc.pc = "get" => acc.n = None

LEMMA NetworksType == TypeOK => \A m \in Networks : m # None => m \in Nat
BY TypeParts DEF SwarmType, CallerType, AccType, Networks, Sessions

LEMMA UseInit == Init => UseInv /\ X!Init
BY DEF Init, Idle, UseInv, Networks, X!Init, Dialing

(* Steps that leave the networks where they are.                           *)
LEMMA UseSame ==
    ASSUME UseInv, UNCHANGED <<net, made, keyfile, mgr>>,
           UNCHANGED <<caller, acc>>
    PROVE  UseInv' /\ UNCHANGED <<net, Dialing, acc.n>>
BY DEF UseInv, Networks, Dialing

LEMMA UseManager ==
    ASSUME GoneInv, UseInv, ManagerStep
    PROVE  UseInv' /\ UNCHANGED <<net, Dialing, acc.n>>
<1>a. TypeOK /\ TypeOK'
    BY TypeManager DEF GoneInv
<1>0. made \in Nat
    BY <1>a DEF TypeOK, Sessions
<1>1. UNCHANGED <<net, caller, acc>>
    BY DEF ManagerStep, Open, OpenFails, CreateSession, swarmVars
<1>2. Networks' = Networks /\ UNCHANGED Dialing
    BY <1>1 DEF Networks, Dialing
<1>3. CASE Open
    <2>1. keyfile' # Torn
        <3>1. keyfile' = key'[made] \/ keyfile' = None
            BY <1>3 DEF Open, ensure
        <3>2. key'[made] \in {None} \union Sessions
            BY <1>a DEF TypeOK
        <3>3. QED
            BY <3>1, <3>2, NetworkAssumption DEF Sessions
    <2>2. mgr = "open" /\ mgr' = "give" /\ made' = made
        BY <1>3 DEF Open
    <2>3. QED
        BY <1>1, <1>2, <2>1, <2>2 DEF UseInv
<1>4. CASE OpenFails
    <2>1. mgr = "open" /\ mgr' = "create" /\ made' = made
        BY <1>4 DEF OpenFails
    <2>2. QED
        BY <1>1, <1>2, <2>1 DEF UseInv
<1>5. CASE CreateSession
    <2>1. /\ mgr = "create" /\ mgr' \in {"open", "end"} /\ keyfile' = keyfile
          /\ made' = made \/ made' = made + 1
          /\ mgr' = "open" => made' = made + 1 \/ keyfile = Torn
        BY <1>5 DEF CreateSession, samVars
    <2>2. net = None
        BY <2>1 DEF GoneInv, LostIsGone
    <2>3. \A m \in Networks : m # None => m \in Nat
        BY <1>a, NetworksType
    <2>4. QED
        BY <1>0, <1>1, <1>2, <2>1, <2>2, <2>3 DEF UseInv
<1>6. QED
    BY <1>1, <1>2, <1>3, <1>4, <1>5 DEF ManagerStep

LEMMA UseLoop ==
    ASSUME GoneInv, UseInv, LoopStep
    PROVE  UseInv' /\ (X!Obtain \/ X!Lose \/ UNCHANGED <<net, Dialing, acc.n>>)
<1>0. UNCHANGED <<made, caller, acc, keyfile>> /\ made \in Sessions /\ net \in {None} \union Sessions
    BY DEF LoopStep, ObtainedNetwork, LostNetwork, OfferNetwork, NetLoopEnds, samVars, GoneInv,
           TypeOK
<1>1. Networks' = Networks /\ UNCHANGED <<Dialing, acc.n>>
    BY <1>0 DEF Networks, Dialing
<1>2. CASE ObtainedNetwork
    <2>1. mgr = "give" /\ mgr' = "run" /\ net' = made /\ net = None
        BY <1>2 DEF ObtainedNetwork, GoneInv, LostIsGone
    <2>2. X!Newer(made)
        BY <2>1 DEF UseInv, Networks, Dialing, X!Newer
    <2>3. X!Obtain
        BY <1>0, <1>1, <2>1, <2>2 DEF X!Obtain
    <2>4. QED
        BY <1>0, <1>1, <2>1, <2>3 DEF UseInv
<1>3. CASE LostNetwork
    <2>1. mgr = "lost" /\ mgr' = "create" /\ net' = None
        BY <1>3 DEF LostNetwork
    <2>2. X!Lose \/ UNCHANGED <<net, Dialing, acc.n>>
        BY <1>1, <2>1 DEF X!Lose
    <2>3. QED
        BY <1>0, <1>1, <2>1, <2>2 DEF UseInv
<1>4. CASE OfferNetwork \/ NetLoopEnds
    <2>1. UNCHANGED <<net, mgr>>
        BY <1>4 DEF OfferNetwork, NetLoopEnds
    <2>2. QED
        BY <1>0, <2>1, UseSame
<1>5. QED
    BY <1>2, <1>3, <1>4 DEF LoopStep

LEMMA UseAccept ==
    ASSUME GoneInv, UseInv, AcceptStep \/ HandToAccept \/ Accept
    PROVE  UseInv' /\ (X!TakeInbound \/ X!DropInbound \/ UNCHANGED <<net, Dialing, acc.n>>)
<1>0. /\ UNCHANGED <<made, net, caller, keyfile>> /\ made \in Nat
      /\ acc \in AccType
      /\ mgr' = mgr \/ (mgr = "run" /\ mgr' = "lost")
    BY DEF AcceptStep, AcceptLoop, AcceptFails, AcceptRefused, NetError, AcceptWakes,
           HandToAccept, Accept, samVars, GoneInv, TypeOK, AccType, Sessions
<1>1. UNCHANGED Dialing
    BY <1>0 DEF Dialing
<1>2. CASE HandToAccept
    <2>1. /\ net # None /\ acc.n = None /\ acc' = [pc |-> "accept", n |-> net]
          /\ UNCHANGED mgr /\ net = made
        BY <1>2 DEF HandToAccept, GoneInv, Handed, UseInv
    <2>2. X!TakeInbound
        BY <1>0, <1>1, <2>1 DEF X!TakeInbound
    <2>3. mgr \notin {"open", "give", "create"}
        BY <2>1 DEF GoneInv, LostIsGone
    <2>4. Networks' \subseteq Networks \union {made}
        BY <1>0, <2>1 DEF Networks
    <2>5. QED
        BY <1>0, <2>1, <2>2, <2>3, <2>4 DEF UseInv
<1>3. CASE AcceptStep \/ Accept
    <2>1. acc'.n \in {acc.n, None} /\ (acc'.pc = "get" => acc'.n = None)
        <3>1. AcceptLoop \/ Accept => acc'.n = None
            BY DEF AcceptLoop, Accept
        <3>2. ASSUME NEW pc, acc' = [acc EXCEPT !.pc = pc] PROVE acc'.n = acc.n /\ acc'.pc = pc
            BY <1>0, <3>2 DEF AccType
        <3>3. AcceptFails \/ AcceptRefused \/ NetError \/ AcceptWakes =>
                \E pc \in {"report", "sleep", "top"} : acc' = [acc EXCEPT !.pc = pc]
            BY DEF AcceptFails, AcceptRefused, NetError, AcceptWakes
        <3>4. QED
            BY <1>3, <3>1, <3>2, <3>3 DEF AcceptStep
    <2>2. Networks' \subseteq Networks \union {None}
        BY <1>0, <2>1 DEF Networks
    <2>3. X!DropInbound \/ UNCHANGED <<net, Dialing, acc.n>>
        BY <1>0, <1>1, <2>1 DEF X!DropInbound
    <2>4. QED
        BY <1>0, <2>1, <2>2, <2>3 DEF UseInv
<1>4. QED
    BY <1>2, <1>3

LEMMA UseCaller ==
    ASSUME GoneInv, UseInv, NEW c \in Callers,
           \/ CallNetwork(c) \/ Dial(c) \/ HandToCaller(c)
           \/ \E s \in Sessions : LookupReply(s) /\ server[s] = c
    PROVE  UseInv' /\ (X!Take(c) \/ X!Drop(c) \/ UNCHANGED <<net, Dialing, acc.n>>)
<1>0. /\ UNCHANGED <<made, net, acc, mgr, keyfile>> /\ made \in Nat
      /\ caller \in [Callers -> CallerType]
    BY DEF CallNetwork, Dial, HandToCaller, LookupReply, samVars, GoneInv, TypeOK, CallerType,
           Sessions
<1>1. CASE HandToCaller(c)
    <2>1. /\ net # None /\ caller[c].n = None /\ net = made
          /\ caller' = [caller EXCEPT ![c] = [pc |-> "have", n |-> net]]
        BY <1>1 DEF HandToCaller, GoneInv, Handed, UseInv
    <2>2. Dialing' = [Dialing EXCEPT ![c] = net]
        BY <1>0, <2>1 DEF Dialing
    <2>3. X!Take(c)
        BY <1>0, <2>1, <2>2 DEF X!Take, Dialing
    <2>4. mgr \notin {"open", "give", "create"}
        BY <2>1 DEF GoneInv, LostIsGone
    <2>5. Networks' \subseteq Networks \union {made}
        BY <1>0, <2>1 DEF Networks
    <2>6. \A d \in Callers : caller'[d].pc \in {"idle", "get"} => caller'[d].n = None
        BY <1>0, <2>1 DEF UseInv
    <2>7. QED
        BY <1>0, <2>3, <2>4, <2>5, <2>6 DEF UseInv
<1>2. CASE CallNetwork(c) \/ Dial(c)
    <2>1. /\ \A d \in Callers : caller'[d].n = caller[d].n
          /\ \A d \in Callers \ {c} : caller'[d] = caller[d]
          /\ caller'[c].pc \in {"idle", "get"} => caller[c].pc = "idle"
        BY <1>0, <1>2 DEF CallNetwork, Dial, CallerType
    <2>2. Networks' = Networks /\ Dialing' = Dialing
        BY <1>0, <2>1 DEF Networks, Dialing
    <2>3. QED
        BY <1>0, <2>1, <2>2 DEF UseInv
<1>3. CASE \E s \in Sessions : LookupReply(s) /\ server[s] = c
    <2>1. caller' = [caller EXCEPT ![c] = Idle]
        BY <1>3 DEF LookupReply
    <2>2. Dialing' = [Dialing EXCEPT ![c] = None]
        BY <1>0, <2>1 DEF Dialing, Idle
    <2>3. X!Drop(c) \/ UNCHANGED <<net, Dialing, acc.n>>
        BY <1>0, <2>2 DEF X!Drop, Dialing
    <2>4. Networks' \subseteq Networks \union {None}
        BY <1>0, <2>1 DEF Networks, Idle
    <2>5. \A d \in Callers : caller'[d].pc \in {"idle", "get"} => caller'[d].n = None
        BY <1>0, <2>1 DEF UseInv, Idle
    <2>6. QED
        BY <1>0, <2>3, <2>4, <2>5 DEF UseInv
<1>4. QED
    BY <1>1, <1>2, <1>3

LEMMA UseStep ==
    ASSUME GoneInv, UseInv, [Next]_vars
    PROVE  UseInv' /\ [X!Next]_<<net, Dialing, acc.n>>
<1>1. CASE ManagerStep
    BY <1>1, UseManager
<1>2. CASE LoopStep
    BY <1>2, UseLoop DEF X!Next
<1>3. CASE AcceptStep \/ HandToAccept \/ Accept
    BY <1>3, UseAccept DEF X!Next
<1>4. CASE Close \/ CloseSession
    BY <1>4, UseSame DEF Close, CloseSession, swarmVars, samVars
<1>5. CASE \E s \in Sessions : Die(s) \/ Lookup(s)
    BY <1>5, UseSame DEF Die, Lookup, swarmVars, samVars
<1>6. CASE \E s \in Sessions : LookupReply(s)
    BY <1>6, UseCaller DEF LookupReply, X!Next
<1>7. CASE \E c \in Callers : CallNetwork(c) \/ Dial(c) \/ HandToCaller(c)
    BY <1>7, UseCaller DEF X!Next
<1>8. CASE UNCHANGED vars
    BY <1>8, UseSame DEF vars
<1>9. QED
    BY <1>1, <1>2, <1>3, <1>4, <1>5, <1>6, <1>7, <1>8 DEF Next

(* Whatever sessions the manager opens, fails to open and loses, with any  *)
(* number of callers: those who call Network get the network on hand, each *)
(* network is newer than all that are still in use, and a lost one is      *)
(* given to nobody any more (swarm.go:215-289, xd.go:306-332).             *)
THEOREM NetworkImplementsContext == Spec => X!Spec
<1>1. Init => UseInv /\ X!Init
    BY UseInit
<1>2. GoneInv /\ UseInv /\ [Next]_vars => UseInv' /\ [X!Next]_<<net, Dialing, acc.n>>
    BY UseStep
<1>3. QED
    BY <1>1, <1>2, GoneInit, GoneStep, PTL DEF Spec, X!Spec
=============================================================================
