------------------------------ MODULE Network ------------------------------
(***************************************************************************)
(* The network context of a swarm (swarm.go, cmd/xd/xd.go) over sessions   *)
(* with a SAM router (network/i2p).  The goroutines: the manager           *)
(* (runI2PFunc) opens a session, gives it to the swarm and runs the swarm  *)
(* until an error; netLoop hands the session out to everybody who calls    *)
(* Network; acceptLoop accepts inbound connections and reports errors;     *)
(* each session has a goroutine that looks names up, one at a time, over   *)
(* the control connection.  All channels but the lookup queue are          *)
(* unbuffered: a send and its receive are one step.                        *)
(***************************************************************************)
EXTENDS Naturals, Sequences

CONSTANTS
    Callers,        \* goroutines that dial: announces, peers, downloads of torrents
    MaxSessions,    \* bound: sessions created
    LookupCap,      \* places in the lookup queue of a session
    MaxFaults,      \* bound: router faults and failed attempts
    Persistent,     \* whether a keyfile is configured
    None,           \* no network, no file, no key
    Torn            \* a keyfile that can't be parsed

ASSUME NetworkAssumption ==
    /\ MaxSessions \in Nat \ {0} /\ LookupCap \in Nat \ {0} /\ MaxFaults \in Nat
    /\ Persistent \in BOOLEAN
    /\ {None, Torn} \intersect (Callers \union Nat) = {} /\ None # Torn

VARIABLES
    sess,           \* the router's view of each session: "new", "open" or "dead"
    key,            \* the destination key of each session
    keyfile,        \* what the keyfile holds: None, Torn or a key
    made,           \* the number of sessions created
    mgr,            \* pc of the manager; its session is the last one made
    net,            \* netLoop's n
    loop,           \* pc of netLoop
    acc,            \* acceptLoop: pc and the network it accepts on
    caller,         \* callers of Network: pc and the network they were handed
    queue,          \* lookups waiting in each session's channel
    server,         \* runLookups of each session: "off", "idle" or the caller served
    closing,        \* Swarm.closing
    faults          \* for the bound

vars == <<sess, key, keyfile, made, mgr, net, loop, acc, caller, queue, server, closing, faults>>
swarmVars == <<net, loop, acc, caller, closing>>
samVars == <<key, keyfile, queue, server>>

Sessions == 1 .. MaxSessions

TypeOK ==
    /\ sess \in [Sessions -> {"new", "open", "dead"}]
    /\ key \in [Sessions -> {None} \union Sessions]
    /\ keyfile \in {None, Torn} \union Sessions
    /\ made \in Sessions
    /\ mgr \in {"open", "give", "run", "lost", "create", "end"}
    /\ net \in {None} \union Sessions
    /\ loop \in {"top", "offer", "end"}
    /\ acc \in [pc : {"top", "get", "accept", "report", "sleep", "end"}, n : {None} \union Sessions]
    /\ caller \in [Callers -> [pc : {"idle", "get", "have", "wait"}, n : {None} \union Sessions]]
    /\ queue \in [Sessions -> Seq(Callers)]
    /\ server \in [Sessions -> {"off", "idle"} \union Callers]
    /\ closing \in BOOLEAN
    /\ faults \in 0 .. MaxFaults

Idle == [pc |-> "idle", n |-> None]

Init ==
    /\ sess = [s \in Sessions |-> "new"]
    /\ key = [s \in Sessions |-> None]
    /\ keyfile = None
    /\ made = 1
    /\ mgr = "open"
    /\ net = None
    /\ loop = "top"
    /\ acc = [pc |-> "top", n |-> None]
    /\ caller = [c \in Callers |-> Idle]
    /\ queue = [s \in Sessions |-> <<>>]
    /\ server = [s \in Sessions |-> "off"]
    /\ closing = FALSE
    /\ faults = 0

Fault == faults < MaxFaults /\ faults' = faults + 1

-----------------------------------------------------------------------------
(* The session: Open with its control connection, keys and lookups.        *)

\* mutant: a keyfile that cannot be parsed is taken for a key
ensureIgnoresError(s) ==
    /\ key' = [key EXCEPT ![s] = IF keyfile = None THEN s ELSE keyfile]
    /\ keyfile' = IF Persistent THEN key'[s] ELSE None

\* mutant: a new key in every session, stored over the old one
ensureGenerates(s) ==
    /\ keyfile # Torn
    /\ key' = [key EXCEPT ![s] = s]
    /\ keyfile' = IF Persistent THEN key'[s] ELSE None

(* Keyfile.ensure, when it succeeds: a key that is on disk is loaded; with *)
(* no file a new one is generated and stored; without a keyfile the key is *)
(* new in every session.                                                   *)
ensure(s) ==
    /\ keyfile # Torn
    /\ key' = [key EXCEPT ![s] = IF keyfile = None THEN s ELSE keyfile]
    /\ keyfile' = IF Persistent THEN key'[s] ELSE None

(* samSession.Open: keys, SESSION CREATE, the lookup goroutine and the     *)
(* lookup of ME.                                                           *)
Open ==
    /\ mgr = "open"
    /\ ensure(made)
    /\ sess' = [sess EXCEPT ![made] = "open"]
    /\ server' = [server EXCEPT ![made] = "idle"]
    /\ mgr' = "give"
    /\ UNCHANGED <<made, queue, faults>> /\ UNCHANGED swarmVars

\* mutant: the manager returns when a session can't be opened
OpenFailsGivesUp ==
    /\ mgr = "open"
    /\ \/ Fault /\ UNCHANGED <<key, keyfile>>
       \/ Fault /\ ensure(made)
       \/ Fault /\ Persistent /\ keyfile = None /\ keyfile' = Torn /\ UNCHANGED key
       \/ keyfile = Torn /\ UNCHANGED <<key, keyfile, faults>>
    /\ sess' = [sess EXCEPT ![made] = "dead"]
    /\ mgr' = "end"
    /\ UNCHANGED <<made, queue, server>> /\ UNCHANGED swarmVars

(* Open fails before or after the keys are there, or because the keyfile   *)
(* can't be parsed; Store creates the file before it writes the key, so a  *)
(* failing write leaves a torn one.  The session is closed and the manager *)
(* makes a new one.                                                        *)
OpenFails ==
    /\ mgr = "open"
    /\ \/ Fault /\ UNCHANGED <<key, keyfile>>
       \/ Fault /\ ensure(made)
       \/ Fault /\ Persistent /\ keyfile = None /\ keyfile' = Torn /\ UNCHANGED key
       \/ keyfile = Torn /\ UNCHANGED <<key, keyfile, faults>>
    /\ sess' = [sess EXCEPT ![made] = "dead"]
    /\ mgr' = "create"
    /\ UNCHANGED <<made, queue, server>> /\ UNCHANGED swarmVars

(* The next round of the manager's loop, with a session of its own; with a *)
(* torn keyfile it does not matter which.                                  *)
CreateSession ==
    /\ mgr = "create"
    /\ IF closing THEN mgr' = "end" /\ UNCHANGED <<made, sess>>
       ELSE /\ mgr' = "open"
            /\ \/ made < MaxSessions /\ made' = made + 1 /\ UNCHANGED sess
               \/ keyfile = Torn /\ made' = made /\ sess' = [sess EXCEPT ![made] = "new"]
    /\ UNCHANGED faults /\ UNCHANGED swarmVars /\ UNCHANGED samVars

(* The router or the control connection fails.                             *)
Die(s) ==
    /\ sess[s] = "open"
    /\ Fault
    /\ sess' = [sess EXCEPT ![s] = "dead"]
    /\ UNCHANGED <<made, mgr>> /\ UNCHANGED swarmVars /\ UNCHANGED samVars

(* runLookups takes a request and sends it to the router.                  *)
Lookup(s) ==
    /\ server[s] = "idle"
    /\ queue[s] # <<>>
    /\ server' = [server EXCEPT ![s] = Head(queue[s])]
    /\ queue' = [queue EXCEPT ![s] = Tail(@)]
    /\ UNCHANGED <<sess, key, keyfile, made, mgr, faults>> /\ UNCHANGED swarmVars

(* The router answers, and the caller dials or gives up; or reading fails, *)
(* the caller gets the error and the lookup goroutine ends.                *)
LookupReply(s) ==
    /\ server[s] \in Callers
    /\ caller' = [caller EXCEPT ![server[s]] = Idle]
    /\ server' = [server EXCEPT ![s] = IF sess[s] = "open" THEN "idle" ELSE "off"]
    /\ UNCHANGED <<sess, key, keyfile, made, mgr, net, loop, acc, queue, closing, faults>>

-----------------------------------------------------------------------------
(* The callers.                                                            *)

(* Network(): wait for netLoop to hand a network out.                      *)
CallNetwork(c) ==
    /\ caller[c].pc = "idle"
    /\ caller' = [caller EXCEPT ![c].pc = "get"]
    /\ UNCHANGED <<sess, made, mgr, net, loop, acc, closing, faults>> /\ UNCHANGED samVars

(* Dial looks the address up first: the request goes into the session's    *)
(* queue, and the caller waits for the answer.                             *)
Dial(c) ==
    LET s == caller[c].n IN
    /\ caller[c].pc = "have"
    /\ Len(queue[s]) < LookupCap
    /\ queue' = [queue EXCEPT ![s] = Append(@, c)]
    /\ caller' = [caller EXCEPT ![c].pc = "wait"]
    /\ UNCHANGED <<sess, key, keyfile, made, mgr, net, loop, acc, server, closing, faults>>

-----------------------------------------------------------------------------
(* The manager and the loops of the swarm.                                 *)

(* netLoop selects: a new network, a lost one, or else it offers the one   *)
(* it has; having none it sleeps.                                          *)
ObtainedNetwork ==
    /\ loop = "top" /\ ~closing /\ mgr = "give"
    /\ net' = made
    /\ mgr' = "run"
    /\ UNCHANGED <<sess, made, loop, acc, caller, closing, faults>> /\ UNCHANGED samVars

\* mutant: the lost network stays on offer
LostNetworkKeeps ==
    /\ loop = "top" /\ ~closing /\ mgr = "lost"
    /\ net' = net
    /\ mgr' = "create"
    /\ UNCHANGED <<sess, made, loop, acc, caller, closing, faults>> /\ UNCHANGED samVars

LostNetwork ==
    /\ loop = "top" /\ ~closing /\ mgr = "lost"
    /\ net' = None
    /\ mgr' = "create"
    /\ UNCHANGED <<sess, made, loop, acc, caller, closing, faults>> /\ UNCHANGED samVars

OfferNetwork ==
    /\ loop = "top" /\ ~closing /\ mgr \notin {"give", "lost"} /\ net # None
    /\ loop' = "offer"
    /\ UNCHANGED <<sess, made, mgr, net, acc, caller, closing, faults>> /\ UNCHANGED samVars

NetLoopEnds ==
    /\ loop = "top" /\ closing
    /\ loop' = "end"
    /\ UNCHANGED <<sess, made, mgr, net, acc, caller, closing, faults>> /\ UNCHANGED samVars

\* mutant: netLoop returns after handing out a network
HandToCallerEnds(c) ==
    /\ loop = "offer" /\ caller[c].pc = "get"
    /\ caller' = [caller EXCEPT ![c] = [pc |-> "have", n |-> net]]
    /\ loop' = "end"
    /\ UNCHANGED <<sess, made, mgr, net, acc, closing, faults>> /\ UNCHANGED samVars

(* The send on getNet completes with one of those who wait.                *)
HandToCaller(c) ==
    /\ loop = "offer" /\ caller[c].pc = "get"
    /\ caller' = [caller EXCEPT ![c] = [pc |-> "have", n |-> net]]
    /\ loop' = "top"
    /\ UNCHANGED <<sess, made, mgr, net, acc, closing, faults>> /\ UNCHANGED samVars

HandToAccept ==
    /\ loop = "offer" /\ acc.pc = "get"
    /\ acc' = [pc |-> "accept", n |-> net]
    /\ loop' = "top"
    /\ UNCHANGED <<sess, made, mgr, net, caller, closing, faults>> /\ UNCHANGED samVars

AcceptLoop ==
    /\ acc.pc = "top"
    /\ acc' = [pc |-> IF closing THEN "end" ELSE "get", n |-> None]
    /\ UNCHANGED <<sess, made, mgr, net, loop, caller, closing, faults>> /\ UNCHANGED samVars

(* Accept returns a connection, which goes to inboundConn, ...             *)
Accept ==
    /\ acc.pc = "accept" /\ sess[acc.n] = "open"
    /\ acc' = [pc |-> "top", n |-> None]
    /\ UNCHANGED <<sess, made, mgr, net, loop, caller, closing, faults>> /\ UNCHANGED samVars

(* ... or an error: the session is dead, ...                               *)
AcceptFails ==
    /\ acc.pc = "accept" /\ sess[acc.n] = "dead"
    /\ acc' = [acc EXCEPT !.pc = "report"]
    /\ UNCHANGED <<sess, made, mgr, net, loop, caller, closing, faults>> /\ UNCHANGED samVars

(* ... or just this attempt failed: the router refused it, or the name of  *)
(* the peer that connected could not be looked up.                         *)
AcceptRefused ==
    /\ acc.pc = "accept" /\ sess[acc.n] # "dead"
    /\ Fault
    /\ acc' = [acc EXCEPT !.pc = "report"]
    /\ UNCHANGED <<sess, made, mgr, net, loop, caller, closing>> /\ UNCHANGED samVars

\* mutant: the same error is sent again
NetErrorRepeated ==
    /\ acc.pc = "report" /\ mgr = "run"
    /\ acc' = [acc EXCEPT !.pc = "report"]
    /\ mgr' = "lost"
    /\ UNCHANGED <<sess, made, net, loop, caller, closing, faults>> /\ UNCHANGED samVars

(* The error reaches Run, which returns it, and the manager calls          *)
(* LostNetwork; acceptLoop sleeps for a second before it goes on.          *)
NetError ==
    /\ acc.pc = "report" /\ mgr = "run"
    /\ acc' = [acc EXCEPT !.pc = "sleep"]
    /\ mgr' = "lost"
    /\ UNCHANGED <<sess, made, net, loop, caller, closing, faults>> /\ UNCHANGED samVars

AcceptWakes ==
    /\ acc.pc = "sleep"
    /\ acc' = [acc EXCEPT !.pc = "top"]
    /\ UNCHANGED <<sess, made, mgr, net, loop, caller, closing, faults>> /\ UNCHANGED samVars

(* Swarm.Close sets the flag the loops poll.                               *)
Close ==
    /\ ~closing
    /\ closing' = TRUE
    /\ UNCHANGED <<sess, made, mgr, net, loop, acc, caller, faults>> /\ UNCHANGED samVars

(* An interrupt closes the swarms first, and then what is registered: the  *)
(* manager's session is.                                                   *)
CloseSession ==
    /\ closing /\ sess[made] = "open"
    /\ sess' = [sess EXCEPT ![made] = "dead"]
    /\ UNCHANGED <<made, mgr, faults>> /\ UNCHANGED swarmVars /\ UNCHANGED samVars

(* The manager of I2P sessions; the one of Lokinet's goes through the same *)
(* rounds.                                                                 *)
ManagerStep == Open \/ OpenFails \/ CreateSession
LoopStep == ObtainedNetwork \/ LostNetwork \/ OfferNetwork \/ NetLoopEnds
AcceptStep == AcceptLoop \/ AcceptFails \/ AcceptRefused \/ NetError \/ AcceptWakes

Next ==
    \/ ManagerStep \/ LoopStep \/ AcceptStep \/ HandToAccept \/ Accept \/ Close \/ CloseSession
    \/ \E s \in Sessions : Die(s) \/ Lookup(s) \/ LookupReply(s)
    \/ \E c \in Callers : CallNetwork(c) \/ Dial(c) \/ HandToCaller(c)

(* Goroutines run; those who wait on getNet are served in the order they   *)
(* came, so nobody waits for ever while others are served; the router      *)
(* answers.  Nothing is assumed of faults, of inbound connections and of   *)
(* what the callers do next.                                               *)
Fairness ==
    /\ WF_vars(Open \/ CreateSession \/ (keyfile = Torn /\ OpenFails))
    /\ WF_vars(LoopStep)
    /\ WF_vars(AcceptLoop \/ AcceptFails \/ NetError \/ AcceptWakes)
    /\ SF_vars(HandToAccept)
    /\ \A s \in Sessions : WF_vars(Lookup(s) \/ LookupReply(s))
    /\ \A c \in Callers : SF_vars(HandToCaller(c)) /\ SF_vars(Dial(c))

Spec == Init /\ [][Next]_vars /\ Fairness

-----------------------------------------------------------------------------
(* Properties.                                                             *)

(* Once LostNetwork has returned nobody is given the lost network: netLoop *)
(* has none until the manager brings the next one (swarm.go:224-232).      *)
LostIsGone == mgr \in {"create", "open", "give"} => net = None /\ loop # "offer"

(* One fault costs at most two sessions.  The second one: while the lost   *)
(* network is still on offer acceptLoop takes it, fails on it too, and     *)
(* that error is waiting when Run is called for the next, healthy session  *)
(* (swarm.go:247,270).                                                     *)
FaultCost == keyfile # Torn => made <= 2 * faults + 1

(* With a keyfile, XD has the same destination in every session, whichever *)
(* step of opening one failed before (keyfile.go:66-105).                  *)
SameDestination ==
    Persistent => \A s, t \in Sessions : key[s] # None /\ key[t] # None => key[s] = key[t]

(* The manager runs the swarm on a network again, unless its keyfile is    *)
(* torn: LostNetwork and ObtainedNetwork return, although nobody but       *)
(* acceptLoop may be there to take the network netLoop is offering         *)
(* (swarm.go:224-232, 278, 286).                                           *)
BackOnline == []<>(mgr = "run" \/ closing \/ keyfile = Torn)

(* Whoever calls Network gets one, and a lookup is answered as long as the *)
(* session lives (sam.go:196).                                             *)
CallersServed ==
    \A c \in Callers :
        []<>(/\ caller[c].pc = "get" => closing \/ keyfile = Torn
             /\ caller[c].pc = "wait" => sess[caller[c].n] = "dead")
=============================================================================
