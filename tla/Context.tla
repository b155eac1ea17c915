------------------------------ MODULE Context ------------------------------
(***************************************************************************)
(* What the network context of a swarm promises to those who dial and to   *)
(* the one who accepts, without the manager, the loops and the router: at  *)
(* most one network is on hand, it is newer than all that anybody still    *)
(* uses, and everybody gets that one or waits.  A network that was lost    *)
(* goes on being used by those who have it, and nobody else ever gets it   *)
(* (lib/bittorrent/swarm/swarm.go).                                        *)
(***************************************************************************)
EXTENDS Integers

CONSTANTS Users, Networks, None

VARIABLES
    current,    \* the network on hand
    dialing,    \* the network each user dials on
    accepting   \* the one that inbound connections are accepted on

Newer(n) == \A m \in {dialing[u] : u \in Users} \union {accepting} : m # None => m < n

Init ==
    /\ current = None
    /\ dialing = [u \in Users |-> None]
    /\ accepting = None

Obtain ==
    /\ current = None
    /\ \E n \in Networks : Newer(n) /\ current' = n
    /\ UNCHANGED <<dialing, accepting>>

Lose ==
    /\ current # None
    /\ current' = None
    /\ UNCHANGED <<dialing, accepting>>

Take(u) ==
    /\ current # None /\ dialing[u] = None
    /\ dialing' = [dialing EXCEPT ![u] = current]
    /\ UNCHANGED <<current, accepting>>

Drop(u) ==
    /\ dialing[u] # None
    /\ dialing' = [dialing EXCEPT ![u] = None]
    /\ UNCHANGED <<current, accepting>>

TakeInbound ==
    /\ current # None /\ accepting = None
    /\ accepting' = current
    /\ UNCHANGED <<current, dialing>>

DropInbound ==
    /\ accepting # None
    /\ accepting' = None
    /\ UNCHANGED <<current, dialing>>

Next ==
    \/ Obtain \/ Lose \/ TakeInbound \/ DropInbound
    \/ \E u \in Users : Take(u) \/ Drop(u)

Spec == Init /\ [][Next]_<<current, dialing, accepting>>
=============================================================================
