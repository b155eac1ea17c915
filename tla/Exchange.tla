------------------------------ MODULE Exchange ------------------------------
(***************************************************************************)
(* What a connection between two XDs promises, without its messages, flags *)
(* and goroutines: each end learns pieces that the other one really holds, *)
(* gets pieces it has learned of, and forgets neither.  Whatever else an   *)
(* end comes by is from outside of the connection (lib/bittorrent/swarm).  *)
(***************************************************************************)
EXTENDS Naturals

CONSTANTS Ends, Parts

VARIABLES
    held,       \* the pieces of each end
    known,      \* those that it knows the other end to hold
    outside     \* how many pieces came from elsewhere

Init ==
    /\ held \in [Ends -> SUBSET Parts]
    /\ known = [e \in Ends |-> {}]
    /\ outside = 0

Gain(e, i) == held' = [held EXCEPT ![e] = @ \union {i}]

Learn(e, o) ==
    /\ \E S \in SUBSET held[o] : known[e] \subseteq S /\ known' = [known EXCEPT ![e] = S]
    /\ UNCHANGED <<held, outside>>

Fetch(e) ==
    /\ \E i \in known[e] \ held[e] : Gain(e, i)
    /\ UNCHANGED <<known, outside>>

Bring(e) ==
    /\ \E i \in Parts \ held[e] : Gain(e, i)
    /\ outside' = outside + 1
    /\ UNCHANGED known

Next == \E e \in Ends : Fetch(e) \/ Bring(e) \/ \E o \in Ends \ {e} : Learn(e, o)

Spec == Init /\ [][Next]_<<held, known, outside>>
=============================================================================
