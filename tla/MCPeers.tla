------------------------------ MODULE MCPeers ------------------------------
(***************************************************************************)
(* The instances of Connections and Metadata that TLC checks, in one run:  *)
(* part says which of the two is moving, and the other one rests in a      *)
(* state in which nothing is due.                                          *)
(***************************************************************************)
EXTENDS Connections

CONSTANTS Peers, Servers, Xds, SameId, Slices, Exact, MaxFaults

(* An info dictionary is not empty.                                        *)
ASSUME PeersAssumption ==
    /\ Slices \in Nat \ {0} /\ Exact \in BOOLEAN /\ MaxFaults \in Nat
    /\ None \notin {"buffer", "own"}

VARIABLES part, met, known, alloc, have, asked, buf, putting, meta, req, task, toAsk, late, faults

M == INSTANCE Metadata

infoVars == <<met, known, alloc, have, asked, buf, putting, meta, req, task, toAsk, late, faults>>

(* A torrent that came with its info.                                      *)
WithInfo ==
    /\ met = Peers /\ known = Peers /\ alloc = "no"
    /\ have = {} /\ asked = {} /\ buf = [i \in M!Real |-> "empty"]
    /\ putting = FALSE /\ meta = "own" /\ req = [p \in Peers |-> {}]
    /\ task = [p \in Peers |-> M!Idle]
    /\ toAsk = {} /\ late = FALSE /\ faults = 0

MCInit ==
    /\ Init
    /\ \/ part = "connections" /\ WithInfo
       \/ part = "metadata" /\ M!Init

MCNext ==
    \/ part = "connections" /\ Next /\ UNCHANGED <<part, infoVars>>
    \/ part = "metadata" /\ M!Next /\ UNCHANGED <<part, vars>>

MCSpec == MCInit /\ [][MCNext]_<<part, vars, infoVars>> /\ Fairness /\ M!Fairness

-----------------------------------------------------------------------------
(* The type invariant of the two.                                          *)
BothTypeOK == TypeOK /\ M!TypeOK

(* Metadata's properties, on this instance: the installed info stays as it *)
(* was checked (torrent.go:577), ...                                       *)
InstalledIsGood == M!InstalledIsGood

(* ... and a magnet link whose length is right gets its info               *)
(* (torrent.go:598).                                                       *)
InfoArrives == M!InfoArrives
=============================================================================
