----------------------------- MODULE MCTorrents -----------------------------
(***************************************************************************)
(* The instances of Torrents, Announce and Wire that TLC checks, in one    *)
(* run: part says which of them is moving, and the others rest in a state  *)
(* in which nothing is due.                                                *)
(***************************************************************************)
EXTENDS Torrents

CONSTANTS
    MaxStarts, MaxCalls,                \* Announce
    Parts, MaxRequests, MaxElsewhere    \* Wire

VARIABLES
    part,
    life, ticker, reads, pc, lock, due, numeric, starts, calls, hasty, dead,
    held, stage, snap, theirs, wants, told, wanted, chokes, choked, downloads, asked, last, sent,
    work, shut, elsewhere, raced

A == INSTANCE Announce
W == INSTANCE Wire WITH Ends <- {"a", "b"}

(* None is neither a start nor a goroutine, ...                            *)
ASSUME AnnounceAssumption ==
    /\ MaxStarts \in Nat /\ MaxCalls \in Nat
    /\ None \notin Nat \union A!Threads

(* ... nor a bitfield.                                                     *)
ASSUME WireAssumption ==
    /\ MaxRequests \in Nat /\ MaxElsewhere \in Nat
    /\ \A S \in SUBSET Parts : S # None

announceVars == <<life, ticker, reads, pc, lock, due, numeric, starts, calls,
                  hasty, dead>>
wireVars     == <<held, stage, snap, theirs, wants, told, wanted, chokes, choked, downloads, asked,
                  last, sent, work, shut, elsewhere, raced>>

(* A connection that was closed before anything was sent on it.            *)
NoWire ==
    /\ held = [e \in {"a", "b"} |-> {}] /\ stage = [e \in {"a", "b"} |-> "none"] /\ snap = held
    /\ theirs = [e \in {"a", "b"} |-> None] /\ last = theirs
    /\ wants = [e \in {"a", "b"} |-> FALSE] /\ told = wants /\ wanted = wants
    /\ chokes = [e \in {"a", "b"} |-> TRUE] /\ choked = chokes /\ downloads = wants
    /\ asked = held /\ sent = [e \in {"a", "b"} |-> <<>>]
    /\ work = [e \in {"a", "b"} |-> [g \in W!Runs |-> <<>>]]
    /\ shut = TRUE /\ elsewhere = 0 /\ raced = {}

(* What the two ends hold at first: the ends are alike, and the pieces.    *)
Holdings == {<<Parts, {}>>, <<{0}, {1}>>}

MCInit ==
    /\ Init /\ A!Init
    /\ part \in {"torrents", "announce", "wire"}
    /\ part # "announce" => numeric
    /\ IF part = "wire" THEN W!Init /\ <<held["a"], held["b"]>> \in Holdings ELSE NoWire

MCNext ==
    \/ part = "torrents" /\ Next /\ UNCHANGED <<part, announceVars, wireVars>>
    \/ part = "announce" /\ A!Next /\ UNCHANGED <<part, vars, wireVars>>
    \/ part = "wire" /\ W!Next /\ UNCHANGED <<part, vars, announceVars>>

MCSpec ==
    /\ MCInit /\ [][MCNext]_<<part, vars, announceVars, wireVars>>
    /\ Fairness /\ A!Fairness /\ W!Fairness

-----------------------------------------------------------------------------
(* The type invariant of the three.                                        *)
AllTypeOK == TypeOK /\ A!TypeOK /\ W!TypeOK

(* Announce's properties, on this instance: a stopped torrent is silent    *)
(* (torrent.go:380-398), ...                                               *)
SilentAfterStop == A!SilentAfterStop

(* ... and nobody waits for ever behind an announce (announce.go:23-63,    *)
(* torrent.go:401-418).                                                    *)
AnnouncesGoOn == A!AnnouncesGoOn

(* Wire's: nothing the other end holds stays unknown (torrent.go:712), ... *)
NothingMissed == W!NothingMissed

(* ... the other end knows whether it has what is wanted                   *)
(* (peer.go:438-456), ...                                                  *)
InterestTold == W!InterestTold

(* ... and no end stops asking before it holds what the other one has      *)
(* (peer.go:492-588, 815-847).                                             *)
NoStandstill == W!NoStandstill
=============================================================================
