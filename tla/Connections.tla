---------------------------- MODULE Connections ----------------------------
(***************************************************************************)
(* The connections of one torrent (torrent.go, swarm.go, peer.go, pex.go). *)
(* Inbound ones are admitted by a goroutine each; outbound ones are dialed *)
(* by PersistPeer goroutines.  The tables ibconns and obconns are under    *)
(* connMtx, but only for one lookup, store or delete at a time.  A         *)
(* connection removes itself from its table when its run loop ends.        *)
(***************************************************************************)
EXTENDS Naturals, FiniteSets

CONSTANTS
    Addrs,          \* remote addresses
    Conns,          \* connections
    Dialers,        \* PersistPeer goroutines
    MaxPeers,       \* Torrent.MaxPeers
    MaxTries,       \* dials of one PersistPeer, 10 in the code
    None

ASSUME ConnectionsAssumption ==
    /\ IsFiniteSet(Addrs) /\ IsFiniteSet(Conns) /\ None \notin Addrs \union Conns
    /\ MaxPeers \in Nat /\ MaxTries \in Nat \ {0}

VARIABLES
    conn,           \* each connection: state, direction and remote address
    closing,        \* PeerConn.closing
    ib, ob,         \* Torrent.ibconns and obconns
    dialer,         \* PersistPeer goroutines: pc, address and tries left
    stopped,        \* Torrent.closing
    visit,          \* connections Torrent.Close has yet to close
    pex,            \* PEXSwarmState: addresses that are up or down
    pop,            \* an address PopDestHashLists is about to delete
    raced,          \* history: tables and addresses where one was stored over another
    peak            \* history: the most inbound connections in admission at one time

vars == <<conn, closing, ib, ob, dialer, stopped, visit, pex, pop, raced, peak>>

States == {"none", "hello", "test", "admit", "listed", "open", "removed", "closed", "refused"}

(* The directions of a connection, each with its table.                    *)
Table(d) == IF d = "in" THEN ib ELSE ob

TypeOK ==
    /\ conn \in [Conns -> [st : States, dir : {"in", "out"}, addr : {None} \union Addrs]]
    /\ closing \in [Conns -> BOOLEAN]
    /\ ib \in [Addrs -> {None} \union Conns]
    /\ ob \in [Addrs -> {None} \union Conns]
    /\ dialer \in [Dialers -> [pc : {"idle", "top", "ob", "wire"}, addr : {None} \union Addrs,
                               tries : 0 .. MaxTries]]
    /\ stopped \in BOOLEAN
    /\ visit \subseteq Conns
    /\ pex \in [Addrs -> {"none", "up", "down"}]
    /\ pop \in {None} \union Addrs
    /\ raced \subseteq {"in", "out"} \X Addrs
    /\ peak \in Nat

Resting == [pc |-> "idle", addr |-> None, tries |-> 0]

Init ==
    /\ conn = [c \in Conns |-> [st |-> "none", dir |-> "in", addr |-> None]]
    /\ closing = [c \in Conns |-> FALSE]
    /\ ib = [a \in Addrs |-> None]
    /\ ob = [a \in Addrs |-> None]
    /\ dialer = [d \in Dialers |-> Resting]
    /\ stopped = FALSE
    /\ visit = {}
    /\ pex = [a \in Addrs |-> "none"]
    /\ pop = None
    /\ raced = {}
    /\ peak = 0

(* VisitPeers: the connections in the tables.                              *)
Listed == ({ib[a] : a \in Addrs} \union {ob[a] : a \in Addrs}) \ {None}
Entries == {a \in Addrs : ib[a] # None}
NeedsPeers == Cardinality(Entries) + Cardinality({a \in Addrs : ob[a] # None}) <= MaxPeers
InAdmission == {c \in Conns : conn[c].st \in {"hello", "test", "admit"}}

Become(c, st) == conn' = [conn EXCEPT ![c].st = st]

-----------------------------------------------------------------------------
(* Inbound connections.                                                    *)

(* inboundConn has read a handshake for this torrent.                      *)
Arrive(c, a) ==
    /\ conn[c].st = "none"
    /\ conn' = [conn EXCEPT ![c] = [st |-> "hello", dir |-> "in", addr |-> a]]
    /\ peak' = IF Cardinality(InAdmission) < peak THEN peak ELSE Cardinality(InAdmission) + 1
    /\ UNCHANGED <<closing, ib, ob, dialer, stopped, visit, pex, pop, raced>>

(* The handshake fails, or a torrent that is stopped or being checked does *)
(* not accept peers: the socket is closed.                                 *)
TurnAway(c) ==
    /\ conn[c].st = "hello"
    /\ Become(c, "closed")
    /\ UNCHANGED <<closing, ib, ob, dialer, stopped, visit, pex, pop, raced, peak>>

(* onNewPeer: a second connection to an address is closed.  Nobody reads   *)
(* the close channel of a connection that was not started, and its socket  *)
(* stays open.                                                             *)
TestDuplicate(c) ==
    /\ conn[c].st = "hello"
    /\ IF ib[conn[c].addr] # None \/ ob[conn[c].addr] # None
       THEN Become(c, "refused") /\ closing' = [closing EXCEPT ![c] = TRUE]
       ELSE Become(c, "test") /\ UNCHANGED closing
    /\ UNCHANGED <<ib, ob, dialer, stopped, visit, pex, pop, raced, peak>>

\* mutant: the number of connections is not compared
TestLimitIgnored(c) ==
    /\ conn[c].st = "test"
    /\ Become(c, "admit") /\ UNCHANGED closing
    /\ UNCHANGED <<ib, ob, dialer, stopped, visit, pex, pop, raced, peak>>

(* ... and so is one too many.                                             *)
TestLimit(c) ==
    /\ conn[c].st = "test"
    /\ IF NeedsPeers
       THEN Become(c, "admit") /\ UNCHANGED closing
       ELSE Become(c, "refused") /\ closing' = [closing EXCEPT ![c] = TRUE]
    /\ UNCHANGED <<ib, ob, dialer, stopped, visit, pex, pop, raced, peak>>

addIBPeer(c) ==
    LET a == conn[c].addr IN
    /\ conn[c].st = "admit"
    /\ ib' = [ib EXCEPT ![a] = c]
    /\ raced' = IF ib[a] = None THEN raced ELSE raced \union {<<"in", a>>}
    /\ Become(c, "listed")
    /\ UNCHANGED <<closing, ob, dialer, stopped, visit, pex, pop, peak>>

-----------------------------------------------------------------------------
(* Outbound connections.                                                   *)

Finished(d) == dialer' = [dialer EXCEPT ![d] = Resting]
DialerAt(d, pc) == dialer' = [dialer EXCEPT ![d].pc = pc]

(* addPeers, with the peers of a tracker.                                  *)
addPeers(d, a) ==
    /\ dialer[d].pc = "idle"
    /\ NeedsPeers /\ ob[a] = None
    /\ dialer' = [dialer EXCEPT ![d] = [pc |-> "top", addr |-> a, tries |-> MaxTries]]
    /\ UNCHANGED <<conn, closing, ib, ob, stopped, visit, pex, pop, raced, peak>>

(* A connection's run goroutine calls it with the addresses of a PEX       *)
(* message; what is not one is left out.                                   *)
PeerExchange(c, d, a) == conn[c].st = "open" /\ addPeers(d, a)

(* PersistPeer gives up when the torrent is closed or the peer has         *)
(* connected, ...                                                          *)
PersistPeer(d) ==
    /\ dialer[d].pc = "top"
    /\ IF stopped \/ ib[dialer[d].addr] # None THEN Finished(d) ELSE DialerAt(d, "ob")
    /\ UNCHANGED <<conn, closing, ib, ob, stopped, visit, pex, pop, raced, peak>>

(* ... waits as long as there is an outbound connection, and otherwise     *)
(* calls DialPeer, which returns if there is one by then.                  *)
DialPeer(d) ==
    /\ dialer[d].pc = "ob"
    /\ IF ob[dialer[d].addr] = None THEN DialerAt(d, "wire")
       ELSE DialerAt(d, "top") \/ Finished(d)
    /\ UNCHANGED <<conn, closing, ib, ob, stopped, visit, pex, pop, raced, peak>>

\* mutant: tries again when there are no tries left
DialFailsAlways(d) ==
    /\ dialer[d].pc = "wire"
    /\ \/ dialer' = [dialer EXCEPT ![d].pc = "top", ![d].tries = @ - 1]
       \/ Finished(d)
    /\ UNCHANGED <<conn, closing, ib, ob, stopped, visit, pex, pop, raced, peak>>

(* The dial or the handshake fails; an answer for another infohash counts  *)
(* as success.                                                             *)
DialFails(d) ==
    /\ dialer[d].pc = "wire"
    /\ \/ dialer[d].tries > 1 /\ dialer' = [dialer EXCEPT ![d].pc = "top", ![d].tries = @ - 1]
       \/ Finished(d)
    /\ UNCHANGED <<conn, closing, ib, ob, stopped, visit, pex, pop, raced, peak>>

addOBPeer(d, c) ==
    LET a == dialer[d].addr IN
    /\ dialer[d].pc = "wire" /\ conn[c].st = "none"
    /\ conn' = [conn EXCEPT ![c] = [st |-> "listed", dir |-> "out", addr |-> a]]
    /\ ob' = [ob EXCEPT ![a] = c]
    /\ raced' = IF ob[a] = None THEN raced ELSE raced \union {<<"out", a>>}
    /\ Finished(d)
    /\ UNCHANGED <<closing, ib, stopped, visit, pex, pop, peak>>

-----------------------------------------------------------------------------
(* A connection's life.                                                    *)

\* mutant: a connection that is already closing is not started
StartUnlessClosing(c) ==
    /\ conn[c].st = "listed" /\ ~closing[c]
    /\ pex' = [pex EXCEPT ![conn[c].addr] = "up"]
    /\ Become(c, "open")
    /\ UNCHANGED <<closing, ib, ob, dialer, stopped, visit, pop, raced, peak>>

(* The PEX state learns of it, and then its goroutines are started.        *)
Start(c) ==
    /\ conn[c].st = "listed"
    /\ pex' = [pex EXCEPT ![conn[c].addr] = "up"]
    /\ Become(c, "open")
    /\ UNCHANGED <<closing, ib, ob, dialer, stopped, visit, pop, raced, peak>>

(* The remote peer or an error ends it, or 15 minutes without a message.   *)
End(c) ==
    /\ conn[c].st = "open" /\ ~closing[c]
    /\ closing' = [closing EXCEPT ![c] = TRUE]
    /\ UNCHANGED <<conn, ib, ob, dialer, stopped, visit, pex, pop, raced, peak>>

\* mutant: the connection is left in its table
doCloseKeepsEntry(c) ==
    LET a == conn[c].addr IN
    /\ conn[c].st = "open" /\ closing[c]
    /\ UNCHANGED <<ib, ob>>
    /\ Become(c, "removed")
    /\ UNCHANGED <<closing, dialer, stopped, visit, pex, pop, raced, peak>>

(* The run loop ends in doClose, which removes what is stored under the    *)
(* address, ...                                                            *)
doClose(c) ==
    LET a == conn[c].addr IN
    /\ conn[c].st = "open" /\ closing[c]
    /\ IF conn[c].dir = "in" THEN ib' = [ib EXCEPT ![a] = None] /\ UNCHANGED ob
       ELSE ob' = [ob EXCEPT ![a] = None] /\ UNCHANGED ib
    /\ Become(c, "removed")
    /\ UNCHANGED <<closing, dialer, stopped, visit, pex, pop, raced, peak>>

\* mutant: the PEX state is not told
onPeerDisconnectedSilent(c) ==
    /\ conn[c].st = "removed"
    /\ UNCHANGED pex
    /\ Become(c, "closed")
    /\ UNCHANGED <<closing, ib, ob, dialer, stopped, visit, pop, raced, peak>>

(* ... tells the PEX state, and closes the socket.                         *)
onPeerDisconnected(c) ==
    /\ conn[c].st = "removed"
    /\ pex' = [pex EXCEPT ![conn[c].addr] = "down"]
    /\ Become(c, "closed")
    /\ UNCHANGED <<closing, ib, ob, dialer, stopped, visit, pop, raced, peak>>

-----------------------------------------------------------------------------
(* The torrent.                                                            *)

(* Torrent.Close takes the connections from the tables and closes them one *)
(* by one.                                                                 *)
Close ==
    /\ ~stopped /\ visit = {}
    /\ stopped' = TRUE
    /\ visit' = Listed
    /\ UNCHANGED <<conn, closing, ib, ob, dialer, pex, pop, raced, peak>>

CloseConn(c) ==
    /\ c \in visit
    /\ visit' = visit \ {c}
    /\ closing' = [closing EXCEPT ![c] = TRUE]
    /\ UNCHANGED <<conn, ib, ob, dialer, stopped, pex, pop, raced, peak>>

StartTorrent ==
    /\ stopped
    /\ stopped' = FALSE
    /\ UNCHANGED <<conn, closing, ib, ob, dialer, visit, pex, pop, raced, peak>>

(* PopDestHashLists visits one entry, any one.  One that is up is told to  *)
(* the peers and stays; one that is down is told and deleted, ...          *)
PopVisit(a) ==
    /\ pop = None /\ pex[a] = "down"
    /\ pop' = a
    /\ UNCHANGED <<conn, closing, ib, ob, dialer, stopped, visit, pex, raced, peak>>

(* ... whatever it is by then.                                             *)
PopDelete ==
    /\ pop # None
    /\ pex' = [pex EXCEPT ![pop] = "none"]
    /\ pop' = None
    /\ UNCHANGED <<conn, closing, ib, ob, dialer, stopped, visit, raced, peak>>

Admission(c) == TestDuplicate(c) \/ TestLimit(c) \/ addIBPeer(c)
Life(c) == Start(c) \/ doClose(c) \/ onPeerDisconnected(c)
Dialing(d) == PersistPeer(d) \/ DialPeer(d) \/ DialFails(d)

Next ==
    \/ \E c \in Conns : Admission(c) \/ Life(c) \/ TurnAway(c) \/ End(c) \/ CloseConn(c)
    \/ \E c \in Conns, a \in Addrs : Arrive(c, a)
    \/ \E d \in Dialers : Dialing(d)
    \/ \E d \in Dialers, a \in Addrs : addPeers(d, a) \/ \E c \in Conns : PeerExchange(c, d, a)
    \/ \E d \in Dialers, c \in Conns : addOBPeer(d, c)
    \/ Close \/ StartTorrent \/ PopDelete
    \/ \E a \in Addrs : PopVisit(a)

(* The goroutines of a connection run.                                     *)
Fairness == \A c \in Conns : WF_vars(Life(c))

Spec == Init /\ [][Next]_vars /\ Fairness

-----------------------------------------------------------------------------
(* Properties.                                                             *)

(* The tables hold the connections that live.  No entry outlives its       *)
(* connection, although one may end before the goroutine that stored it    *)
(* goes on (torrent.go:653-654, 712-713): a dead entry would keep the peer *)
(* away for ever and count against MaxPeers.  And a connection that lives  *)
(* is in its table, where ticks, Torrent.Close and the limit find it,      *)
(* unless two dials or two inbound connections of one address met          *)
(* (torrent.go:505,511,619).                                               *)
TablesMatch ==
    /\ \A a \in Addrs, d \in {"in", "out"} :
          Table(d)[a] # None =>
              /\ conn[Table(d)[a]].st \in {"listed", "open"}
              /\ conn[Table(d)[a]].dir = d /\ conn[Table(d)[a]].addr = a
    /\ \A c \in Conns :
          conn[c].st \in {"listed", "open"} /\ <<conn[c].dir, conn[c].addr>> \notin raced
              => Table(conn[c].dir)[conn[c].addr] = c

(* MaxPeers is exceeded by no more inbound connections than have been in   *)
(* admission at one time (torrent.go:699,710).                             *)
InboundBound == Cardinality(Entries) <= MaxPeers + peak

(* Peers are told of nobody who has gone: an address is up only while a    *)
(* connection to it has yet to say that it is down (pex.go:14-20).         *)
NoGhostPeers ==
    \A a \in Addrs : pex[a] = "up" =>
        \E c \in Conns : conn[c].addr = a /\ conn[c].st \in {"open", "removed"}

(* A connection that is told to close gets out of its table and closes its *)
(* socket, also when it was told before it was started (peer.go:383-413).  *)
ClosingEnds ==
    []<>(\A c \in Conns : closing[c] => conn[c].st \in {"closed", "refused"})
=============================================================================
