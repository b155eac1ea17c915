------------------------------ MODULE Announce ------------------------------
(***************************************************************************)
(* The announces of one torrent to one tracker (announce.go, torrent.go,   *)
(* tracker/http.go).  A goroutine of StartAnnouncing, the poll loop,       *)
(* AnnounceSeed and StopAnnouncing may announce at the same time.          *)
(* torrentAnnounce.access lets one of them through, and a.next, the time   *)
(* of the next announce, stops the others.                                 *)
(***************************************************************************)
EXTENDS Naturals

CONSTANTS
    MaxStarts,      \* bound: calls of StartAnnouncing, at least one
    MaxCalls,       \* bound: calls of StopAnnouncing and AnnounceSeed
    None

VARIABLES
    life,           \* the torrent: "off", "on", "stopping", or "dropped" without an announce
    ticker,         \* t.announceTicker: the start that made it, or None
    reads,          \* the ticker whose channel each poll loop receives from
    pc,             \* what each goroutine is doing
    lock,           \* who holds torrentAnnounce.access
    due,            \* whether the time is after a.next
    numeric,        \* the network's port is a number, as it is on I2P
    starts, calls,  \* for the bounds
    hasty,          \* history: a.next passed while one waited that a stop had overtaken
    dead            \* a nil ticker was dereferenced: the process is gone

vars == <<life, ticker, reads, pc, lock, due, numeric, starts, calls, hasty, dead>>
env == <<numeric, starts, calls, hasty>>

(* The goroutines: one of each start that announces "started", one of each *)
(* start that polls, the run loop in AnnounceSeed, and the one that stops. *)
Begin(n) == <<"begin", n>>
Poll(n) == <<"poll", n>>
SeedThread == <<"seed", 0>>
StopThread == <<"stop", 0>>
Starts == 1 .. MaxStarts
Threads == {Begin(n) : n \in Starts} \union {Poll(n) : n \in Starts} \union {SeedThread, StopThread}

TypeOK ==
    /\ life \in {"off", "on", "stopping", "dropped"}
    /\ ticker \in {None} \union Starts
    /\ reads \in [Starts -> {None} \union Starts]
    /\ pc \in [Threads -> {"off", "top", "read", "tick", "lock", "net", "send", "peers", "hung"}]
    /\ lock \in {None} \union Threads
    /\ {due, numeric, hasty, dead} \subseteq BOOLEAN
    /\ starts \in 0 .. MaxStarts /\ calls \in 0 .. MaxCalls

Init ==
    /\ life = "off"
    /\ ticker = None
    /\ reads = [n \in Starts |-> None]
    /\ pc = [x \in Threads |-> "off"]
    /\ lock = None
    /\ due = TRUE
    /\ numeric \in BOOLEAN
    /\ starts = 0 /\ calls = 0
    /\ hasty = FALSE
    /\ dead = FALSE

-----------------------------------------------------------------------------
(* Torrent.StartAnnouncing, once there is a network: one announce at once, *)
(* a ticker unless there is one, and a goroutine that polls it.  Start may *)
(* be called while a Stop waits for its announce, and twice in a row       *)
(* (Torrents).                                                             *)
StartAnnouncing ==
    /\ ~dead /\ starts < MaxStarts
    /\ life' = "on"
    /\ starts' = starts + 1
    /\ ticker' = IF ticker = None THEN starts' ELSE ticker
    /\ pc' = [pc EXCEPT ![Begin(starts')] = "lock", ![Poll(starts')] = "top"]
    /\ UNCHANGED <<reads, lock, due, numeric, calls, hasty, dead>>

(* Torrent.StopAnnouncing(true), by a Stop or a Delete: no ticker, and an  *)
(* announce of "stopped", which the caller waits for.                      *)
StopAnnouncing ==
    /\ ~dead /\ life # "stopping" /\ starts > 0 /\ pc[StopThread] = "off"
    /\ calls < MaxCalls /\ calls' = calls + 1
    /\ life' = "stopping"
    /\ ticker' = None
    /\ pc' = [pc EXCEPT ![StopThread] = "lock"]
    /\ UNCHANGED <<reads, lock, due, dead, numeric, starts, hasty>>

(* StopAnnouncing(false), when the swarm ends without a network.           *)
DropAnnouncing ==
    /\ ~dead /\ life = "on"
    /\ calls < MaxCalls /\ calls' = calls + 1
    /\ life' = "dropped"
    /\ ticker' = None
    /\ UNCHANGED <<reads, pc, lock, due, dead, numeric, starts, hasty>>

Stopped ==
    /\ ~dead /\ life = "stopping" /\ pc[StopThread] = "off"
    /\ life' = "off"
    /\ UNCHANGED <<ticker, reads, pc, lock, due, dead>> /\ UNCHANGED env

(* The run loop of a complete torrent calls AnnounceSeed, at any time: the *)
(* check and the move before it may have lasted beyond a stop.             *)
AnnounceSeed ==
    /\ ~dead /\ starts > 0 /\ pc[SeedThread] = "off"
    /\ calls < MaxCalls /\ calls' = calls + 1
    /\ pc' = [pc EXCEPT ![SeedThread] = "lock"]
    /\ UNCHANGED <<life, ticker, reads, lock, due, dead, numeric, starts, hasty>>

(* pollAnnounce: the loop condition reads the ticker, ...                  *)
PollTop(n) ==
    /\ ~dead /\ pc[Poll(n)] = "top"
    /\ pc' = [pc EXCEPT ![Poll(n)] = IF ticker = None THEN "off" ELSE "read"]
    /\ UNCHANGED <<life, ticker, reads, lock, due, dead>> /\ UNCHANGED env

(* ... the receive reads it again, and it may be nil by now, ...           *)
PollRead(n) ==
    /\ ~dead /\ pc[Poll(n)] = "read"
    /\ IF ticker = None THEN dead' = TRUE /\ UNCHANGED <<pc, reads>>
       ELSE /\ reads' = [reads EXCEPT ![n] = ticker]
            /\ pc' = [pc EXCEPT ![Poll(n)] = "tick"]
            /\ UNCHANGED dead
    /\ UNCHANGED <<life, ticker, lock, due>> /\ UNCHANGED env

(* ... a tick comes, which a stopped ticker never sends, and               *)
(* shouldAnnounce decides.                                                 *)
PollTick(n) ==
    /\ ~dead /\ pc[Poll(n)] = "tick" /\ ticker = reads[n]
    /\ pc' = [pc EXCEPT ![Poll(n)] = IF due THEN "lock" ELSE "top"]
    /\ reads' = [reads EXCEPT ![n] = None]
    /\ UNCHANGED <<life, ticker, lock, due, dead>> /\ UNCHANGED env

-----------------------------------------------------------------------------
(* Torrent.announce and tryAnnounce, in any of the goroutines.             *)

Done(x) == [pc EXCEPT ![x] = IF x \in {Poll(n) : n \in Starts} THEN "top" ELSE "off"]

\* mutant: a.next is not looked at
tryAnnounceAnyTime(x) ==
    /\ ~dead /\ pc[x] = "lock" /\ lock = None
    /\ lock' = x /\ pc' = [pc EXCEPT ![x] = "net"]
    /\ UNCHANGED <<life, ticker, reads, due, dead>> /\ UNCHANGED env

(* The lock, and nothing to do before a.next.                              *)
tryAnnounce(x) ==
    /\ ~dead /\ pc[x] = "lock" /\ lock = None
    /\ IF due THEN lock' = x /\ pc' = [pc EXCEPT ![x] = "net"]
       ELSE pc' = Done(x) /\ UNCHANGED lock
    /\ UNCHANGED <<life, ticker, reads, due, dead>> /\ UNCHANGED env

(* Network(), with the lock held, waits until there is one.                *)
Network(x) ==
    /\ ~dead /\ pc[x] = "net" /\ numeric
    /\ pc' = [pc EXCEPT ![x] = "send"]
    /\ UNCHANGED <<life, ticker, reads, lock, due, dead>> /\ UNCHANGED env

(* A port that is not a number: tryAnnounce returns with the lock held.    *)
PortFails(x) ==
    /\ ~dead /\ pc[x] = "net" /\ ~numeric
    /\ pc' = Done(x)
    /\ UNCHANGED <<life, ticker, reads, lock, due, dead>> /\ UNCHANGED env

(* One that waits for the lock although a stop has gone past it.           *)
Overtaken ==
    /\ life # "on" /\ pc[StopThread] # "lock"
    /\ \E x \in Threads \ {SeedThread, StopThread} : pc[x] = "lock"

\* mutant: a failed announce returns with the lock held
AnnouncedKeepsLock(x) ==
    /\ ~dead /\ pc[x] = "send"
    /\ due' \in BOOLEAN
    /\ hasty' = (hasty \/ (due' /\ Overtaken))
    /\ \/ x # StopThread /\ pc' = [pc EXCEPT ![x] = "peers"]
       \/ pc' = Done(x)
    /\ UNCHANGED <<life, ticker, reads, lock, numeric, starts, calls, dead>>

(* HttpTracker.Announce returns.  The next announce is the interval the    *)
(* tracker names, and a minute for each failure so far, away; an interval  *)
(* below zero is not refused.  The peers of a good response are added with *)
(* the lock held.                                                          *)
Announced(x) ==
    /\ ~dead /\ pc[x] = "send"
    /\ due' \in BOOLEAN
    /\ hasty' = (hasty \/ (due' /\ Overtaken))
    /\ \/ x # StopThread /\ pc' = [pc EXCEPT ![x] = "peers"] /\ UNCHANGED lock
       \/ pc' = Done(x) /\ lock' = None
    /\ UNCHANGED <<life, ticker, reads, numeric, starts, calls, dead>>

(* addPeers resolves them over the network, unless the torrent is seeding. *)
addPeers(x) ==
    /\ ~dead /\ pc[x] = "peers"
    /\ lock' = None
    /\ pc' = Done(x)
    /\ UNCHANGED <<life, ticker, reads, due, dead>> /\ UNCHANGED env

(* The lookup of the tracker's name, or of a peer's, never returns when    *)
(* the session it was asked of has died.                                   *)
Hang(x) ==
    /\ ~dead /\ pc[x] \in {"send", "peers"}
    /\ pc' = [pc EXCEPT ![x] = "hung"]
    /\ UNCHANGED <<life, ticker, reads, lock, due, dead>> /\ UNCHANGED env

-----------------------------------------------------------------------------
(* a.next passes, whoever has the lock or waits for it.                    *)
NextPasses ==
    /\ ~dead /\ ~due
    /\ due' = TRUE
    /\ hasty' = (hasty \/ Overtaken)
    /\ UNCHANGED <<life, ticker, reads, pc, lock, numeric, starts, calls, dead>>

HolderStep(x) == Network(x) \/ PortFails(x) \/ Announced(x) \/ addPeers(x)
PollStep(n) == PollTop(n) \/ PollRead(n) \/ PollTick(n)

Next ==
    \/ StartAnnouncing \/ StopAnnouncing \/ DropAnnouncing \/ Stopped \/ AnnounceSeed
    \/ \E n \in Starts : PollStep(n)
    \/ \E x \in Threads : tryAnnounce(x) \/ HolderStep(x) \/ Hang(x)
    \/ NextPasses

(* Goroutines run, and whoever waits for the network is served             *)
(* (Network.BackOnline, CallersServed).  A free lock is taken by somebody  *)
(* that waits, and not by others for ever while a stop does.               *)
Fairness ==
    /\ WF_vars(Stopped) /\ WF_vars(NextPasses)
    /\ \A n \in Starts : WF_vars(PollStep(n))
    /\ WF_vars(\E x \in Threads : tryAnnounce(x))
    /\ SF_vars(tryAnnounce(StopThread))
    /\ WF_vars(\E x \in Threads : HolderStep(x))

Spec == Init /\ [][Next]_vars /\ Fairness

-----------------------------------------------------------------------------
(* Properties.                                                             *)

Broken == dead \/ ~numeric \/ \E x \in Threads : pc[x] = "hung"

(* Once StopAnnouncing(true) has returned the tracker hears no more of the *)
(* torrent, whatever the goroutines that were about to announce do, but    *)
(* for an AnnounceSeed that comes late: those that waited for the lock     *)
(* find a.next in the future, also when "stopped" itself was not sent,     *)
(* unless it passed again before they got the lock.                        *)
SilentAfterStop ==
    [][\A x \in Threads \ {SeedThread} :
        pc[x] # "send" /\ pc'[x] = "send" => life # "off" \/ hasty]_vars

(* Nobody waits for ever behind an announce, unless one hangs or the port  *)
(* is not a number (PortFails): the lock is released after a failed        *)
(* announce too, so that the user's Stop returns although the poll loop is *)
(* in the middle of one, and a torrent that is on and has an announce due  *)
(* goes on to send one.                                                    *)
AnnouncesGoOn ==
    /\ []<>(pc[StopThread] = "off" \/ Broken)
    /\ []<>(~(life = "on" /\ due) \/ (\E x \in Threads : pc[x] = "send") \/ Broken)
=============================================================================
