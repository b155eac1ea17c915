------------------------------ MODULE Torrents ------------------------------
(***************************************************************************)
(* The life cycle of the torrents of a swarm (swarm.go, holder.go,         *)
(* torrent.go, rpc): a torrent is added and listed, waits for the network  *)
(* and for a place in the queue, is started, and is stopped, removed or    *)
(* deleted by RPC requests, which are served in parallel.  Nothing here is *)
(* under a lock but the holder's two maps: the flags of a torrent and      *)
(* Swarm.active are read and written by all of these goroutines.           *)
(***************************************************************************)
EXTENDS Integers, FiniteSets

CONSTANTS
    Torrents,       \* torrents, of different infohashes
    Complete,       \* those whose download is complete sooner or later
    Users,          \* RPC requests in progress
    QueueSize,      \* Holder.QueueSize, 0 for no limit
    MaxOps,         \* bound: RPC requests; the end of the swarm is the last
    None

(* A request is not a torrent's own goroutine.                             *)
ASSUME TorrentsAssumption == MaxOps \in Nat /\ Torrents \intersect Users = {}

(* The goroutine that starts a torrent goes by the torrent's name.         *)
Threads == Torrents \union Users

VARIABLES
    listed,         \* the torrents in Holder.torrents
    holderClosing,  \* Holder.closing
    started,        \* Torrent.started
    closing,        \* Torrent.closing
    seeding,        \* Torrent.seeding
    loop,           \* how many run goroutines each torrent has in each state
    active,         \* Swarm.active
    th,             \* pc, operation, torrent and loaded value of each goroutine
    ops,            \* for the bound
    mishap          \* history: a torrent was closed without a stop, or stopped before its
                    \* callbacks were set; an update of active was lost; an announce of a
                    \* stop hung; the process panicked

vars == <<listed, holderClosing, started, closing, seeding, loop, active, th, ops, mishap>>
flags == <<started, closing, seeding>>
holder == <<listed, holderClosing>>

(* A run goroutine is new, in its loop, or in Seed.                        *)
LoopStates == {"spawned", "on", "seed"}
(* Remove is a Stop that calls RemoveSelf twice.                           *)
Ops == {"start", "stop", "delete", "close", "drop"}

TypeOK ==
    /\ listed \subseteq Torrents
    /\ {holderClosing} \subseteq BOOLEAN
    /\ \A f \in {started, closing, seeding} : f \in [Torrents -> BOOLEAN]
    /\ loop \in [Torrents -> [LoopStates -> 0 .. MaxOps + 1]]
    /\ active \in Int
    /\ th \in [Threads -> [pc : {"none", "spawned", "queue", "load", "store", "start", "announce",
                                 "stop", "close", "silence", "hung", "erase", "remove", "end"},
                           op : Ops, t : {None} \union Torrents, v : Int]]
    /\ ops \in 0 .. MaxOps
    /\ mishap \subseteq {"unstopped", "race", "early", "hung", "panic"}

Resting == [pc |-> "none", op |-> "start", t |-> None, v |-> 0]

Init ==
    /\ listed = {}
    /\ holderClosing = FALSE
    /\ started = [t \in Torrents |-> FALSE]
    /\ closing = started /\ seeding = started
    /\ loop = [t \in Torrents |-> [l \in LoopStates |-> 0]]
    /\ active = 0
    /\ th = [x \in Threads |-> Resting]
    /\ ops = 0
    /\ mishap = {}

Goto(x, pc) == th' = [th EXCEPT ![x].pc = pc]
Finish(x) == th' = [th EXCEPT ![x] = IF x \in Torrents THEN [@ EXCEPT !.pc = "end"] ELSE Resting]

-----------------------------------------------------------------------------
(* Adding a torrent and starting it.                                       *)

(* AddTorrent: the holder lists the torrent and a goroutine starts it.  A  *)
(* holder that is closing lists nothing, and the goroutine panics on nil.  *)
AddTorrent(t) ==
    /\ th[t].pc = "none"
    /\ IF holderClosing THEN mishap' = mishap \union {"panic"} /\ UNCHANGED <<listed, th>>
       ELSE /\ listed' = listed \union {t}
            /\ th' = [th EXCEPT ![t].pc = "spawned", ![t].t = t]
            /\ UNCHANGED mishap
    /\ UNCHANGED <<holderClosing, loop, active, ops>> /\ UNCHANGED flags

(* startTorrent sets the callbacks RemoveSelf and Stopped, waits for the   *)
(* network ...                                                             *)
SetCallbacks(t) ==
    /\ th[t].pc = "spawned"
    /\ Goto(t, "queue")
    /\ UNCHANGED <<loop, active, ops, mishap>> /\ UNCHANGED flags /\ UNCHANGED holder

(* ... and for a free place, ...                                           *)
waitForQueue(t) ==
    /\ th[t].pc = "queue" /\ (QueueSize > 0 => active < QueueSize)
    /\ Goto(t, "load")
    /\ UNCHANGED <<loop, active, ops, mishap>> /\ UNCHANGED flags /\ UNCHANGED holder

(* ... and takes it: active++, like the active-- of a stop, is a load and  *)
(* a store.                                                                *)
LoadActive(x) ==
    /\ th[x].pc = "load"
    /\ th' = [th EXCEPT ![x].pc = "store", ![x].v = active]
    /\ UNCHANGED <<loop, active, ops, mishap>> /\ UNCHANGED flags /\ UNCHANGED holder

\* mutant: a stop gives no place back
StoreActiveKeeps(x) ==
    /\ th[x].pc = "store"
    /\ active' = IF x \in Torrents THEN th[x].v + 1 ELSE th[x].v
    /\ mishap' = IF th[x].v = active THEN mishap ELSE mishap \union {"race"}
    /\ th' = [th EXCEPT ![x].pc = IF x \in Torrents THEN "start" ELSE "remove", ![x].v = 0]
    /\ UNCHANGED <<loop, ops>> /\ UNCHANGED flags /\ UNCHANGED holder

StoreActive(x) ==
    /\ th[x].pc = "store"
    /\ active' = IF x \in Torrents THEN th[x].v + 1 ELSE th[x].v - 1
    /\ mishap' = IF th[x].v = active THEN mishap ELSE mishap \union {"race"}
    /\ th' = [th EXCEPT ![x].pc = IF x \in Torrents THEN "start" ELSE "remove", ![x].v = 0]
    /\ UNCHANGED <<loop, ops>> /\ UNCHANGED flags /\ UNCHANGED holder

\* mutant: closing is cleared before started is looked at
StartClearsFirst(x) ==
    LET t == th[x].t IN
    /\ th[x].pc = "start"
    /\ closing' = [closing EXCEPT ![t] = FALSE]
    /\ IF started[t] THEN Finish(x) ELSE Goto(x, "announce")
    /\ UNCHANGED <<loop, active, ops, mishap, started, seeding>> /\ UNCHANGED holder

(* Torrent.Start, by startTorrent or by a request.                         *)
Start(x) ==
    LET t == th[x].t IN
    /\ th[x].pc = "start"
    /\ IF started[t] THEN Finish(x) /\ UNCHANGED closing
       ELSE closing' = [closing EXCEPT ![t] = FALSE] /\ Goto(x, "announce")
    /\ UNCHANGED <<loop, active, ops, mishap, started, seeding>> /\ UNCHANGED holder

\* mutant: the run goroutine is started again and again
StartRunAgain(x) ==
    LET t == th[x].t IN
    /\ th[x].pc = "announce"
    /\ loop' = [loop EXCEPT ![t]["spawned"] = @ + 1]
    /\ UNCHANGED th
    /\ UNCHANGED <<active, ops, mishap>> /\ UNCHANGED flags /\ UNCHANGED holder

(* StartAnnouncing has got the network, and a run goroutine is started.    *)
StartRun(x) ==
    LET t == th[x].t IN
    /\ th[x].pc = "announce"
    /\ loop' = [loop EXCEPT ![t]["spawned"] = @ + 1]
    /\ Finish(x)
    /\ UNCHANGED <<active, ops, mishap>> /\ UNCHANGED flags /\ UNCHANGED holder

-----------------------------------------------------------------------------
(* Torrent.run.                                                            *)

Running(t) == \E l \in LoopStates : loop[t][l] > 0

RunStarts(t) ==
    /\ loop[t]["spawned"] > 0
    /\ started' = [started EXCEPT ![t] = TRUE]
    /\ loop' = [loop EXCEPT ![t]["spawned"] = @ - 1, ![t]["on"] = @ + 1]
    /\ UNCHANGED <<active, th, ops, mishap, closing, seeding>> /\ UNCHANGED holder

(* The loop's top: it ends when the torrent is closing, or done and        *)
(* seeding already; ...                                                    *)
RunEnds(t) ==
    /\ loop[t]["on"] > 0 /\ (closing[t] \/ seeding[t])
    /\ loop' = [loop EXCEPT ![t]["on"] = @ - 1]
    /\ UNCHANGED <<active, th, ops, mishap>> /\ UNCHANGED flags /\ UNCHANGED holder

(* ... and Seed is called when the torrent is done.                        *)
SeedBegins(t) ==
    /\ t \in Complete /\ loop[t]["on"] > 0 /\ ~closing[t] /\ ~seeding[t]
    /\ loop' = [loop EXCEPT ![t]["on"] = @ - 1, ![t]["seed"] = @ + 1]
    /\ UNCHANGED <<active, th, ops, mishap>> /\ UNCHANGED flags /\ UNCHANGED holder

(* Its result is stored, and the loop goes on after AnnounceSeed, which    *)
(* may take for ever (Announce.Hang): no run goroutine is assumed fair.    *)
SeedReturns(t) ==
    /\ loop[t]["seed"] > 0
    /\ \E ok \in BOOLEAN : seeding' = [seeding EXCEPT ![t] = ok]
    /\ loop' = [loop EXCEPT ![t]["seed"] = @ - 1, ![t]["on"] = @ + 1]
    /\ UNCHANGED <<active, th, ops, mishap, started, closing>> /\ UNCHANGED holder

-----------------------------------------------------------------------------
(* Requests, and the end of the swarm.                                     *)

(* ChangeTorrent finds the torrent in the holder and calls its method.     *)
ChangeTorrent(u, t, op) ==
    /\ th[u].pc = "none" /\ t \in listed /\ ops < MaxOps
    /\ ops' = ops + 1
    /\ th' = [th EXCEPT ![u] = [pc |-> CASE op = "start" -> "start" [] op = "delete" -> "close"
                                         [] OTHER -> "stop",
                                op |-> op, t |-> t, v |-> 0]]
    /\ UNCHANGED <<loop, active, mishap>> /\ UNCHANGED flags /\ UNCHANGED holder

(* Holder.Close stops one torrent, or just closes it if the network is     *)
(* lost: its visit of the map ends with the first entry.                   *)
HolderClose(u) ==
    /\ th[u].pc = "none" /\ ~holderClosing /\ ops < MaxOps
    /\ ops' = MaxOps
    /\ holderClosing' = TRUE
    /\ IF listed = {} THEN UNCHANGED th
       ELSE \E t \in listed :
              \/ th' = [th EXCEPT ![u] = [pc |-> "stop", op |-> "close", t |-> t, v |-> 0]]
              \/ th' = [th EXCEPT ![u] = [pc |-> "close", op |-> "drop", t |-> t, v |-> 0]]
    /\ UNCHANGED <<listed, loop, active, mishap>> /\ UNCHANGED flags

(* Torrent.Stop does nothing for a torrent that is closed; Holder.Close    *)
(* takes the torrent out of its map in any case.                           *)
Stop(u) ==
    /\ th[u].pc = "stop"
    /\ IF ~closing[th[u].t] THEN Goto(u, "close")
       ELSE IF th[u].op = "close" THEN th' = [th EXCEPT ![u].pc = "remove", ![u].op = "drop"]
       ELSE Finish(u)
    /\ UNCHANGED <<loop, active, ops, mishap>> /\ UNCHANGED flags /\ UNCHANGED holder

(* Torrent.Close sets the flags; connections are closed and the storage is *)
(* flushed.                                                                *)
Close(u) ==
    LET t == th[u].t IN
    /\ th[u].pc = "close"
    /\ IF closing[t] THEN UNCHANGED <<closing, started>>
       ELSE closing' = [closing EXCEPT ![t] = TRUE] /\ started' = [started EXCEPT ![t] = FALSE]
    /\ Goto(u, IF th[u].op = "drop" THEN "remove" ELSE "silence")
    /\ mishap' = IF th[u].op = "drop" THEN mishap \union {"unstopped"} ELSE mishap
    /\ UNCHANGED <<loop, active, ops, seeding>> /\ UNCHANGED holder

(* StopAnnouncing(true) returns, and a stop goes on to call Stopped, if it *)
(* is set; ...                                                             *)
StopAnnouncing(u) ==
    LET early == th[th[u].t].pc = "spawned" IN
    /\ th[u].pc = "silence"
    /\ Goto(u, IF th[u].op = "delete" THEN "erase" ELSE IF early THEN "remove" ELSE "load")
    /\ mishap' = IF early THEN mishap \union {"early"} ELSE mishap
    /\ UNCHANGED <<loop, active, ops>> /\ UNCHANGED flags /\ UNCHANGED holder

(* ... or an announce never returns (Announce.Hang).                       *)
StopHangs(u) ==
    /\ th[u].pc = "silence"
    /\ Goto(u, "hung")
    /\ mishap' = mishap \union {"hung"}
    /\ UNCHANGED <<loop, active, ops>> /\ UNCHANGED flags /\ UNCHANGED holder

(* Delete removes the files, or fails to, and never calls Stopped.         *)
Erase(u) ==
    /\ th[u].pc = "erase"
    /\ \/ Goto(u, "remove")
       \/ Finish(u)
    /\ mishap' = mishap \union {"unstopped"}
    /\ UNCHANGED <<loop, active, ops>> /\ UNCHANGED flags /\ UNCHANGED holder

(* RemoveSelf.  A request that finds it unset panics and is given up; in   *)
(* the goroutine of Holder.Close the panic ends the process.               *)
RemoveSelf(u) ==
    LET op == th[u].op
        unset == op # "drop" /\ th[th[u].t].pc = "spawned" IN
    /\ th[u].pc = "remove"
    /\ listed' = IF op = "drop" \/ (~unset /\ (op = "close" \/ ~holderClosing))
                 THEN listed \ {th[u].t} ELSE listed
    /\ mishap' = IF unset /\ op = "close" THEN mishap \union {"panic"} ELSE mishap
    /\ Finish(u)
    /\ UNCHANGED <<holderClosing, loop, active, ops>> /\ UNCHANGED flags

Alive == "panic" \notin mishap

ThreadStep(x) ==
    /\ Alive
    /\ \/ LoadActive(x) \/ StoreActive(x) \/ Start(x) \/ StartRun(x)
       \/ x \in Torrents /\ (SetCallbacks(x) \/ waitForQueue(x))
       \/ x \in Users /\ (Stop(x) \/ Close(x) \/ StopAnnouncing(x) \/ StopHangs(x)
                              \/ Erase(x) \/ RemoveSelf(x))

LoopStep(t) ==
    Alive /\ (RunStarts(t) \/ RunEnds(t) \/ SeedBegins(t) \/ SeedReturns(t))

Request(u) ==
    /\ Alive
    /\ \/ HolderClose(u)
       \/ \E t \in Torrents, op \in {"start", "stop", "delete"} : ChangeTorrent(u, t, op)

Next ==
    \/ \E t \in Torrents : (Alive /\ AddTorrent(t)) \/ LoopStep(t)
    \/ \E x \in Threads : ThreadStep(x)
    \/ \E u \in Users : Request(u)

(* Goroutines run, and the network comes (Network).                        *)
Fairness == \A x \in Threads : WF_vars(ThreadStep(x))

Spec == Init /\ [][Next]_vars /\ Fairness

-----------------------------------------------------------------------------
(* Properties.                                                             *)

(* A torrent that was opened by its start is run, is about to be, or       *)
(* seeds, whatever stops and starts come before and after, also when a     *)
(* stop comes before the run goroutine's first step, and two starts within *)
(* one another: none finds "already started" of a torrent whose run loop   *)
(* has seen the stop, and leaves it open (torrent.go:725-764, 883-928).    *)
OpenIsRun ==
    \A t \in Torrents :
        th[t].pc = "end" /\ ~closing[t] =>
            \/ Running(t) \/ seeding[t]
            \/ \E x \in Threads : th[x].pc = "announce" /\ th[x].t = t

(* A torrent that waits for a place gets one, if the torrents before it    *)
(* are stopped: every place that was taken is given back, unless a torrent *)
(* was closed without a stop, a stop's announce hung, active lost an       *)
(* update, or the process panicked (swarm.go:56-62,96).                    *)
PlacesReturn ==
    []<>(\A t \in Torrents : ~(
        /\ th[t].pc = "queue" /\ mishap = {}
        /\ \A o \in Torrents \ {t} : closing[o] /\ th[o].pc = "end"))
=============================================================================
