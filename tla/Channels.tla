------------------------------ MODULE Channels ------------------------------
(***************************************************************************)
(* The channels of one PeerConn (peer.go): other goroutines queue messages *)
(* and ask it to close, its run goroutine empties the channels and queues  *)
(* messages itself, its reader hands over what the peer sends.  Nothing    *)
(* but the list of requests is locked (access), and goroutines keep that   *)
(* lock while they queue the CANCELs of its entries.                       *)
(***************************************************************************)
EXTENDS Integers

CONSTANTS
    Senders,        \* other goroutines: the tick, other connections, the swarm
    Cap,            \* sendChanLen
    MaxCancel,      \* bound: messages queued under one hold of the lock
    MaxSkew         \* bound: sendPending this far out of 0 .. Cap, no message is taken

Run    == "run"
Reader == "reader"
Procs  == Senders \union {Run, Reader}

VARIABLES
    sendq,          \* messages in PeerConn.send
    pending,        \* PeerConn.sendPending
    full,           \* whether there is a value in PeerConn.close
    gone,           \* which of the channels doClose has set to nil
    shut,           \* PeerConn.closing
    access,         \* who holds PeerConn.access
    proc,           \* the goroutines
    clash           \* history: two of them met in a window that should be closed

vars == <<sendq, pending, full, gone, shut, access, proc, clash>>

Rest == [pc |-> "idle", left |-> 0, lock |-> FALSE, tmp |-> 0]

Init ==
    /\ sendq = 0 /\ pending = 0 /\ full = FALSE /\ gone = {} /\ shut = FALSE
    /\ access = "nobody" /\ clash = FALSE
    /\ proc = [g \in Procs |-> Rest]

PCs == {"idle", "select", "lock", "test", "load", "store", "put", "closing", "closeval", "closeput", "recv",
        "recvput", "dec", "decstore", "write", "nilrecv", "nilclose", "doclose", "end", "stuck"}

TypeOK ==
    /\ sendq \in 0 .. Cap
    /\ pending \in Int
    /\ {full, shut, clash} \subseteq BOOLEAN
    /\ gone \subseteq {"send", "recv", "close"}
    /\ access \in Procs \union {"nobody"}
    /\ proc \in [Procs -> [pc : PCs, left : 0 .. MaxCancel, lock : BOOLEAN,
                           tmp : Int]]

At(g, pc) == proc[g].pc = pc
Goto(g, pc) == proc' = [proc EXCEPT ![g].pc = pc]
Others(g, pcs) == \E h \in Procs \ {g} : proc[h].pc \in pcs

-----------------------------------------------------------------------------
(* Send.                                                                   *)

\* mutant: the lock is kept when the last message is queued
SentKeepsLock(g) ==
    IF proc[g].left > 1
    THEN proc' = [proc EXCEPT ![g].pc = "test", ![g].left = @ - 1] /\ UNCHANGED access
    ELSE proc' = [proc EXCEPT ![g] = Rest] /\ UNCHANGED access

(* Send is over: the next message of the list, or the lock is released.    *)
Sent(g) ==
    IF proc[g].left > 1
    THEN proc' = [proc EXCEPT ![g].pc = "test", ![g].left = @ - 1] /\ UNCHANGED access
    ELSE /\ proc' = [proc EXCEPT ![g] = Rest]
         /\ access' = IF proc[g].lock THEN "nobody" ELSE access

(* A goroutine calls Send, or a function that calls it with the lock held.  *)
Calls(procs, g) ==
    \/ proc' = [procs EXCEPT ![g] = [Rest EXCEPT !.pc = "test", !.left = 1]]
    \/ \E n \in 1 .. MaxCancel :
          proc' = [procs EXCEPT ![g] = [Rest EXCEPT !.pc = "lock", !.left = n, !.lock = TRUE]]

(* Another goroutine queues a message, or cancels the requests of a piece. *)
Begin(g) ==
    /\ g \in Senders /\ At(g, "idle")
    /\ Calls(proc, g)
    /\ UNCHANGED <<sendq, pending, full, gone, shut, access, clash>>

(* With nothing to cancel the lock is released at once.                    *)
Lock(g) ==
    /\ At(g, "lock") /\ access = "nobody"
    /\ IF proc[g].left = 0 THEN proc' = [proc EXCEPT ![g] = Rest] /\ UNCHANGED access
       ELSE Goto(g, "test") /\ access' = g
    /\ UNCHANGED <<sendq, pending, full, gone, shut, clash>>

\* mutant: lets one message too many pass
TestOneMore(g) ==
    /\ At(g, "test")
    /\ IF pending > Cap
       THEN Sent(g) /\ UNCHANGED clash
       ELSE Goto(g, "load") /\ clash' = (clash \/ Others(g, {"load", "store"})) /\ UNCHANGED access
    /\ UNCHANGED <<sendq, pending, full, gone, shut>>

(* Dropped when too many are pending; a clash if another one has passed    *)
(* this test and is not counted yet.                                       *)
Test(g) ==
    /\ At(g, "test")
    /\ IF pending >= Cap
       THEN Sent(g) /\ UNCHANGED clash
       ELSE Goto(g, "load") /\ clash' = (clash \/ Others(g, {"load", "store"})) /\ UNCHANGED access
    /\ UNCHANGED <<sendq, pending, full, gone, shut>>

Load(g) ==
    /\ At(g, "load")
    /\ IF "send" \in gone THEN Sent(g) /\ UNCHANGED clash
       ELSE /\ proc' = [proc EXCEPT ![g].pc = "store", ![g].tmp = pending]
            /\ clash' = (clash \/ Others(g, {"decstore"}))
            /\ UNCHANGED access
    /\ UNCHANGED <<sendq, pending, full, gone, shut>>

(* A send on a nil channel blocks for ever.                                *)
Store(g) ==
    /\ At(g, "store")
    /\ pending' = proc[g].tmp + 1
    /\ proc' = [proc EXCEPT ![g].pc = IF "send" \in gone THEN "stuck" ELSE "put", ![g].tmp = 0]
    /\ UNCHANGED <<sendq, full, gone, shut, access, clash>>

Put(g) ==
    /\ At(g, "put") /\ sendq < Cap
    /\ sendq' = sendq + 1
    /\ Sent(g)
    /\ UNCHANGED <<pending, full, gone, shut, clash>>

-----------------------------------------------------------------------------
(* Close, by another goroutine or by the reader at the end of the stream,  *)
(* or by the run goroutine in the middle of a message (RecvCloses).        *)

BeginClose(g) ==
    /\ g # Run /\ At(g, "idle") /\ ~shut
    /\ Goto(g, "closing")
    /\ clash' = (clash \/ Others(g, {"closing"}))
    /\ UNCHANGED <<sendq, pending, full, gone, shut, access>>

CloseSet(g) ==
    /\ At(g, "closing")
    /\ shut' = TRUE
    /\ Goto(g, IF "close" \in gone THEN "idle" ELSE "closeval")
    /\ UNCHANGED <<sendq, pending, full, gone, access, clash>>

CloseValue(g) ==
    /\ At(g, "closeval")
    /\ Goto(g, IF "close" \in gone THEN "stuck" ELSE "closeput")
    /\ UNCHANGED <<sendq, pending, full, gone, shut, access, clash>>

ClosePut(g) ==
    /\ At(g, "closeput") /\ ~full
    /\ full' = TRUE
    /\ Goto(g, "idle")
    /\ UNCHANGED <<sendq, pending, gone, shut, access, clash>>

-----------------------------------------------------------------------------
(* The reader hands a message over, unless the connection is closing.      *)

queueRecv ==
    /\ At(Reader, "idle") /\ ~shut /\ "recv" \notin gone
    /\ Goto(Reader, "recv")
    /\ UNCHANGED <<sendq, pending, full, gone, shut, access, clash>>

RecvValue ==
    /\ At(Reader, "recv")
    /\ Goto(Reader, IF "recv" \in gone THEN "stuck" ELSE "recvput")
    /\ UNCHANGED <<sendq, pending, full, gone, shut, access, clash>>

-----------------------------------------------------------------------------
(* The run goroutine: as long as the connection is not closing it calls    *)
(* tickOne, which selects one of what is there by then.                    *)

Loop ==
    /\ At(Run, "idle") /\ ~shut
    /\ Goto(Run, "select")
    /\ UNCHANGED <<sendq, pending, full, gone, shut, access, clash>>

SelectClose ==
    /\ At(Run, "select") /\ full
    /\ full' = FALSE /\ shut' = TRUE
    /\ Goto(Run, "idle")
    /\ UNCHANGED <<sendq, pending, gone, access, clash>>

(* The message is handled, and perhaps answered.                           *)
SelectRecv ==
    /\ At(Run, "select") /\ At(Reader, "recvput")
    /\ LET handed == [proc EXCEPT ![Reader] = Rest, ![Run] = Rest] IN
       proc' = handed \/ Calls(handed, Run)
    /\ UNCHANGED <<sendq, pending, full, gone, shut, access, clash>>

(* Or the connection is closed for what it says; a closing one stays so.   *)
RecvCloses ==
    /\ At(Run, "select") /\ At(Reader, "recvput") /\ ~shut
    /\ proc' = [proc EXCEPT ![Reader] = Rest, ![Run].pc = "closing"]
    /\ clash' = (clash \/ Others(Run, {"closing"}))
    /\ UNCHANGED <<sendq, pending, full, gone, shut, access>>

SelectSend ==
    /\ At(Run, "select") /\ sendq > 0 /\ pending \in -MaxSkew .. Cap + MaxSkew
    /\ sendq' = sendq - 1
    /\ Goto(Run, "dec")
    /\ UNCHANGED <<pending, full, gone, shut, access, clash>>

DecLoad ==
    /\ At(Run, "dec")
    /\ proc' = [proc EXCEPT ![Run].pc = "decstore", ![Run].tmp = pending]
    /\ clash' = (clash \/ Others(Run, {"store"}))
    /\ UNCHANGED <<sendq, pending, full, gone, shut, access>>

DecStore ==
    /\ At(Run, "decstore")
    /\ pending' = proc[Run].tmp - 1
    /\ proc' = [proc EXCEPT ![Run].pc = "write", ![Run].tmp = 0]
    /\ UNCHANGED <<sendq, full, gone, shut, access, clash>>

(* appendSend or processWrite: written; or the peer has choked us and the  *)
(* request is taken off the list; or the write fails.                      *)
Write ==
    /\ At(Run, "write")
    /\ \/ Goto(Run, "idle") /\ UNCHANGED shut
       \/ Goto(Run, "lock") /\ UNCHANGED shut
       \/ Goto(Run, "idle") /\ shut' = TRUE
    /\ UNCHANGED <<sendq, pending, full, gone, access, clash>>

(* The ticker: what was appended is flushed, which may fail; or there is   *)
(* nothing to do.                                                          *)
SelectTicker ==
    /\ At(Run, "select")
    /\ shut' \in {shut, TRUE}
    /\ Goto(Run, "idle")
    /\ UNCHANGED <<sendq, pending, full, gone, access, clash>>

(* doClose: the channels are set to nil one by one, ...                    *)
NilSend ==
    /\ At(Run, "idle") /\ shut
    /\ gone' = gone \union {"send"}
    /\ Goto(Run, "nilrecv")
    /\ clash' = (clash \/ Others(Run, {"store"}))
    /\ UNCHANGED <<sendq, pending, full, shut, access>>

NilRecv ==
    /\ At(Run, "nilrecv")
    /\ gone' = gone \union {"recv"}
    /\ Goto(Run, "nilclose")
    /\ UNCHANGED <<sendq, pending, full, shut, access, clash>>

NilClose ==
    /\ At(Run, "nilclose")
    /\ gone' = gone \union {"close"}
    /\ Goto(Run, "doclose")
    /\ clash' = (clash \/ Others(Run, {"closeval"}))
    /\ UNCHANGED <<sendq, pending, full, shut, access>>

(* ... and under the lock the requests are cancelled.                      *)
doClose ==
    /\ At(Run, "doclose") /\ access = "nobody"
    /\ Goto(Run, "end")
    /\ UNCHANGED <<sendq, pending, full, gone, shut, access, clash>>

Sending(g) == Lock(g) \/ Test(g) \/ Load(g) \/ Store(g) \/ Put(g)
Closing(g) == CloseSet(g) \/ CloseValue(g) \/ ClosePut(g)
RunStep ==
    \/ Loop \/ SelectClose \/ SelectRecv \/ RecvCloses \/ SelectSend \/ SelectTicker
    \/ DecLoad \/ DecStore \/ Write \/ NilSend \/ NilRecv \/ NilClose \/ doClose

Next ==
    \/ \E g \in Procs : Begin(g) \/ BeginClose(g) \/ Sending(g) \/ Closing(g)
    \/ queueRecv \/ RecvValue
    \/ RunStep

(* Goroutines run, and a mutex is handed to those who wait for it.         *)
Fairness ==
    /\ \A g \in Procs : WF_vars(Sending(g) \/ Closing(g))
    /\ SF_vars(Lock(Run) \/ doClose)
    /\ WF_vars(RunStep)

Spec == Init /\ [][Next]_vars /\ Fairness

-----------------------------------------------------------------------------
(* Properties.                                                             *)

(* A goroutine waits in Send or Close for room nobody may ever make.       *)
Blocked(g) ==
    \/ At(g, "put") /\ sendq = Cap
    \/ At(g, "closeput") /\ full
    \/ g # Reader /\ At(g, "stuck")

(* Send and Close find room in their channels, which are never nil by      *)
(* then, unless two goroutines met between a test and what it is for       *)
(* (peer.go:224-232, 384-390, 156, 396): the count of the messages that    *)
(* are pending keeps everyone who is alone, with the lock or without, from *)
(* waiting for the run goroutine, the run goroutine itself included.       *)
ChannelsHaveRoom == ~clash => \A g \in Procs : ~Blocked(g)

(* A connection that is closing leaves its run loop, removes itself and    *)
(* closes its socket, whatever messages are queued meanwhile, unless the   *)
(* run goroutine is blocked itself or the lock it needs is held by one     *)
(* that is (peer.go:118-127, 232, 363-371, 399).                           *)
RunLoopEnds ==
    []<>(shut => \/ At(Run, "end")
                 \/ Blocked(Run)
                 \/ access # "nobody" /\ Blocked(access))
=============================================================================
