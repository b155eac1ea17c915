------------------------------ MODULE PooledIO ------------------------------
(***************************************************************************)
(* The I/O workers of the filesystem storage (storage/fs.go): a torrent's  *)
(* goroutines hand their reads and writes to a pool over one channel, and  *)
(* wait for the answer with the torrent's lock held.  The workers are told *)
(* to leave over the same channel, while torrents may still be running.    *)
(***************************************************************************)
EXTENDS Naturals, Sequences, FiniteSets, SequencesExt

CONSTANTS
    Users,          \* goroutines that read and write
    Shared,         \* those of one torrent; the others have a torrent each
    Workers,        \* FsStorage.Workers, as a set
    Buffer,         \* IOPBufferSize
    MaxOps,         \* bound: reads and writes
    None

VARIABLES
    ioChan,         \* operations and nils in FsStorage.ioChan, or None
    user,           \* pc of each user
    access,         \* the users that hold their torrent's lock
    worker,         \* what each worker is doing: "off", "idle", "left" or its user
    quits,          \* the nils that Close has yet to send, or None
    late,           \* history: an operation was sent after the last nil
    ops             \* for the bound

vars == <<ioChan, user, access, worker, quits, late, ops>>

Nil == "nil"

TypeOK ==
    /\ ioChan = None \/ (Len(ioChan) <= Buffer /\ Range(ioChan) \subseteq Users \union {Nil})
    /\ user \in [Users -> {"idle", "lock", "test", "put", "wait", "direct", "unlock"}]
    /\ access \subseteq Users
    /\ worker \in [Workers -> {"off", "idle", "left"} \union Users]
    /\ quits = None \/ quits \in 0 .. Cardinality(Workers)
    /\ late \in BOOLEAN
    /\ ops \in 0 .. MaxOps

Init ==
    /\ ioChan = None
    /\ user = [u \in Users |-> "idle"]
    /\ access = {}
    /\ worker = [w \in Workers |-> "off"]
    /\ quits = None
    /\ late = FALSE
    /\ ops = 0

At(u, from, to) == user[u] = from /\ user' = [user EXCEPT ![u] = to]
pooledIO == ioChan # None

-----------------------------------------------------------------------------
(* GetPiece and putChunk.                                                  *)

Call(u) ==
    /\ At(u, "idle", "lock")
    /\ ops < MaxOps /\ ops' = ops + 1
    /\ UNCHANGED <<ioChan, access, worker, quits, late>>

Lock(u) ==
    /\ At(u, "lock", "test")
    /\ u \in Shared => access \intersect Shared = {}
    /\ access' = access \union {u}
    /\ UNCHANGED <<ioChan, worker, quits, late, ops>>

(* Before the pool runs the torrent reads and writes itself.               *)
Test(u) ==
    /\ At(u, "test", IF pooledIO THEN "put" ELSE "direct")
    /\ UNCHANGED <<ioChan, access, worker, quits, late, ops>>

Put(u) ==
    /\ At(u, "put", "wait")
    /\ Len(ioChan) < Buffer
    /\ ioChan' = Append(ioChan, u)
    /\ late' = (late \/ quits = 0)
    /\ UNCHANGED <<access, worker, quits, ops>>

Direct(u) ==
    /\ At(u, "direct", "unlock")
    /\ UNCHANGED <<ioChan, access, worker, quits, late, ops>>

Unlock(u) ==
    /\ At(u, "unlock", "idle")
    /\ access' = access \ {u}
    /\ UNCHANGED <<ioChan, worker, quits, late, ops>>

-----------------------------------------------------------------------------
(* FsStorage.Run makes the channel, and starts the workers.                *)
Run ==
    /\ ~pooledIO
    /\ ioChan' = <<>>
    /\ UNCHANGED <<user, access, worker, quits, late, ops>>

StartWorker(w) ==
    /\ pooledIO /\ worker[w] = "off"
    /\ worker' = [worker EXCEPT ![w] = "idle"]
    /\ UNCHANGED <<ioChan, user, access, quits, late, ops>>

(* A worker leaves when it receives nil.                                   *)
Take(w) ==
    /\ worker[w] = "idle" /\ ioChan # <<>>
    /\ worker' = [worker EXCEPT ![w] = IF Head(ioChan) = Nil THEN "left" ELSE Head(ioChan)]
    /\ ioChan' = Tail(ioChan)
    /\ UNCHANGED <<user, access, quits, late, ops>>

\* mutant: no reply to an operation that failed
RunIOPFails(w) ==
    /\ worker[w] \in Users
    /\ worker' = [worker EXCEPT ![w] = "idle"]
    /\ \/ user' = [user EXCEPT ![worker[w]] = "unlock"]
       \/ UNCHANGED user
    /\ UNCHANGED <<ioChan, access, quits, late, ops>>

(* It reads or writes, and replies, whether that failed or not; whoever    *)
(* asked is waiting for the reply.                                         *)
RunIOP(w) ==
    /\ worker[w] \in Users
    /\ worker' = [worker EXCEPT ![w] = "idle"]
    /\ user' = [user EXCEPT ![worker[w]] = "unlock"]
    /\ UNCHANGED <<ioChan, access, quits, late, ops>>

(* Close sends one nil for each worker, when there is a pool by then.      *)
Close ==
    /\ quits = None
    /\ quits' = IF pooledIO THEN Cardinality(Workers) ELSE 0
    /\ UNCHANGED <<ioChan, user, access, worker, late, ops>>

SendNil ==
    /\ quits \notin {None, 0} /\ Len(ioChan) < Buffer
    /\ ioChan' = Append(ioChan, Nil)
    /\ quits' = quits - 1
    /\ UNCHANGED <<user, access, worker, late, ops>>

UserStep(u) == Lock(u) \/ Test(u) \/ Put(u) \/ Direct(u) \/ Unlock(u)
WorkerStep(w) == StartWorker(w) \/ Take(w) \/ RunIOP(w)

Next ==
    \/ \E u \in Users : Call(u) \/ UserStep(u)
    \/ \E w \in Workers : WorkerStep(w)
    \/ Run \/ Close \/ SendNil

(* Goroutines run, and reads and writes come to an end.                    *)
Fairness ==
    /\ \A u \in Users : WF_vars(UserStep(u))
    /\ \A w \in Workers : WF_vars(WorkerStep(w))
    /\ WF_vars(SendNil)

Spec == Init /\ [][Next]_vars /\ Fairness

-----------------------------------------------------------------------------
(* Properties.                                                             *)

(* Every read and write returns, and the torrent's lock with it, when the  *)
(* channel is full and when the workers are told to leave over it, unless  *)
(* an operation was sent after the last of them was told (fs.go:340,427,   *)
(* 582).                                                                   *)
OpsReturn == []<>((\A u \in Users : user[u] = "idle") \/ late)
=============================================================================
