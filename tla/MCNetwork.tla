----------------------------- MODULE MCNetwork -----------------------------
(***************************************************************************)
(* The instances of Network, Channels, SFTP and PooledIO that TLC checks,  *)
(* in one run: part says which of them is moving, and the others rest in a *)
(* state in which nothing is due.                                          *)
(***************************************************************************)
EXTENDS Network, FiniteSets

CONSTANTS
    Senders, Cap, MaxCancel, MaxSkew,   \* Channels
    Names, Size, MaxCallFaults,         \* SFTP
    Users, Shared, Workers, Buffer, MaxOps  \* PooledIO

(* There are finitely many goroutines, the run goroutine and the reader of *)
(* the connection are none of the others, and some request is cancelled.   *)
ASSUME ChannelsAssumption ==
    /\ IsFiniteSet(Senders) /\ {"run", "reader", "nobody"} \intersect Senders = {}
    /\ Cap \in Nat /\ MaxCancel \in Nat \ {0}

(* None is neither a file nor a channel, there are finitely many workers,  *)
(* and what a worker does besides serving a user is not itself a user.     *)
ASSUME StorageAssumption ==
    /\ Size \in Nat /\ MaxCallFaults \in Nat
    /\ None \notin [size : 0 .. Size, data : SUBSET (1 .. Size)]
    /\ Buffer \in Nat /\ MaxOps \in Nat /\ IsFiniteSet(Workers)
    /\ None \notin Seq(Users \union {"nil"})
    /\ {"off", "idle", "left"} \intersect Users = {}

VARIABLES
    part,
    sendq, pending, full, gone, shut, access, proc, clash,
    phase, ssh, client, file, dirs, last, callFaults,
    ioChan, user, holds, worker, quits, late, ops

C == INSTANCE Channels

(* Each of the SFTP server's files is in a directory of its own, and one   *)
(* of these is in the other one.                                           *)
Outer == CHOOSE n \in Names : TRUE
R == INSTANCE SFTP WITH DirOf <- [n \in Names |-> n], Path <- [n \in Names |-> {Outer, n}],
                        MaxFaults <- MaxCallFaults, faults <- callFaults
P == INSTANCE PooledIO WITH access <- holds

chanVars == <<sendq, pending, full, gone, shut, access, proc, clash>>
sftpVars == <<phase, ssh, client, file, dirs, last, callFaults>>
poolVars == <<ioChan, user, holds, worker, quits, late, ops>>

(* A swarm that has been closed, with nobody who used the network.         *)
Online ==
    /\ sess = [s \in Sessions |-> IF s = 1 THEN "open" ELSE "new"]
    /\ key = [s \in Sessions |-> None] /\ keyfile = None /\ made = 1 /\ mgr = "run"
    /\ net = 1 /\ loop = "end" /\ acc = [pc |-> "end", n |-> None]
    /\ caller = [c \in Callers |-> Idle]
    /\ queue = [s \in Sessions |-> <<>>] /\ server = [s \in Sessions |-> "off"]
    /\ closing = TRUE /\ faults = 0

(* A connection whose run loop has ended.                                  *)
Closed ==
    /\ sendq = 0 /\ pending = 0 /\ full = FALSE /\ gone = {"send", "recv", "close"} /\ shut = TRUE
    /\ access = "nobody" /\ clash = FALSE
    /\ proc = [g \in C!Procs |-> [C!Rest EXCEPT !.pc = IF g = C!Run THEN "end" ELSE "idle"]]

MCInit ==
    /\ R!Init /\ P!Init
    /\ part \in {"network", "channels", "sftp", "pool"}
    /\ IF part = "network" THEN Init ELSE Online
    /\ IF part = "channels" THEN C!Init ELSE Closed

MCNext ==
    \/ part = "network" /\ Next /\ UNCHANGED <<part, chanVars, sftpVars, poolVars>>
    \/ part = "channels" /\ C!Next /\ UNCHANGED <<part, vars, sftpVars, poolVars>>
    \/ part = "sftp" /\ R!Next /\ UNCHANGED <<part, vars, chanVars, poolVars>>
    \/ part = "pool" /\ P!Next /\ UNCHANGED <<part, vars, chanVars, sftpVars>>

MCSpec ==
    /\ MCInit /\ [][MCNext]_<<part, vars, chanVars, sftpVars, poolVars>>
    /\ Fairness /\ C!Fairness /\ P!Fairness

-----------------------------------------------------------------------------
(* The type invariant of the four.                                         *)
AllTypeOK == TypeOK /\ C!TypeOK /\ R!TypeOK /\ P!TypeOK

(* Channels' properties, on this instance: nobody waits for room in Send   *)
(* or Close who did not race (peer.go:224, 384), ...                       *)
ChannelsHaveRoom == C!ChannelsHaveRoom

(* ... and a closing connection leaves its run loop (peer.go:118).         *)
RunLoopEnds == C!RunLoopEnds

(* SFTP's: as long as the storage is open, what is reported as done has    *)
(* been done, whenever the connection died (sftp.go:138-146).              *)
SuccessIsDone == R!SuccessIsDone

(* PooledIO's: every read and write returns (fs.go:340,427,582).           *)
OpsReturn == P!OpsReturn
=============================================================================
