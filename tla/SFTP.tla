-------------------------------- MODULE SFTP --------------------------------
(***************************************************************************)
(* The driver that keeps the storage's files on an SFTP server             *)
(* (lib/fs/sftp.go): its two layers of connection, and the operations the  *)
(* storage calls.  An operation is a step of its own: what a call of the   *)
(* server that fails leaves behind is one of the outcomes of the           *)
(* operation.                                                              *)
(***************************************************************************)
EXTENDS Naturals

CONSTANTS
    Names,          \* files
    DirOf,          \* the directory each of them is in
    Path,           \* each directory with those it is in
    Size,           \* of a file, in chunks
    MaxFaults,      \* bound: calls that fail
    None            \* no file, no operation

VARIABLES
    phase,          \* of the storage: "new", "open", "closed", or "panic"
    ssh, client,    \* sshClient and sftpClient: "nil", "live" or "dead"
    file,           \* the server's files: None, or size and data
    dirs,           \* the server's directories
    last,           \* history: the last operation and what it reported
    faults          \* for the bound

vars == <<phase, ssh, client, file, dirs, last, faults>>

(* Where chunks are written.                                              *)
Offsets == 1 .. Size

Dirs == {DirOf[n] : n \in Names}
EmptyFile == [size |-> 0, data |-> {}]
Zeros == [size |-> Size, data |-> {}]

Ops ==
    [do : {"EnsureFile", "Remove", "RemoveAll"}, name : Names]
      \union [do : {"WriteAt", "ReadAt"}, name : Names, at : Offsets]
      \union [do : {"Move"}, name : Names, to : Names]

TypeOK ==
    /\ phase \in {"new", "open", "closed", "panic"}
    /\ {ssh, client} \subseteq {"nil", "live", "dead"}
    /\ \A n \in Names :
          file[n] = None \/ file[n] \in [size : {0} \union Offsets, data : SUBSET Offsets]
    /\ dirs \subseteq Dirs
    /\ last.op \in {None} \union Ops /\ last.ok \in BOOLEAN
    /\ faults \in 0 .. MaxFaults

Init ==
    /\ phase = "new" /\ ssh = "nil" /\ client = "nil"
    /\ file = [n \in Names |-> None]
    /\ dirs = {}
    /\ last = [op |-> None, ok |-> FALSE]
    /\ faults = 0

-----------------------------------------------------------------------------
(* What an operation does on the server: what comes of it without a fault, *)
(* and what else may with one.                                             *)

Result(ok, f, d) == [ok |-> ok, file |-> f, dirs |-> d, panic |-> FALSE]
Panic(f, d) == [Result(FALSE, f, d) EXCEPT !.panic = TRUE]
Failed == Result(FALSE, file, dirs)
Outcome(fine, faulty) == [fine |-> fine, faulty |-> faulty \union {Failed}]

FileExists(n) == client # "nil" /\ file[n] # None
EnsureDir(n) == dirs \union Path[DirOf[n]]
OpenFileWriteOnly(n) == [file EXCEPT ![n] = EmptyFile]

(* A file that is found is taken for good, whatever its size; one that is  *)
(* not is made anew, and a failed look finds nothing.  When the file can't *)
(* be created, Close is called on no file.                                 *)
EnsureFile(n) ==
    LET made == Result(TRUE, [file EXCEPT ![n] = Zeros], EnsureDir(n)) IN
    Outcome({IF FileExists(n) THEN Result(TRUE, file, dirs) ELSE made},
            {made, Result(FALSE, OpenFileWriteOnly(n), EnsureDir(n)), Panic(file, EnsureDir(n))})

(* The storage opens the file, writes one chunk and closes it.  Opening    *)
(* truncates the file, or makes it anew.                                   *)
WriteAt(n, k) ==
    IF DirOf[n] \notin dirs THEN Outcome({Failed}, {})
    ELSE Outcome({Result(TRUE, [file EXCEPT ![n] = [size |-> k, data |-> {k}]], dirs)},
                 {Result(FALSE, OpenFileWriteOnly(n), dirs)})

(* It opens the file, reads one chunk and closes it.                       *)
OpenFileReadOnly(n) == file[n] # None
ReadAt(n, k) == Outcome({Result(OpenFileReadOnly(n) /\ k <= file[n].size, file, dirs)}, {})

(* The server does not rename over a file that is there.                   *)
Move(n, m) ==
    Outcome({IF file[n] = None \/ file[m] # None THEN Result(FALSE, file, EnsureDir(m))
             ELSE Result(TRUE, [file EXCEPT ![m] = file[n], ![n] = None], EnsureDir(m))},
            {Result(FALSE, file, EnsureDir(m))})

(* Remove, and RemoveAll of a file.                                        *)
Remove(n) ==
    Outcome({Result(file[n] # None, [file EXCEPT ![n] = None], dirs)}, {})

(* The files are removed one by one, and then the directory.  A directory  *)
(* inside of it is looked for under a wrong name, which fails.             *)
removeAllDir(d) ==
    LET Inside == {x \in Names : DirOf[x] = d}
        Without(S) == [x \in Names |-> IF x \in S THEN None ELSE file[x]]
        Partly == {Result(FALSE, Without(S), dirs) : S \in SUBSET Inside}
    IN
    Outcome(IF \E e \in dirs \ {d} : d \in Path[e] THEN Partly
            ELSE {Result(TRUE, Without(Inside), dirs \ {d})},
            Partly)

(* RemoveAll of the directory of a file.                                   *)
RemoveAll(n) ==
    IF DirOf[n] \in dirs THEN removeAllDir(DirOf[n]) ELSE Outcome({Failed}, {})

Outcomes(op) ==
    CASE op.do = "EnsureFile" -> EnsureFile(op.name)
      [] op.do = "WriteAt"    -> WriteAt(op.name, op.at)
      [] op.do = "ReadAt"     -> ReadAt(op.name, op.at)
      [] op.do = "Move"       -> Move(op.name, op.to)
      [] op.do = "Remove"     -> Remove(op.name)
      [] op.do = "RemoveAll"  -> RemoveAll(op.name)

-----------------------------------------------------------------------------
(* The connection.                                                         *)

Fault == faults < MaxFaults /\ faults' = faults + 1

(* FsStorage.Init opens the driver; when that fails XD ends.               *)
Open ==
    /\ phase = "new"
    /\ ssh' = "live" /\ client' = "live" /\ phase' = "open"
    /\ UNCHANGED <<file, dirs, last, faults>>

(* The operation op goes on with the result r of what it does on the       *)
(* server.                                                                 *)
Visit(op, r) ==
    /\ file' = r.file /\ dirs' = r.dirs
    /\ last' = [op |-> op, ok |-> r.ok]
    /\ phase' = IF r.panic THEN "panic" ELSE phase

(* ensureConn with a connection.  A fault may be the connection's end.     *)
Operate(op) ==
    /\ phase \in {"open", "closed"}
    /\ client = "live" \/ (client = "nil" /\ ssh # "dead")
    /\ ssh' = "live"
    /\ \/ client' = "live" /\ UNCHANGED faults
          /\ \E r \in Outcomes(op).fine : Visit(op, r)
       \/ client' \in {"live", "dead"} /\ Fault
          /\ \E r \in Outcomes(op).faulty : Visit(op, r)

\* mutant: what Close returns is returned with a connection as well
OperateDeadUnnoticed(op) ==
    /\ phase \in {"open", "closed"} /\ client = "dead"
    /\ Visit(op, Result(TRUE, file, dirs))
    /\ UNCHANGED <<ssh, client, faults>>

(* ... with one that has died: it is never made again.                     *)
OperateDead(op) ==
    /\ phase \in {"open", "closed"} /\ client = "dead"
    /\ Visit(op, Result(FALSE, file, dirs))
    /\ UNCHANGED <<ssh, client, faults>>

(* ... without one, when the server does not answer: what is returned is   *)
(* the result of Close, which finds no error when there is nothing to      *)
(* close.  Who opened a file goes on with no file, and panics.             *)
OperateUnconnected(op) ==
    /\ phase = "closed" /\ client = "nil"
    /\ Fault \/ (ssh = "dead" /\ UNCHANGED faults)
    /\ \E ok \in {TRUE, ssh = "nil"} :
          Visit(op, IF ok /\ op.do \in {"ReadAt", "WriteAt"} THEN Panic(file, dirs)
                    ELSE Result(ok, file, dirs))
    /\ ssh' = "nil" /\ UNCHANGED client

Die ==
    /\ client = "live" /\ Fault
    /\ client' = "dead" /\ ssh' = "dead"
    /\ UNCHANGED <<phase, file, dirs, last>>

(* FsStorage.Close, at the end; the torrents' goroutines may go on.  When  *)
(* the first layer can't be closed the second one is left open.            *)
Close ==
    /\ phase = "open"
    /\ phase' = "closed"
    /\ client' = "nil"
    /\ ssh' \in {"nil", ssh}
    /\ UNCHANGED <<file, dirs, last, faults>>

Next ==
    \/ Open \/ Die \/ Close
    \/ \E op \in Ops : Operate(op) \/ OperateDead(op) \/ OperateUnconnected(op)

Spec == Init /\ [][Next]_vars

-----------------------------------------------------------------------------
(* Properties.                                                             *)

Effect(op) ==
    CASE op.do = "EnsureFile" -> file[op.name] # None
      [] op.do = "WriteAt"    -> file[op.name] # None /\ op.at \in file[op.name].data
      [] op.do = "ReadAt"     -> file[op.name] # None
      [] op.do = "Move"       -> file[op.to] # None /\ file[op.name] = None
      [] op.do = "Remove"     -> file[op.name] = None
      [] op.do = "RemoveAll"  -> \A n \in Names : DirOf[n] = DirOf[op.name] => file[n] = None

(* As long as the storage is open, an operation that reports success has   *)
(* been done, whenever the connection died (sftp.go:138-146).              *)
SuccessIsDone == phase = "open" /\ last.ok => Effect(last.op)
=============================================================================
