-------------------------- MODULE MCNetworkProofs -------------------------
(***************************************************************************)
(* Safety of what MCNetwork sets beside Network: the channels of a          *)
(* connection, for any number of goroutines and any capacity, and the SFTP  *)
(* driver, for any number of files and faults; and the types of all of it.  *)
(* C!X is what Channels defines as X, R!X what SFTP does, P!X what PooledIO *)
(* does.                                                                    *)
(***************************************************************************)
EXTENDS MCNetwork, NetworkProofs, FiniteSetTheorems

-----------------------------------------------------------------------------
(* Types.                                                                  *)

ProcType == [pc : C!PCs, left : 0 .. MaxCancel, lock : BOOLEAN, tmp : Int]

LEMMA RunFacts ==
    /\ C!Run \in C!Procs /\ C!Reader \in C!Procs /\ C!Run # C!Reader
    /\ C!Run \notin Senders /\ C!Reader \notin Senders
    /\ C!Rest \in ProcType /\ C!Rest.pc = "idle"
    /\ IsFiniteSet(C!Procs)
<1>1. IsFiniteSet({C!Run, C!Reader})
    <2>1. IsFiniteSet({C!Run}) /\ {C!Run, C!Reader} = {C!Run} \union {C!Reader}
        BY FS_Singleton
    <2>2. QED
        BY <2>1, FS_AddElement
<1>2. IsFiniteSet(C!Procs)
    BY <1>1, FS_Union, ChannelsAssumption DEF C!Procs
<1>3. QED
    BY <1>2, ChannelsAssumption DEF C!Procs, C!Run, C!Reader, C!Rest, ProcType, C!PCs

(* The goroutine g goes to one of pcs; its count is tmp or none.           *)
Moves(g, pcs) ==
    /\ proc' \in [C!Procs -> ProcType]
    /\ proc'[g].pc \in pcs
    /\ \A h \in C!Procs \ {g} : proc'[h] = proc[h]

LEMMA GotoFacts ==
    ASSUME C!TypeOK, NEW g \in C!Procs, NEW pc \in C!PCs, C!Goto(g, pc)
    PROVE  Moves(g, {pc}) /\ proc'[g].tmp = proc[g].tmp
BY DEF C!TypeOK, C!Goto, Moves, ProcType

LEMMA CountFacts ==
    ASSUME C!TypeOK, NEW g \in C!Procs, NEW pc \in C!PCs, NEW n \in Int,
           proc' = [proc EXCEPT ![g].pc = pc, ![g].tmp = n]
    PROVE  Moves(g, {pc}) /\ proc'[g].tmp = n
BY DEF C!TypeOK, Moves, ProcType

LEMMA SentFacts ==
    ASSUME C!TypeOK, NEW g \in C!Procs, C!Sent(g)
    PROVE  /\ Moves(g, {"test", "idle"})
           /\ access' \in {access, "nobody"}
<1>1. CASE proc[g].left > 1
    <2>1. proc[g].left - 1 \in 0 .. MaxCancel
        BY <1>1, ChannelsAssumption DEF C!TypeOK
    <2>2. /\ proc' = [proc EXCEPT ![g].pc = "test", ![g].left = proc[g].left - 1]
          /\ access' = access
        BY <1>1 DEF C!Sent
    <2>3. QED
        BY <2>1, <2>2 DEF C!TypeOK, Moves, ProcType, C!PCs
<1>2. CASE ~(proc[g].left > 1)
    BY <1>2, RunFacts DEF C!Sent, C!TypeOK, Moves, ProcType
<1>3. QED
    BY <1>1, <1>2

LEMMA CallRecords ==
    ASSUME NEW r \in ProcType, NEW n \in 1 .. MaxCancel
    PROVE  /\ [r EXCEPT !.pc = "test", !.left = 1] \in ProcType
           /\ [r EXCEPT !.pc = "test", !.left = 1].pc = "test"
           /\ [r EXCEPT !.pc = "lock", !.left = n, !.lock = TRUE] \in ProcType
           /\ [r EXCEPT !.pc = "lock", !.left = n, !.lock = TRUE].pc = "lock"
<1>1. 1 \in 0 .. MaxCancel /\ n \in 0 .. MaxCancel /\ {"test", "lock"} \subseteq C!PCs
    BY ChannelsAssumption DEF C!PCs
<1>2. /\ [r EXCEPT !.pc = "test", !.left = 1] \in ProcType
      /\ [r EXCEPT !.pc = "test", !.left = 1].pc = "test"
    BY <1>1 DEF ProcType
<1>3. /\ [r EXCEPT !.pc = "lock", !.left = n, !.lock = TRUE] \in ProcType
      /\ [r EXCEPT !.pc = "lock", !.left = n, !.lock = TRUE].pc = "lock"
    BY <1>1 DEF ProcType
<1>4. QED
    BY <1>2, <1>3

LEMMA CallsFacts ==
    ASSUME NEW procs \in [C!Procs -> ProcType], NEW g \in C!Procs, C!Calls(procs, g)
    PROVE  /\ proc' \in [C!Procs -> ProcType] /\ proc'[g].pc \in {"test", "lock"}
           /\ \A h \in C!Procs \ {g} : proc'[h] = procs[h]
<1> DEFINE one == [C!Rest EXCEPT !.pc = "test", !.left = 1]
           some(n) == [C!Rest EXCEPT !.pc = "lock", !.left = n, !.lock = TRUE]
<1>1. 1 \in 1 .. MaxCancel
    BY ChannelsAssumption
<1>2. one \in ProcType /\ one.pc = "test"
    BY <1>1, RunFacts, CallRecords, Zenon
<1>3. \A n \in 1 .. MaxCancel : some(n) \in ProcType /\ some(n).pc = "lock"
    BY RunFacts, CallRecords, Zenon
<1> HIDE DEF one, some
<1>5. CASE proc' = [procs EXCEPT ![g] = [C!Rest EXCEPT !.pc = "test", !.left = 1]]
    <2>1. proc' = [procs EXCEPT ![g] = one]
        BY <1>5 DEF one
    <2>2. QED
        BY <1>2, <2>1
<1>6. ASSUME NEW n \in 1 .. MaxCancel,
             proc' = [procs EXCEPT ![g] = [C!Rest EXCEPT !.pc = "lock", !.left = n, !.lock = TRUE]]
      PROVE  /\ proc' \in [C!Procs -> ProcType] /\ proc'[g].pc \in {"test", "lock"}
             /\ \A h \in C!Procs \ {g} : proc'[h] = procs[h]
    <2>1. proc' = [procs EXCEPT ![g] = some(n)]
        BY <1>6 DEF some
    <2>2. QED
        BY <1>3, <2>1
<1>7. QED
    BY <1>5, <1>6 DEF C!Calls

(* What Send does.                                                         *)
LEMMA TypeSending ==
    ASSUME C!TypeOK, NEW g \in C!Procs, C!Sending(g)
    PROVE  /\ C!TypeOK'
           /\ Moves(g, {"idle", "test", "load", "store", "put", "stuck"})
<1>0. {"idle", "test", "load", "store", "put", "stuck"} \subseteq C!PCs /\ proc[g].pc \in C!PCs
      /\ proc \in [C!Procs -> ProcType]
    BY DEF C!PCs, C!TypeOK, ProcType
<1>1. CASE C!Lock(g)
    <2>1. Moves(g, {"idle", "test"})
        <3>1. CASE proc[g].left = 0
            BY <1>0, <1>1, <3>1, RunFacts DEF C!Lock, Moves
        <3>2. CASE proc[g].left # 0
            BY <1>0, <1>1, <3>2, GotoFacts DEF C!Lock, Moves
        <3>3. QED
            BY <3>1, <3>2
    <2>2. access' \in C!Procs \union {"nobody"}
        BY <1>1 DEF C!Lock, C!TypeOK
    <2>3. QED
        BY <1>1, <2>1, <2>2 DEF C!Lock, C!TypeOK, Moves, ProcType
<1>2. CASE C!Test(g)
    <2>1. Moves(g, {"idle", "test", "load"}) /\ access' \in {access, "nobody"}
        BY <1>0, <1>2, SentFacts, GotoFacts DEF C!Test, Moves
    <2>2. clash' \in BOOLEAN
        BY <1>2 DEF C!Test, C!TypeOK
    <2>3. QED
        BY <1>2, <2>1, <2>2 DEF C!Test, C!TypeOK, Moves, ProcType
<1>3. CASE C!Load(g)
    <2>1. Moves(g, {"idle", "test", "store"}) /\ access' \in {access, "nobody"} /\ clash' \in BOOLEAN
        <3>1. CASE "send" \in gone
            BY <1>3, <3>1, SentFacts DEF C!Load, Moves, C!TypeOK
        <3>2. CASE "send" \notin gone
            <4>1. /\ proc' = [proc EXCEPT ![g].pc = "store", ![g].tmp = pending]
                  /\ access' = access /\ clash' \in BOOLEAN
                BY <1>3, <3>2 DEF C!Load, C!TypeOK
            <4>2. QED
                BY <1>0, <4>1 DEF Moves, C!TypeOK, ProcType
        <3>3. QED
            BY <3>1, <3>2
    <2>2. QED
        BY <1>3, <2>1 DEF C!Load, C!TypeOK, Moves, ProcType
<1>4. CASE C!Store(g)
    <2>1. PICK pc \in {"stuck", "put"} : proc' = [proc EXCEPT ![g].pc = pc, ![g].tmp = 0]
        BY <1>4 DEF C!Store
    <2>2. Moves(g, {"stuck", "put"})
        <3>1. Moves(g, {pc}) /\ pc \in {"stuck", "put"}
            <4>1. pc \in C!PCs /\ 0 \in Int
                BY <1>0
            <4>2. QED
                BY <2>1, <4>1, CountFacts, Zenon
        <3>2. QED
            BY <3>1 DEF Moves
    <2>3. pending' \in Int
        BY <1>4 DEF C!Store, C!TypeOK
    <2>4. QED
        BY <1>4, <2>2, <2>3 DEF C!Store, C!TypeOK, Moves, ProcType
<1>5. CASE C!Put(g)
    <2>1. Moves(g, {"idle", "test"}) /\ access' \in {access, "nobody"}
        BY <1>5, SentFacts DEF C!Put, Moves
    <2>2. sendq' \in 0 .. Cap
        BY <1>5, ChannelsAssumption DEF C!Put, C!TypeOK
    <2>3. QED
        BY <1>5, <2>1, <2>2 DEF C!Put, C!TypeOK, Moves, ProcType
<1>6. QED
    BY <1>1, <1>2, <1>3, <1>4, <1>5 DEF C!Sending, Moves

(* What other goroutines begin, Close and the reader do.                   *)
Elsewhere(g) ==
    \/ C!Begin(g) \/ C!BeginClose(g) \/ C!Closing(g)
    \/ g = C!Reader /\ (C!queueRecv \/ C!RecvValue)

LEMMA TypeElsewhere ==
    ASSUME C!TypeOK, NEW g \in C!Procs, Elsewhere(g)
    PROVE  C!TypeOK' /\ Moves(g, C!PCs)
<1>1. Moves(g, C!PCs)
    <2>1. CASE C!Begin(g)
        BY <2>1, CallsFacts DEF C!Begin, C!TypeOK, ProcType, Moves, C!PCs
    <2>2. CASE ~C!Begin(g)
        <3>1. PICK pc \in C!PCs : C!Goto(g, pc)
            BY <2>2 DEF Elsewhere, C!BeginClose, C!Closing, C!CloseSet, C!CloseValue, C!ClosePut,
                        C!queueRecv, C!RecvValue, C!PCs
        <3>2. QED
            BY <3>1, GotoFacts DEF Moves
    <2>3. QED
        BY <2>1, <2>2
<1>2. /\ UNCHANGED <<sendq, pending, gone, access>>
      /\ full' \in BOOLEAN /\ shut' \in BOOLEAN /\ clash' \in BOOLEAN
    BY DEF Elsewhere, C!Begin, C!BeginClose, C!Closing, C!CloseSet, C!CloseValue, C!ClosePut,
           C!queueRecv, C!RecvValue, C!TypeOK
<1>3. QED
    BY <1>1, <1>2 DEF C!TypeOK, Moves, ProcType

(* The run goroutine's steps.                                              *)
LEMMA TypeRun ==
    ASSUME C!TypeOK, C!RunStep
    PROVE  C!TypeOK'
<1>0. proc \in [C!Procs -> ProcType] /\ C!Run \in C!Procs /\ C!Reader \in C!Procs
    BY RunFacts DEF C!TypeOK, ProcType
<1>1. CASE C!SelectRecv
    <2> DEFINE handed == [proc EXCEPT ![C!Reader] = C!Rest, ![C!Run] = C!Rest]
    <2>1. handed \in [C!Procs -> ProcType]
        BY <1>0, RunFacts
    <2>2. proc' = handed \/ C!Calls(handed, C!Run)
        BY <1>1 DEF C!SelectRecv
    <2> HIDE DEF handed
    <2>3. proc' \in [C!Procs -> ProcType]
        BY <1>0, <2>1, <2>2, CallsFacts
    <2>4. QED
        BY <1>1, <2>3 DEF C!SelectRecv, C!TypeOK, ProcType
<1>2. CASE C!DecLoad
    <2>1. proc' = [proc EXCEPT ![C!Run].pc = "decstore", ![C!Run].tmp = pending] /\ clash' \in BOOLEAN
        BY <1>2 DEF C!DecLoad, C!TypeOK
    <2>2. "decstore" \in C!PCs /\ pending \in Int
        BY DEF C!PCs, C!TypeOK
    <2>3. Moves(C!Run, C!PCs)
        BY <1>0, <2>1, <2>2 DEF Moves, ProcType
    <2>4. QED
        BY <1>2, <2>1, <2>3 DEF C!DecLoad, C!TypeOK, Moves, ProcType
<1>3. CASE C!DecStore
    <2>1. "write" \in C!PCs /\ pending' \in Int
        BY <1>0, <1>3 DEF C!PCs, C!DecStore, ProcType
    <2>2. Moves(C!Run, C!PCs)
        <3>1. proc' = [proc EXCEPT ![C!Run].pc = "write", ![C!Run].tmp = 0] /\ 0 \in Int
            BY <1>3 DEF C!DecStore
        <3>2. Moves(C!Run, {"write"})
            BY <1>0, <2>1, <3>1, CountFacts
        <3>3. QED
            BY <2>1, <3>2 DEF Moves
    <2>3. QED
        BY <1>3, <2>1, <2>2 DEF C!DecStore, C!TypeOK, Moves, ProcType
<1>6. CASE C!RecvCloses
    <2>1. /\ proc' = [proc EXCEPT ![C!Reader] = C!Rest, ![C!Run].pc = "closing"]
          /\ "closing" \in C!PCs
        BY <1>6 DEF C!RecvCloses, C!PCs
    <2>2. proc' \in [C!Procs -> ProcType]
        BY <1>0, <2>1, RunFacts DEF ProcType
    <2>3. QED
        BY <1>6, <2>2 DEF C!RecvCloses, C!TypeOK, ProcType
<1>4. CASE ~C!SelectRecv /\ ~C!RecvCloses /\ ~C!DecLoad /\ ~C!DecStore
    <2>1. PICK pc \in C!PCs : C!Goto(C!Run, pc)
        BY <1>4 DEF C!RunStep, C!Loop, C!SelectClose, C!SelectSend, C!SelectTicker, C!Write, C!NilSend,
                    C!NilRecv, C!NilClose, C!doClose, C!PCs
    <2>2. Moves(C!Run, C!PCs)
        BY <1>0, <2>1, GotoFacts DEF Moves
    <2>3. sendq' \in 0 .. Cap
        <3>1. CASE C!SelectSend
            BY <3>1, ChannelsAssumption DEF C!SelectSend, C!TypeOK
        <3>2. CASE ~C!SelectSend
            BY <1>4, <3>2 DEF C!RunStep, C!Loop, C!SelectClose, C!SelectTicker, C!Write, C!NilSend,
                              C!NilRecv, C!NilClose, C!doClose, C!TypeOK
        <3>3. QED
            BY <3>1, <3>2
    <2>4. /\ UNCHANGED <<pending, access>> /\ full' \in BOOLEAN /\ shut' \in BOOLEAN
          /\ clash' \in BOOLEAN /\ gone' \subseteq {"send", "recv", "close"}
        BY <1>4 DEF C!RunStep, C!Loop, C!SelectClose, C!SelectSend, C!SelectTicker, C!Write, C!NilSend,
                    C!NilRecv, C!NilClose, C!doClose, C!TypeOK
    <2>5. QED
        BY <2>2, <2>3, <2>4 DEF C!TypeOK, Moves, ProcType
<1>5. QED
    BY <1>1, <1>2, <1>3, <1>4, <1>6

(* The reader's message is taken, and the connection closed for it.        *)
LEMMA ReaderReleased ==
    ASSUME C!TypeOK, C!RecvCloses
    PROVE  /\ proc'[C!Run].pc = "closing" /\ proc'[C!Reader].pc = "idle"
           /\ \A h \in C!Procs \ {C!Run, C!Reader} : proc'[h] = proc[h]
           /\ proc[C!Run].pc = "select" /\ proc[C!Reader].pc = "recvput"
<1>1. /\ proc' = [proc EXCEPT ![C!Reader] = C!Rest, ![C!Run].pc = "closing"]
      /\ proc[C!Run].pc = "select" /\ proc[C!Reader].pc = "recvput"
    BY DEF C!RecvCloses, C!At
<1>2. proc \in [C!Procs -> ProcType] /\ C!Run \in C!Procs /\ C!Reader \in C!Procs
    BY RunFacts DEF C!TypeOK, ProcType
<1>3. QED
    BY <1>1, <1>2, RunFacts DEF ProcType, C!Rest

LEMMA ChannelsTypeInit == (C!Init \/ Closed) => C!TypeOK
<1> SUFFICES ASSUME C!Init \/ Closed PROVE C!TypeOK
    OBVIOUS
<1>1. ASSUME NEW pc \in C!PCs PROVE [C!Rest EXCEPT !.pc = pc] \in ProcType
    BY RunFacts DEF ProcType
<1>2. proc \in [C!Procs -> ProcType]
    <2>1. CASE C!Init
        BY <2>1, RunFacts DEF C!Init
    <2>2. CASE Closed
        BY <1>1, <2>2 DEF Closed, C!PCs
    <2>3. QED
        BY <2>1, <2>2
<1>3. /\ sendq \in 0 .. Cap /\ pending \in Int /\ {full, shut, clash} \subseteq BOOLEAN
      /\ gone \subseteq {"send", "recv", "close"} /\ access \in C!Procs \union {"nobody"}
    <2>1. /\ sendq = 0 /\ pending = 0 /\ full = FALSE /\ clash = FALSE /\ access = "nobody"
          /\ gone \in {{}, {"send", "recv", "close"}} /\ shut \in BOOLEAN
        BY DEF C!Init, Closed
    <2>2. full \in BOOLEAN /\ clash \in BOOLEAN
        BY <2>1
    <2>3. {full, shut, clash} \subseteq BOOLEAN
        BY <2>1, <2>2
    <2>4. sendq \in 0 .. Cap /\ pending \in Int
        BY <2>1, ChannelsAssumption
    <2>5. QED
        BY <2>1, <2>3, <2>4
<1>4. QED
    BY <1>2, <1>3 DEF C!TypeOK, ProcType

LEMMA ChannelsTypeStep == C!TypeOK /\ C!Next => C!TypeOK'
BY TypeSending, TypeElsewhere, TypeRun, RunFacts DEF C!Next, Elsewhere

-----------------------------------------------------------------------------
(* The count of the messages.                                              *)

Putting  == {g \in C!Procs : proc[g].pc = "put"}
Counting == {g \in C!Procs : proc[g].pc \in {"load", "store"}}
Taken == IF proc[C!Run].pc \in {"dec", "decstore"} THEN 1 ELSE 0

(* As long as no two goroutines have met, sendPending is the number of     *)
(* messages in the channel, about to be put there, and taken out but not   *)
(* yet counted; one goroutine at most has passed the test and is not       *)
(* counted yet, there is room for it, and whoever has read sendPending to  *)
(* write it back has read what it still is.                                *)
CountInv ==
    ~clash =>
        /\ pending = sendq + Cardinality(Putting) + Taken /\ pending <= Cap
        /\ Counting # {} => pending < Cap
        /\ \A g, h \in Counting : g = h
        /\ \A g \in C!Procs : C!At(g, "store") =>
              proc[g].tmp = pending /\ "send" \notin gone /\ ~C!At(C!Run, "decstore")
        /\ C!At(C!Run, "decstore") => proc[C!Run].tmp = pending

LEMMA PuttingFacts ==
    /\ IsFiniteSet(Putting) /\ Cardinality(Putting) \in Nat
    /\ \A g \in Putting : IsFiniteSet(Putting \ {g}) /\ Cardinality(Putting \ {g}) = Cardinality(Putting) - 1
    /\ \A g : g \notin Putting => Cardinality(Putting \union {g}) = Cardinality(Putting) + 1
<1>1. IsFiniteSet(Putting)
    BY RunFacts, FS_Subset DEF Putting
<1>2. QED
    BY <1>1, FS_CardinalityType, FS_RemoveElement, FS_AddElement

(* The goroutine moves that have nothing to do with the count.             *)
Apart == {"put", "load", "store", "dec", "decstore"}

LEMMA CountFrame ==
    ASSUME CountInv, UNCHANGED <<sendq, pending>>, "send" \in gone' => "send" \in gone,
           ~clash' => ~clash,
           \A h \in C!Procs : \/ proc'[h] = proc[h]
                              \/ proc[h].pc \notin Apart \ {"load", "store"} /\ proc'[h].pc \notin Apart
    PROVE  CountInv'
<1>1. Putting' = Putting /\ Counting' \subseteq Counting
    BY DEF Putting, Counting, Apart
<1>2. Taken' = Taken /\ (C!At(C!Run, "decstore") <=> C!At(C!Run, "decstore")')
      /\ (C!At(C!Run, "decstore") => proc'[C!Run] = proc[C!Run])
    BY RunFacts DEF Taken, Apart, C!At
<1>3. \A g \in C!Procs : C!At(g, "store")' => proc'[g] = proc[g]
    BY DEF Apart, C!At
<1>4. QED
    BY <1>1, <1>2, <1>3 DEF CountInv, C!At

LEMMA CountTest ==
    ASSUME C!TypeOK, CountInv, NEW g \in C!Procs, C!Test(g)
    PROVE  CountInv'
<1>1. CASE pending >= Cap
    <2>1. Moves(g, {"test", "idle"}) /\ C!At(g, "test")
        BY <1>1, SentFacts DEF C!Test
    <2>2. QED
        BY <1>1, <2>1, CountFrame DEF C!Test, C!At, Moves, Apart
<1>2. CASE ~(pending >= Cap)
    <2>1. Moves(g, {"load"}) /\ C!At(g, "test")
        BY <1>2, GotoFacts DEF C!Test, C!PCs
    <2>2. SUFFICES ASSUME ~clash' PROVE CountInv'
        BY DEF CountInv
    <2>3. ~clash /\ Counting = {} /\ pending < Cap
        <3>1. ~clash /\ ~C!Others(g, {"load", "store"}) /\ pending \in Int
            BY <1>2, <2>2 DEF C!Test, C!TypeOK
        <3>2. QED
            BY <1>2, <2>1, <3>1, ChannelsAssumption DEF C!Others, Counting, C!At
    <2>4. Putting' = Putting /\ Counting' = {g} /\ Taken' = Taken
        BY <2>1, <2>3, RunFacts DEF Putting, Counting, Taken, Moves, C!At
    <2>5. /\ \A h \in C!Procs : ~C!At(h, "store")'
          /\ C!At(C!Run, "decstore")' => C!At(C!Run, "decstore") /\ proc'[C!Run] = proc[C!Run]
        BY <2>1, <2>3, RunFacts DEF Counting, Moves, C!At
    <2>6. UNCHANGED <<sendq, pending, gone>>
        BY DEF C!Test
    <2>7. QED
        BY <2>3, <2>4, <2>5, <2>6 DEF CountInv
<1>3. QED
    BY <1>1, <1>2

LEMMA CountLoad ==
    ASSUME C!TypeOK, CountInv, NEW g \in C!Procs, C!Load(g)
    PROVE  CountInv'
<1>1. CASE "send" \in gone
    <2>1. Moves(g, {"test", "idle"}) /\ C!At(g, "load")
        BY <1>1, SentFacts DEF C!Load
    <2>2. QED
        BY <1>1, <2>1, CountFrame DEF C!Load, C!At, Moves, Apart
<1>2. CASE "send" \notin gone
    <2>1. Moves(g, {"store"}) /\ proc'[g].tmp = pending /\ C!At(g, "load")
        BY <1>2, CountFacts DEF C!Load, C!PCs, C!TypeOK
    <2>2. SUFFICES ASSUME ~clash' PROVE CountInv'
        BY DEF CountInv
    <2>3. ~clash /\ ~C!Others(g, {"decstore"})
        BY <1>2, <2>2 DEF C!Load
    <2>4. Putting' = Putting /\ Counting' = Counting /\ Taken' = Taken
        BY <2>1, RunFacts DEF Putting, Counting, Taken, Moves, C!At
    <2>5. ~C!At(C!Run, "decstore")'
        BY <2>1, <2>3, RunFacts DEF C!Others, Moves, C!At
    <2>6. \A h \in C!Procs : C!At(h, "store")' => h = g
        BY <2>1, <2>3, <2>4 DEF CountInv, Counting, Moves, C!At
    <2>7. UNCHANGED <<sendq, pending, gone>>
        BY DEF C!Load
    <2>8. QED
        BY <1>2, <2>1, <2>3, <2>4, <2>5, <2>6, <2>7 DEF CountInv
<1>3. QED
    BY <1>1, <1>2

LEMMA CountStore ==
    ASSUME C!TypeOK, CountInv, NEW g \in C!Procs, C!Store(g)
    PROVE  CountInv'
<1>1. SUFFICES ASSUME ~clash' PROVE CountInv'
    BY DEF CountInv
<1>2. ~clash /\ C!At(g, "store") /\ proc[g].tmp = pending /\ "send" \notin gone
      /\ ~C!At(C!Run, "decstore")
    BY <1>1 DEF C!Store, CountInv
<1>3. Moves(g, {"put"})
    <2>1. "put" \in C!PCs /\ 0 \in Int
        BY DEF C!PCs
    <2>2. proc' = [proc EXCEPT ![g].pc = "put", ![g].tmp = 0]
        BY <1>2 DEF C!Store
    <2>3. QED
        BY <2>1, <2>2, CountFacts, Zenon
<1>4. Counting' = {} /\ g \in Counting /\ g \notin Putting
    BY <1>2, <1>3 DEF CountInv, Counting, Putting, Moves, C!At
<1>5. Cardinality(Putting)' = Cardinality(Putting) + 1
    <2>1. Putting' = Putting \union {g}
        BY <1>3 DEF Putting, Moves
    <2>2. QED
        BY <1>4, <2>1, PuttingFacts
<1>6. Taken' = Taken /\ ~C!At(C!Run, "decstore")'
    BY <1>2, <1>3, RunFacts DEF Taken, Moves, C!At
<1>7. \A h \in C!Procs : ~C!At(h, "store")'
    BY <1>4 DEF Counting, C!At
<1>8. pending' = pending + 1 /\ UNCHANGED <<sendq, gone>> /\ pending < Cap
      /\ pending = sendq + Cardinality(Putting) + Taken
    BY <1>2, <1>4 DEF C!Store, CountInv
<1>9. pending' = sendq' + Cardinality(Putting)' + Taken' /\ pending' <= Cap
    <2>1. Taken \in Nat /\ sendq \in Nat /\ pending \in Int /\ Cardinality(Putting) \in Nat
        BY PuttingFacts DEF Taken, C!TypeOK
    <2>2. QED
        BY <1>5, <1>6, <1>8, <2>1, ChannelsAssumption
<1>10. QED
    BY <1>4, <1>6, <1>7, <1>9 DEF CountInv

LEMMA CountPut ==
    ASSUME C!TypeOK, CountInv, NEW g \in C!Procs, C!Put(g)
    PROVE  CountInv'
<1>1. SUFFICES ASSUME ~clash PROVE CountInv'
    BY DEF CountInv, C!Put
<1>2. Moves(g, {"test", "idle"}) /\ C!At(g, "put")
    BY SentFacts DEF C!Put
<1>3. Putting' = Putting \ {g} /\ g \in Putting /\ Counting' = Counting /\ Taken' = Taken
    BY <1>2, RunFacts DEF Putting, Counting, Taken, Moves, C!At
<1>4. Cardinality(Putting)' = Cardinality(Putting) - 1
    BY <1>3, PuttingFacts
<1>5. \A h \in C!Procs : C!At(h, "store")' \/ C!At(h, "decstore")' => proc'[h] = proc[h]
    BY <1>2 DEF Moves, C!At
<1>6. sendq' = sendq + 1 /\ UNCHANGED <<pending, gone, clash>>
    BY DEF C!Put
<1>7. pending' = sendq' + Cardinality(Putting)' + Taken' /\ pending' <= Cap
    <2>1. Taken \in Nat /\ sendq \in Nat /\ pending \in Int /\ Cardinality(Putting) \in Nat
        BY PuttingFacts DEF Taken, C!TypeOK
    <2>2. pending = sendq + Cardinality(Putting) + Taken /\ pending <= Cap
        BY <1>1 DEF CountInv
    <2>3. QED
        BY <1>3, <1>4, <1>6, <2>1, <2>2
<1>8. \A h \in C!Procs : C!At(h, "store")' => C!At(h, "store")
    BY <1>5 DEF C!At
<1>9. C!At(C!Run, "decstore")' <=> C!At(C!Run, "decstore")
    BY <1>2, RunFacts DEF Moves, C!At
<1>10. QED
    BY <1>1, <1>3, <1>5, <1>6, <1>7, <1>8, <1>9, RunFacts DEF CountInv

(* The run goroutine takes a message out and counts it.                    *)
LEMMA CountRun ==
    ASSUME C!TypeOK, CountInv, C!SelectSend \/ C!DecLoad \/ C!DecStore
    PROVE  CountInv'
<1>1. SUFFICES ASSUME ~clash' PROVE CountInv'
    BY DEF CountInv
<1>2. C!Run \in C!Procs /\ Taken \in Nat /\ sendq \in Nat /\ pending \in Int /\ Cardinality(Putting) \in Nat
    BY RunFacts, PuttingFacts DEF Taken, C!TypeOK
<1>3. ~clash /\ pending = sendq + Cardinality(Putting) + Taken /\ pending <= Cap
    <2>1. ~clash
        BY <1>1 DEF C!SelectSend, C!DecLoad, C!DecStore
    <2>2. QED
        BY <2>1 DEF CountInv
<1>4. CASE C!SelectSend
    <2>1. Moves(C!Run, {"dec"}) /\ C!At(C!Run, "select")
        BY <1>2, <1>4, GotoFacts DEF C!SelectSend, C!PCs
    <2>2. Putting' = Putting /\ Counting' = Counting /\ Taken = 0 /\ Taken' = 1
        BY <1>2, <2>1 DEF Putting, Counting, Taken, Moves, C!At
    <2>3. /\ \A h \in C!Procs : C!At(h, "store")' => C!At(h, "store") /\ proc'[h] = proc[h]
          /\ ~C!At(C!Run, "decstore")'
        BY <1>2, <2>1 DEF Moves, C!At
    <2>4. sendq' = sendq - 1 /\ UNCHANGED <<pending, gone>>
        BY <1>4 DEF C!SelectSend
    <2>5. pending' = sendq' + Cardinality(Putting)' + Taken'
        BY <1>2, <1>3, <2>2, <2>4
    <2>6. QED
        BY <1>3, <2>2, <2>3, <2>4, <2>5 DEF CountInv
<1>5. CASE C!DecLoad
    <2>1. Moves(C!Run, {"decstore"}) /\ proc'[C!Run].tmp = pending /\ C!At(C!Run, "dec")
        <3>1. "decstore" \in C!PCs
            BY DEF C!PCs
        <3>2. proc' = [proc EXCEPT ![C!Run].pc = "decstore", ![C!Run].tmp = pending]
            BY <1>5 DEF C!DecLoad
        <3>3. QED
            BY <1>2, <1>5, <3>1, <3>2, CountFacts, Zenon DEF C!DecLoad
    <2>2. Putting' = Putting /\ Counting' = Counting /\ Taken = 1 /\ Taken' = 1
        BY <1>2, <2>1 DEF Putting, Counting, Taken, Moves, C!At
    <2>3. \A h \in C!Procs : ~C!At(h, "store")'
        <3>1. ~C!Others(C!Run, {"store"})
            BY <1>1, <1>5 DEF C!DecLoad
        <3>2. QED
            BY <1>2, <2>1, <3>1 DEF Moves, C!At, C!Others
    <2>4. UNCHANGED <<sendq, pending, gone>>
        BY <1>5 DEF C!DecLoad
    <2>5. QED
        BY <1>3, <2>1, <2>2, <2>3, <2>4 DEF CountInv
<1>6. CASE C!DecStore
    <2>1. Moves(C!Run, {"write"}) /\ C!At(C!Run, "decstore")
        <3>1. "write" \in C!PCs /\ 0 \in Int
            BY DEF C!PCs
        <3>2. proc' = [proc EXCEPT ![C!Run].pc = "write", ![C!Run].tmp = 0]
            BY <1>6 DEF C!DecStore
        <3>3. QED
            BY <1>2, <1>6, <3>1, <3>2, CountFacts, Zenon DEF C!DecStore
    <2>2. Putting' = Putting /\ Counting' = Counting /\ Taken = 1 /\ Taken' = 0
        BY <1>2, <2>1 DEF Putting, Counting, Taken, Moves, C!At
    <2>3. /\ \A h \in C!Procs : ~C!At(h, "store") /\ ~C!At(h, "store")'
          /\ ~C!At(C!Run, "decstore")'
        <3>1. \A h \in C!Procs : ~C!At(h, "store")
            BY <1>3, <2>1 DEF CountInv
        <3>2. QED
            BY <1>2, <2>1, <3>1 DEF Moves, C!At
    <2>4. pending' = pending - 1 /\ UNCHANGED <<sendq, gone>>
        BY <1>3, <1>6, <2>1 DEF C!DecStore, CountInv
    <2>5. /\ pending' = sendq' + Cardinality(Putting)' + Taken' /\ pending' <= Cap
          /\ pending < Cap => pending' < Cap
        BY <1>2, <1>3, <2>2, <2>4, ChannelsAssumption
    <2>6. QED
        BY <1>3, <2>2, <2>3, <2>5 DEF CountInv
<1>7. QED
    BY <1>4, <1>5, <1>6

LEMMA CountStep == C!TypeOK /\ CountInv /\ C!Next => CountInv'
<1> SUFFICES ASSUME C!TypeOK, CountInv, C!Next PROVE CountInv'
    OBVIOUS
<1>1. ASSUME NEW g \in C!Procs, C!Sending(g) PROVE CountInv'
    <2>1. CASE C!Lock(g)
        <3>1. Moves(g, {"idle", "test"}) /\ C!At(g, "lock")
            <4>1. CASE proc[g].left = 0
                BY <2>1, <4>1, RunFacts DEF C!Lock, Moves, C!TypeOK, ProcType
            <4>2. CASE proc[g].left # 0
                BY <2>1, <4>2, GotoFacts DEF C!Lock, Moves, C!PCs
            <4>3. QED
                BY <4>1, <4>2
        <3>2. QED
            BY <2>1, <3>1, CountFrame DEF C!Lock, C!At, Moves, Apart
    <2>2. QED
        BY <1>1, <2>1, CountTest, CountLoad, CountStore, CountPut DEF C!Sending
<1>2. ASSUME NEW g \in C!Procs, Elsewhere(g) PROVE CountInv'
    <2>1. Moves(g, C!PCs \ Apart) /\ proc[g].pc \notin Apart
        <3>1. CASE C!Begin(g)
            <4>1. proc'[g].pc \in {"test", "lock"} /\ proc[g].pc = "idle"
                BY <3>1, CallsFacts DEF C!Begin, C!TypeOK, ProcType, C!At
            <4>2. QED
                BY <1>2, <4>1, TypeElsewhere DEF Moves, Apart
        <3>2. CASE ~C!Begin(g)
            <4>1. /\ \E pc \in {"idle", "closing", "closeval", "closeput", "stuck", "recv", "recvput"} :
                        C!Goto(g, pc)
                  /\ proc[g].pc \in {"idle", "closing", "closeval", "closeput", "recv"}
                BY <1>2, <3>2 DEF Elsewhere, C!BeginClose, C!Closing, C!CloseSet, C!CloseValue, C!ClosePut,
                            C!queueRecv, C!RecvValue, C!At
            <4>2. QED
                BY <4>1, GotoFacts DEF Moves, Apart, C!PCs
        <3>3. QED
            BY <3>1, <3>2
    <2>2. UNCHANGED <<sendq, pending, gone>> /\ (~clash' => ~clash)
        <3>1. UNCHANGED <<sendq, pending, gone>>
            BY <1>2 DEF Elsewhere, C!Begin, C!BeginClose, C!Closing, C!CloseSet, C!CloseValue, C!ClosePut,
                        C!queueRecv, C!RecvValue
        <3>2. ~clash' => ~clash
            BY <1>2 DEF Elsewhere, C!Begin, C!BeginClose, C!Closing, C!CloseSet, C!CloseValue, C!ClosePut,
                        C!queueRecv, C!RecvValue
        <3>3. QED
            BY <3>1, <3>2
    <2>3. QED
        BY <2>1, <2>2, CountFrame DEF Moves
<1>3. CASE C!RunStep
    <2>1. CASE C!SelectSend \/ C!DecLoad \/ C!DecStore
        BY <2>1, CountRun
    <2>2. CASE C!SelectRecv
        <3> DEFINE handed == [proc EXCEPT ![C!Reader] = C!Rest, ![C!Run] = C!Rest]
        <3>1. handed \in [C!Procs -> ProcType] /\ handed[C!Run].pc = "idle" /\ handed[C!Reader].pc = "idle"
              /\ \A h \in C!Procs \ {C!Run, C!Reader} : handed[h] = proc[h]
            BY RunFacts DEF C!TypeOK, ProcType
        <3>2. proc' = handed \/ C!Calls(handed, C!Run)
            BY <2>2 DEF C!SelectRecv
        <3> HIDE DEF handed
        <3>3. /\ proc'[C!Run].pc \in {"idle", "test", "lock"} /\ proc'[C!Reader].pc = "idle"
              /\ \A h \in C!Procs \ {C!Run, C!Reader} : proc'[h] = proc[h]
            BY <3>1, <3>2, RunFacts, CallsFacts
        <3>4. QED
            BY <2>2, <3>3, RunFacts, CountFrame DEF C!SelectRecv, C!At, Apart
    <2>6. CASE C!RecvCloses
        <3>1. /\ proc'[C!Run].pc = "closing" /\ proc'[C!Reader].pc = "idle"
              /\ \A h \in C!Procs \ {C!Run, C!Reader} : proc'[h] = proc[h]
              /\ proc[C!Run].pc = "select" /\ proc[C!Reader].pc = "recvput"
            BY <2>6, ReaderReleased
        <3>2. UNCHANGED <<sendq, pending, gone>>
            BY <2>6 DEF C!RecvCloses
        <3>3. ~clash' => ~clash
            BY <2>6 DEF C!RecvCloses
        <3>4. QED
            BY <3>1, <3>2, <3>3, RunFacts, CountFrame DEF Apart
    <2>3. CASE C!NilSend
        <3>1. SUFFICES ASSUME ~clash' PROVE CountInv'
            BY DEF CountInv
        <3>2. Moves(C!Run, {"nilrecv"}) /\ C!At(C!Run, "idle") /\ ~C!Others(C!Run, {"store"}) /\ ~clash
            BY <2>3, <3>1, RunFacts, GotoFacts DEF C!NilSend, C!PCs
        <3>3. /\ \A h \in C!Procs : ~C!At(h, "store")'
              /\ ~C!At(C!Run, "decstore")'
            BY <3>2, RunFacts DEF C!Others, Moves, C!At
        <3>4. Putting' = Putting /\ Counting' = Counting /\ Taken' = Taken
            BY <3>2, RunFacts DEF Putting, Counting, Taken, Moves, C!At
        <3>5. QED
            BY <2>3, <3>2, <3>3, <3>4 DEF CountInv, C!NilSend
    <2>4. CASE \/ C!Loop \/ C!SelectClose \/ C!SelectTicker \/ C!Write
               \/ C!NilRecv \/ C!NilClose \/ C!doClose
        <3>1. /\ \E pc \in {"select", "idle", "lock", "nilclose", "doclose", "end"} : C!Goto(C!Run, pc)
              /\ proc[C!Run].pc \in {"idle", "select", "write", "nilrecv", "nilclose", "doclose"}
            BY <2>4 DEF C!Loop, C!SelectClose, C!SelectTicker, C!Write, C!NilRecv, C!NilClose, C!doClose,
                        C!At
        <3>2. /\ proc'[C!Run].pc \notin Apart /\ proc[C!Run].pc \notin Apart
              /\ \A h \in C!Procs \ {C!Run} : proc'[h] = proc[h]
            BY <3>1, RunFacts, GotoFacts DEF Moves, Apart, C!PCs
        <3>3. UNCHANGED <<sendq, pending>> /\ ("send" \in gone' => "send" \in gone) /\ (~clash' => ~clash)
            <4>1. UNCHANGED <<sendq, pending>> /\ ("send" \in gone' => "send" \in gone)
                BY <2>4 DEF C!Loop, C!SelectClose, C!SelectTicker, C!Write, C!NilRecv, C!NilClose, C!doClose
            <4>2. ~clash' => ~clash
                BY <2>4 DEF C!Loop, C!SelectClose, C!SelectTicker, C!Write, C!NilRecv, C!NilClose, C!doClose
            <4>3. QED
                BY <4>1, <4>2
        <3>4. QED
            BY <3>2, <3>3, CountFrame
    <2>5. QED
        BY <1>3, <2>1, <2>2, <2>3, <2>4, <2>6 DEF C!RunStep
<1>4. QED
    BY <1>1, <1>2, <1>3, RunFacts DEF C!Next, Elsewhere

-----------------------------------------------------------------------------
(* Close.                                                                  *)

Leaving == {"closing", "closeval", "closeput"}
Ending(g) == proc[g].pc \in Leaving

(* As long as no two goroutines have met, only one is in Close, nothing is *)
(* in its channel until it has put it there, the channel is there when it  *)
(* takes it, and the reader alone waits for a channel that is not.         *)
CloseInv ==
    ~clash =>
        /\ \A g, h \in C!Procs : Ending(g) /\ Ending(h) => g = h
        /\ \A g \in C!Procs : proc[g].pc \in {"closeval", "closeput"} => shut
        /\ \A g \in C!Procs : C!At(g, "closeval") => "close" \notin gone
        /\ full => shut /\ \A g \in C!Procs : ~Ending(g)
        /\ \A g \in C!Procs : C!At(g, "stuck") => g = C!Reader

LEMMA CloseFrame ==
    ASSUME CloseInv, full' => full, shut => shut', "close" \in gone' => "close" \in gone,
           ~clash' => ~clash,
           \A h \in C!Procs : proc'[h] = proc[h] \/ proc'[h].pc \notin Leaving \union {"stuck"}
    PROVE  CloseInv'
BY DEF CloseInv, Ending, Leaving, C!At

LEMMA CloseSending ==
    ASSUME C!TypeOK, CountInv, CloseInv, NEW g \in C!Procs, C!Sending(g)
    PROVE  CloseInv'
<1>1. SUFFICES ASSUME ~clash' PROVE CloseInv'
    BY DEF CloseInv
<1>2. /\ UNCHANGED <<full, shut, gone>>
    BY DEF C!Sending, C!Lock, C!Test, C!Load, C!Store, C!Put
<1>3. ~clash
    BY <1>1 DEF C!Sending, C!Lock, C!Test, C!Load, C!Store, C!Put
<1>4. Moves(g, {"idle", "test", "load", "store", "put"})
    <2>1. CASE C!Store(g)
        <3>1. /\ proc' = [proc EXCEPT ![g].pc = "put", ![g].tmp = 0]
            BY <1>3, <2>1 DEF C!Store, CountInv
        <3>2. "put" \in C!PCs /\ 0 \in Int
            BY DEF C!PCs
        <3>3. Moves(g, {"put"})
            BY <3>1, <3>2, CountFacts, Zenon
        <3>4. QED
            BY <3>3 DEF Moves
    <2>2. CASE C!Lock(g)
        <3>1. CASE proc[g].left = 0
            BY <2>2, <3>1, RunFacts DEF C!Lock, Moves, C!TypeOK, ProcType
        <3>2. CASE proc[g].left # 0
            BY <2>2, <3>2, GotoFacts DEF C!Lock, Moves, C!PCs
        <3>3. QED
            BY <3>1, <3>2
    <2>3. CASE C!Test(g)
        BY <2>3, SentFacts, GotoFacts DEF C!Test, Moves, C!PCs
    <2>4. CASE C!Load(g)
        <3>1. CASE "send" \in gone
            BY <2>4, <3>1, SentFacts DEF C!Load, Moves
        <3>2. CASE "send" \notin gone
            BY <2>4, <3>2, CountFacts DEF C!Load, Moves, C!PCs, C!TypeOK
        <3>3. QED
            BY <3>1, <3>2
    <2>5. CASE C!Put(g)
        BY <2>5, SentFacts DEF C!Put, Moves
    <2>6. QED
        BY <2>1, <2>2, <2>3, <2>4, <2>5 DEF C!Sending
<1>5. QED
    BY <1>1, <1>2, <1>3, <1>4, CloseFrame DEF Moves, Leaving

LEMMA CloseElsewhere ==
    ASSUME C!TypeOK, CloseInv, NEW g \in C!Procs, Elsewhere(g)
    PROVE  CloseInv'
<1>1. SUFFICES ASSUME ~clash' PROVE CloseInv'
    BY DEF CloseInv
<1>2. ~clash
    BY <1>1 DEF Elsewhere, C!Begin, C!BeginClose, C!Closing, C!CloseSet, C!CloseValue, C!ClosePut,
                C!queueRecv, C!RecvValue
<1>3. gone' = gone
    BY DEF Elsewhere, C!Begin, C!BeginClose, C!Closing, C!CloseSet, C!CloseValue, C!ClosePut,
           C!queueRecv, C!RecvValue
<1>4. CASE C!Begin(g)
    <2>1. proc'[g].pc \in {"test", "lock"} /\ \A h \in C!Procs \ {g} : proc'[h] = proc[h]
        BY <1>4, CallsFacts DEF C!Begin, C!TypeOK, ProcType
    <2>2. QED
        BY <1>2, <1>3, <1>4, <2>1, CloseFrame DEF C!Begin, Leaving
<1>5. CASE C!BeginClose(g)
    <2>1. Moves(g, {"closing"}) /\ ~shut /\ ~C!Others(g, {"closing"}) /\ UNCHANGED <<full, shut>>
        BY <1>1, <1>5, GotoFacts DEF C!BeginClose, C!PCs
    <2>2. ~full /\ \A h \in C!Procs : proc[h].pc \notin {"closeval", "closeput"}
        BY <1>2, <2>1 DEF CloseInv
    <2>3. \A h \in C!Procs \ {g} : ~Ending(h) /\ proc'[h] = proc[h]
        BY <2>1, <2>2 DEF C!Others, Ending, Leaving, Moves
    <2>4. QED
        BY <1>2, <1>3, <2>1, <2>2, <2>3 DEF CloseInv, Ending, Moves, C!At
<1>6. CASE C!CloseSet(g)
    <2>1. /\ C!At(g, "closing") /\ shut' /\ full' = full
          /\ Moves(g, {IF "close" \in gone THEN "idle" ELSE "closeval"})
        BY <1>6, GotoFacts DEF C!CloseSet, C!PCs
    <2>2. ~full /\ \A h \in C!Procs \ {g} : ~Ending(h) /\ proc'[h] = proc[h]
        BY <1>2, <2>1 DEF CloseInv, Ending, Leaving, Moves, C!At
    <2>3. QED
        BY <1>2, <1>3, <2>1, <2>2 DEF CloseInv, Ending, Leaving, Moves, C!At
<1>7. CASE C!CloseValue(g)
    <2>1. C!At(g, "closeval") /\ shut /\ "close" \notin gone /\ UNCHANGED <<shut, full>>
        BY <1>2, <1>7 DEF C!CloseValue, CloseInv, C!At
    <2>2. Moves(g, {"closeput"})
        BY <1>7, <2>1, GotoFacts DEF C!CloseValue, C!PCs
    <2>3. ~full /\ \A h \in C!Procs \ {g} : ~Ending(h) /\ proc'[h] = proc[h]
        BY <1>2, <2>1, <2>2 DEF CloseInv, Ending, Leaving, Moves, C!At
    <2>4. QED
        BY <1>2, <1>3, <2>1, <2>2, <2>3 DEF CloseInv, Ending, Leaving, Moves, C!At
<1>8. CASE C!ClosePut(g)
    <2>1. C!At(g, "closeput") /\ shut /\ shut' = shut
        BY <1>2, <1>8 DEF C!ClosePut, CloseInv, C!At
    <2>2. Moves(g, {"idle"})
        BY <1>8, GotoFacts DEF C!ClosePut, C!PCs
    <2>3. \A h \in C!Procs \ {g} : ~Ending(h) /\ proc'[h] = proc[h]
        BY <1>2, <2>1, <2>2 DEF CloseInv, Ending, Leaving, Moves, C!At
    <2>4. QED
        BY <1>2, <1>3, <2>1, <2>2, <2>3 DEF CloseInv, Ending, Leaving, Moves, C!At
<1>9. CASE g = C!Reader /\ (C!queueRecv \/ C!RecvValue)
    <2>1. Moves(g, {"recv", "recvput", "stuck"}) /\ UNCHANGED <<full, shut>>
        BY <1>9, GotoFacts DEF C!queueRecv, C!RecvValue, C!PCs, Moves
    <2>2. QED
        BY <1>2, <1>3, <1>9, <2>1 DEF CloseInv, Ending, Leaving, Moves, C!At
<1>10. QED
    BY <1>4, <1>5, <1>6, <1>7, <1>8, <1>9 DEF Elsewhere, C!Closing

LEMMA CloseRun ==
    ASSUME C!TypeOK, CloseInv, C!RunStep
    PROVE  CloseInv'
<1>1. SUFFICES ASSUME ~clash' PROVE CloseInv'
    BY DEF CloseInv
<1>2. ~clash
    BY <1>1 DEF C!RunStep, C!Loop, C!SelectClose, C!SelectRecv, C!RecvCloses, C!SelectSend, C!SelectTicker, C!DecLoad,
                C!DecStore, C!Write, C!NilSend, C!NilRecv, C!NilClose, C!doClose
<1>3. CASE C!SelectRecv
    <2> DEFINE handed == [proc EXCEPT ![C!Reader] = C!Rest, ![C!Run] = C!Rest]
    <2>1. handed \in [C!Procs -> ProcType] /\ handed[C!Run].pc = "idle" /\ handed[C!Reader].pc = "idle"
          /\ \A h \in C!Procs \ {C!Run, C!Reader} : handed[h] = proc[h]
        BY RunFacts DEF C!TypeOK, ProcType
    <2>2. proc' = handed \/ C!Calls(handed, C!Run)
        BY <1>3 DEF C!SelectRecv
    <2> HIDE DEF handed
    <2>3. /\ proc'[C!Run].pc \in {"idle", "test", "lock"} /\ proc'[C!Reader].pc = "idle"
          /\ \A h \in C!Procs \ {C!Run, C!Reader} : proc'[h] = proc[h]
        BY <2>1, <2>2, RunFacts, CallsFacts
    <2>4. UNCHANGED <<full, shut, gone>>
        BY <1>3 DEF C!SelectRecv
    <2>5. QED
        BY <1>2, <2>3, <2>4, RunFacts, CloseFrame DEF Leaving
<1>6. CASE C!RecvCloses
    <2>1. /\ proc'[C!Run].pc = "closing" /\ proc'[C!Reader].pc = "idle"
          /\ \A h \in C!Procs \ {C!Run, C!Reader} : proc'[h] = proc[h]
          /\ proc[C!Run].pc = "select" /\ proc[C!Reader].pc = "recvput"
        BY <1>6, ReaderReleased
    <2>2. ~shut /\ ~C!Others(C!Run, {"closing"}) /\ UNCHANGED <<full, shut, gone>>
        BY <1>1, <1>6 DEF C!RecvCloses
    <2>3. ~full /\ \A h \in C!Procs : proc[h].pc \notin {"closeval", "closeput"}
        BY <1>2, <2>2 DEF CloseInv
    <2>4. \A h \in C!Procs \ {C!Run} : ~Ending(h) /\ ~Ending(h)'
        BY <2>1, <2>2, <2>3 DEF C!Others, Ending, Leaving
    <2>5. QED
        BY <1>2, <2>1, <2>2, <2>3, <2>4, RunFacts DEF CloseInv, Ending, C!At
<1>4. CASE ~C!SelectRecv /\ ~C!RecvCloses
    <2>1. proc'[C!Run].pc \notin Leaving \union {"stuck"} /\ \A h \in C!Procs \ {C!Run} : proc'[h] = proc[h]
        <3>1. CASE C!DecLoad \/ C!DecStore
            <4>1. PICK pc \in {"decstore", "write"}, n \in Int :
                      proc' = [proc EXCEPT ![C!Run].pc = pc, ![C!Run].tmp = n]
                BY <3>1 DEF C!DecLoad, C!DecStore, C!TypeOK
            <4>2. pc \in C!PCs
                BY DEF C!PCs
            <4>3. Moves(C!Run, {pc})
                BY <4>1, <4>2, RunFacts, CountFacts, Zenon
            <4>4. QED
                BY <4>3 DEF Moves, Leaving
        <3>2. CASE ~(C!DecLoad \/ C!DecStore)
            <4>1. PICK pc \in {"select", "idle", "lock", "nilrecv", "nilclose", "doclose", "end", "dec"} :
                      C!Goto(C!Run, pc)
                BY <1>4, <3>2 DEF C!RunStep, C!Loop, C!SelectClose, C!SelectSend, C!SelectTicker, C!Write,
                                  C!NilSend, C!NilRecv, C!NilClose, C!doClose
            <4>2. QED
                BY <4>1, RunFacts, GotoFacts DEF Moves, C!PCs, Leaving
        <3>3. QED
            BY <3>1, <3>2
    <2>2. (full' => full) /\ (shut => shut')
        <3>1. CASE C!SelectTicker
            <4>1. full' = full /\ (shut' = shut \/ shut' = TRUE)
                BY <3>1, Zenon DEF C!SelectTicker
            <4>2. full' => full
                BY <4>1
            <4>3. shut => shut'
                BY <4>1
            <4>4. QED
                BY <4>2, <4>3
        <3>2. CASE ~C!SelectTicker
            BY <1>4, <3>2 DEF C!RunStep, C!Loop, C!SelectClose, C!SelectSend, C!DecLoad, C!DecStore,
                    C!Write, C!NilSend, C!NilRecv, C!NilClose, C!doClose
        <3>3. QED
            BY <3>1, <3>2
    <2>3. CASE C!NilClose
        <3>1. ~C!Others(C!Run, {"closeval"}) /\ proc[C!Run].pc = "nilclose"
            BY <1>1, <2>3 DEF C!NilClose, C!At
        <3>2. \A h \in C!Procs : ~C!At(h, "closeval")'
            BY <2>1, <3>1 DEF C!Others, C!At, Leaving
        <3>3. UNCHANGED <<full, shut>>
            BY <2>3 DEF C!NilClose
        <3>4. QED
            BY <1>2, <2>1, <3>2, <3>3 DEF CloseInv, Ending, C!At, Leaving
    <2>4. CASE ~C!NilClose
        <3>1. "close" \in gone' => "close" \in gone
            <4>1. CASE C!SelectTicker
                BY <4>1, Zenon DEF C!SelectTicker
            <4>2. CASE ~C!SelectTicker
                BY <1>4, <2>4, <4>2 DEF C!RunStep, C!Loop, C!SelectClose, C!SelectSend, C!DecLoad,
                        C!DecStore, C!Write, C!NilSend, C!NilRecv, C!doClose
            <4>3. QED
                BY <4>1, <4>2
        <3>2. QED
            BY <1>2, <2>1, <2>2, <3>1, CloseFrame
    <2>5. QED
        BY <2>3, <2>4
<1>5. QED
    BY <1>3, <1>4, <1>6

-----------------------------------------------------------------------------
(* Nobody waits for room in Send or Close, unless two goroutines met in    *)
(* between a test and what it is for, for any number of goroutines that    *)
(* send and any capacity of the channel (peer.go:224-232, 384-390, 156,    *)
(* 396).                                                                   *)
THEOREM RoomCorrect == MCSpec => []ChannelsHaveRoom
<1> DEFINE Inv == C!TypeOK /\ CountInv /\ CloseInv
<1>1. MCInit => Inv
    <2>1. SUFFICES ASSUME C!Init \/ Closed PROVE Inv
        BY DEF MCInit
    <2>2. \A g \in C!Procs : proc[g].pc \in {"idle", "end"}
        <3>1. CASE C!Init
            BY <3>1, RunFacts DEF C!Init
        <3>2. CASE Closed
            BY <3>2 DEF Closed, C!Rest
        <3>3. QED
            BY <2>1, <3>1, <3>2
    <2>3. /\ sendq = 0 /\ pending = 0 /\ ~full /\ Putting = {} /\ Counting = {} /\ Taken = 0
        BY <2>1, <2>2, RunFacts DEF C!Init, Closed, Putting, Counting, Taken
    <2>4. CountInv
        BY <2>2, <2>3, RunFacts, FS_EmptySet, ChannelsAssumption DEF CountInv, C!At
    <2>5. CloseInv
        BY <2>2, <2>3 DEF CloseInv, C!At, Ending, Leaving
    <2>6. QED
        BY <2>1, <2>4, <2>5, ChannelsTypeInit
<1>2. Inv /\ [MCNext]_<<part, vars, chanVars, sftpVars, poolVars>> => Inv'
    <2> SUFFICES ASSUME Inv, [MCNext]_<<part, vars, chanVars, sftpVars, poolVars>> PROVE Inv'
        OBVIOUS
    <2>1. CASE C!Next
        <3>1. CloseInv'
            BY <2>1, CloseSending, CloseElsewhere, CloseRun, RunFacts DEF C!Next, Elsewhere
        <3>2. QED
            BY <2>1, <3>1, ChannelsTypeStep, CountStep
    <2>2. CASE UNCHANGED chanVars
        BY <2>2 DEF chanVars, C!TypeOK, CountInv, CloseInv, Putting, Counting, Taken, Ending, C!At
    <2>3. QED
        BY <2>1, <2>2 DEF MCNext
<1>3. Inv => ChannelsHaveRoom
    <2> SUFFICES ASSUME Inv, ~clash, NEW g \in C!Procs PROVE ~C!Blocked(g)
        BY DEF ChannelsHaveRoom, C!ChannelsHaveRoom
    <2>1. C!At(g, "put") => sendq # Cap
        <3>1. SUFFICES ASSUME C!At(g, "put"), sendq = Cap PROVE FALSE
            OBVIOUS
        <3>2. g \in Putting
            BY <3>1 DEF Putting, C!At
        <3>3. Cardinality(Putting) \in Nat \ {0}
            BY <3>2, PuttingFacts, FS_EmptySet
        <3>4. Taken \in Nat /\ sendq + Cardinality(Putting) + Taken <= Cap
            BY DEF Taken, CountInv
        <3>5. QED
            BY <3>1, <3>3, <3>4, ChannelsAssumption
    <2>2. C!At(g, "closeput") => ~full
        BY DEF CloseInv, Ending, Leaving, C!At
    <2>3. C!At(g, "stuck") => g = C!Reader
        BY DEF CloseInv
    <2>4. QED
        BY <2>1, <2>2, <2>3 DEF C!Blocked
<1>4. QED
    BY <1>1, <1>2, <1>3, PTL DEF MCSpec

-----------------------------------------------------------------------------
(* Files.                                                                  *)

FileType == [size : {0} \union R!Offsets, data : SUBSET R!Offsets]

FilesOK ==
    /\ file \in [Names -> {None} \union FileType]
    /\ dirs \subseteq R!Dirs

LEMMA FileFacts ==
    /\ None \notin FileType
    /\ R!EmptyFile \in FileType /\ R!Zeros \in FileType
    /\ \A k \in R!Offsets : [size |-> k, data |-> {k}] \in FileType
<1>1. {0} \union R!Offsets = 0 .. Size
    BY StorageAssumption DEF R!Offsets
<1>2. 0 \in {0} \union R!Offsets /\ Size \in {0} \union R!Offsets
    BY <1>1, StorageAssumption
<1>3. QED
    BY <1>1, <1>2, StorageAssumption DEF FileType, R!Offsets, R!EmptyFile, R!Zeros

LEMMA DirFacts ==
    /\ R!Dirs = Names
    /\ \A n \in Names : R!EnsureDir(n) = dirs \union {Outer, n} /\ Outer \in Names
BY DEF R!Dirs, R!EnsureDir, Outer

(* What an operation leaves is well-formed, and when it is reported as     *)
(* done it has been done.                                                  *)
Done(op, f) ==
    CASE op.do = "EnsureFile" -> f[op.name] # None
      [] op.do = "WriteAt"    -> f[op.name] # None /\ op.at \in f[op.name].data
      [] op.do = "ReadAt"     -> f[op.name] # None
      [] op.do = "Move"       -> f[op.to] # None /\ f[op.name] = None
      [] op.do = "Remove"     -> f[op.name] = None
      [] op.do = "RemoveAll"  -> \A n \in Names : n = op.name => f[n] = None

Fits(op, r) ==
    /\ r.file \in [Names -> {None} \union FileType]
    /\ r.dirs \subseteq R!Dirs
    /\ r.ok \in BOOLEAN
    /\ r.ok => Done(op, r.file)

LEMMA FailedFits ==
    ASSUME FilesOK, NEW op
    PROVE  /\ Fits(op, R!Failed)
           /\ \A f \in [Names -> {None} \union FileType] : \A d \in SUBSET R!Dirs :
                 Fits(op, R!Result(FALSE, f, d)) /\ Fits(op, R!Panic(f, d))
BY DEF FilesOK, Fits, R!Failed, R!Result, R!Panic

AllFit(op, o) == \A r \in o.fine \union o.faulty : Fits(op, r)

(* To show that every outcome fits it is enough to look at those the       *)
(* operation lists.                                                        *)
LEMMA OutcomeFits ==
    ASSUME FilesOK, NEW op, NEW fine, NEW faulty, \A r \in fine \union faulty : Fits(op, r)
    PROVE  AllFit(op, R!Outcome(fine, faulty))
BY FailedFits DEF AllFit, R!Outcome

LEMMA EnsureFits ==
    ASSUME FilesOK, NEW op, op.do = "EnsureFile", op.name \in Names
    PROVE  AllFit(op, R!EnsureFile(op.name))
<1> DEFINE n == op.name
           f == [file EXCEPT ![n] = R!Zeros]
           e == [file EXCEPT ![n] = R!EmptyFile]
           ensured == R!Result(TRUE, f, R!EnsureDir(n))
           found == R!Result(TRUE, file, dirs)
<1>1. /\ f \in [Names -> {None} \union FileType] /\ f[n] # None
      /\ e \in [Names -> {None} \union FileType]
      /\ R!EnsureDir(n) \in SUBSET R!Dirs
    BY FileFacts, DirFacts DEF FilesOK
<1>2. Fits(op, ensured)
    BY <1>1 DEF Fits, R!Result, Done
<1>3. R!FileExists(n) => Fits(op, found)
    BY DEF Fits, R!Result, Done, R!FileExists, FilesOK
<1>4. /\ Fits(op, R!Result(FALSE, R!OpenFileWriteOnly(n), R!EnsureDir(n)))
      /\ Fits(op, R!Panic(file, R!EnsureDir(n)))
    <2>1. R!OpenFileWriteOnly(n) = e
        BY DEF R!OpenFileWriteOnly
    <2>2. QED
        BY <1>1, <2>1, FailedFits DEF FilesOK
<1> DEFINE fine == {IF R!FileExists(n) THEN found ELSE ensured}
           faulty == {ensured, R!Result(FALSE, R!OpenFileWriteOnly(n), R!EnsureDir(n)),
                      R!Panic(file, R!EnsureDir(n))}
<1>5. \A r \in fine \union faulty : Fits(op, r)
    BY <1>2, <1>3, <1>4
<1>6. R!EnsureFile(n) = R!Outcome(fine, faulty)
    BY DEF R!EnsureFile
<1> HIDE DEF fine, faulty, n
<1>7. QED
    BY <1>5, <1>6, OutcomeFits DEF n

LEMMA WriteFits ==
    ASSUME FilesOK, NEW op, op.do = "WriteAt", op.name \in Names, op.at \in R!Offsets
    PROVE  AllFit(op, R!WriteAt(op.name, op.at))
<1> DEFINE n == op.name
           k == op.at
           f == [file EXCEPT ![n] = [size |-> k, data |-> {k}]]
           e == [file EXCEPT ![n] = R!EmptyFile]
           done == R!Result(TRUE, f, dirs)
           torn == R!Result(FALSE, R!OpenFileWriteOnly(n), dirs)
<1>1. /\ f \in [Names -> {None} \union FileType] /\ f[n] # None /\ k \in f[n].data
      /\ e \in [Names -> {None} \union FileType]
    BY FileFacts DEF FilesOK
<1>2. Fits(op, done)
    BY <1>1 DEF Fits, R!Result, Done, FilesOK
<1>3. Fits(op, torn)
    <2>1. R!OpenFileWriteOnly(n) = e
        BY DEF R!OpenFileWriteOnly
    <2>2. QED
        BY <1>1, <2>1, FailedFits DEF FilesOK
<1>4. \A r \in {done} \union {torn} : Fits(op, r)
    BY <1>2, <1>3
<1>5. \A r \in {R!Failed} \union {} : Fits(op, r)
    BY FailedFits
<1>6. R!WriteAt(n, k) \in {R!Outcome({done}, {torn}), R!Outcome({R!Failed}, {})}
    BY DEF R!WriteAt
<1> HIDE DEF done, torn
<1>7. QED
    BY <1>4, <1>5, <1>6, OutcomeFits

LEMMA ReadFits ==
    ASSUME FilesOK, NEW op, op.do = "ReadAt", op.name \in Names
    PROVE  AllFit(op, R!ReadAt(op.name, op.at))
<1> DEFINE ok == R!OpenFileReadOnly(op.name) /\ op.at <= file[op.name].size
<1>1. Fits(op, R!Result(ok, file, dirs))
    BY DEF Fits, R!Result, Done, FilesOK, R!OpenFileReadOnly
<1>2. R!ReadAt(op.name, op.at) = R!Outcome({R!Result(ok, file, dirs)}, {})
    BY DEF R!ReadAt
<1> HIDE DEF ok
<1>3. QED
    BY <1>1, <1>2, OutcomeFits

LEMMA MoveFits ==
    ASSUME FilesOK, NEW op, op.do = "Move", op.name \in Names, op.to \in Names
    PROVE  AllFit(op, R!Move(op.name, op.to))
<1> DEFINE n == op.name
           m == op.to
           f == [file EXCEPT ![m] = file[n], ![n] = None]
           moved == R!Result(TRUE, f, R!EnsureDir(m))
           not == R!Result(FALSE, file, R!EnsureDir(m))
           bad == file[n] = None \/ file[m] # None
<1>1. R!EnsureDir(m) \in SUBSET R!Dirs
    BY DirFacts DEF FilesOK
<1>2. Fits(op, not)
    BY <1>1, FailedFits DEF FilesOK
<1>3. ~bad => Fits(op, moved)
    <2>1. SUFFICES ASSUME ~bad PROVE Fits(op, moved)
        OBVIOUS
    <2>2. f \in [Names -> {None} \union FileType] /\ f[m] # None /\ f[n] = None
        BY <2>1 DEF FilesOK
    <2>3. QED
        BY <1>1, <2>2 DEF Fits, R!Result, Done
<1>4. \A r \in {IF bad THEN not ELSE moved} \union {not} : Fits(op, r)
    BY <1>2, <1>3
<1>5. R!Move(n, m) = R!Outcome({IF bad THEN not ELSE moved}, {not})
    BY DEF R!Move
<1> HIDE DEF bad, moved, not
<1>6. QED
    BY <1>4, <1>5, OutcomeFits

LEMMA RemoveFits ==
    ASSUME FilesOK, NEW op, op.do = "Remove", op.name \in Names
    PROVE  AllFit(op, R!Remove(op.name))
<1> DEFINE f == [file EXCEPT ![op.name] = None]
           r == R!Result(file[op.name] # None, f, dirs)
<1>1. f \in [Names -> {None} \union FileType] /\ f[op.name] = None
    BY DEF FilesOK
<1>2. Fits(op, r)
    BY <1>1 DEF Fits, R!Result, Done, FilesOK
<1>3. R!Remove(op.name) = R!Outcome({r}, {})
    BY DEF R!Remove
<1> HIDE DEF r
<1>4. QED
    BY <1>2, <1>3, OutcomeFits

LEMMA RemoveAllFits ==
    ASSUME FilesOK, NEW op, op.do = "RemoveAll", op.name \in Names
    PROVE  AllFit(op, R!RemoveAll(op.name))
<1> DEFINE d == op.name
           Inside == {x \in Names : [n \in Names |-> n][x] = d}
           Without(S) == [x \in Names |-> IF x \in S THEN None ELSE file[x]]
           Partly == {R!Result(FALSE, Without(S), dirs) : S \in SUBSET Inside}
           all == R!Result(TRUE, Without(Inside), dirs \ {d})
           fine == IF \E e \in dirs \ {d} : d \in [n \in Names |-> {Outer, n}][e] THEN Partly ELSE {all}
<1>1. \A S : Without(S) \in [Names -> {None} \union FileType]
    BY DEF FilesOK
<1>2. Fits(op, all)
    BY <1>1 DEF Fits, R!Result, Done, FilesOK
<1>3. \A r \in Partly : Fits(op, r)
    <2>1. ASSUME NEW S \in SUBSET Inside PROVE Fits(op, R!Result(FALSE, Without(S), dirs))
        <3> DEFINE w == Without(S)
        <3>1. w \in [Names -> {None} \union FileType] /\ dirs \in SUBSET R!Dirs
            BY <1>1 DEF FilesOK
        <3> HIDE DEF w
        <3>2. Fits(op, R!Result(FALSE, w, dirs))
            BY <3>1, FailedFits
        <3>3. QED
            BY <3>2 DEF w
    <2>2. QED
        BY <2>1
<1>4. \A r \in fine \union Partly : Fits(op, r)
    BY <1>2, <1>3
<1>5. \A r \in {R!Failed} \union {} : Fits(op, r)
    BY FailedFits
<1>6. R!RemoveAll(d) \in {R!Outcome(fine, Partly), R!Outcome({R!Failed}, {})}
    <2>1. [n \in Names |-> n][d] = d
        OBVIOUS
    <2>2. R!removeAllDir(d) = R!Outcome(fine, Partly)
        BY DEF R!removeAllDir
    <2>3. R!RemoveAll(d) = IF d \in dirs THEN R!removeAllDir(d) ELSE R!Outcome({R!Failed}, {})
        BY <2>1 DEF R!RemoveAll
    <2>4. QED
        BY <2>2, <2>3
<1> HIDE DEF fine, Partly
<1>7. QED
    BY <1>4, <1>5, <1>6, OutcomeFits

LEMMA OutcomesFit ==
    ASSUME FilesOK, NEW op \in R!Ops
    PROVE  AllFit(op, R!Outcomes(op))
<1>1. CASE op.do = "EnsureFile"
    <2>1. op.name \in Names
        BY <1>1 DEF R!Ops
    <2>2. QED
        BY <1>1, <2>1, EnsureFits DEF R!Outcomes
<1>2. CASE op.do = "WriteAt"
    <2>1. op.name \in Names /\ op.at \in R!Offsets
        BY <1>2 DEF R!Ops
    <2>2. QED
        BY <1>2, <2>1, WriteFits DEF R!Outcomes
<1>3. CASE op.do = "ReadAt"
    <2>1. op.name \in Names
        BY <1>3 DEF R!Ops
    <2>2. QED
        BY <1>3, <2>1, ReadFits DEF R!Outcomes
<1>4. CASE op.do = "Move"
    <2>1. op.name \in Names /\ op.to \in Names
        BY <1>4 DEF R!Ops
    <2>2. QED
        BY <1>4, <2>1, MoveFits DEF R!Outcomes
<1>5. CASE op.do = "Remove"
    <2>1. op.name \in Names
        BY <1>5 DEF R!Ops
    <2>2. QED
        BY <1>5, <2>1, RemoveFits DEF R!Outcomes
<1>6. CASE op.do = "RemoveAll"
    <2>1. op.name \in Names
        BY <1>6 DEF R!Ops
    <2>2. QED
        BY <1>6, <2>1, RemoveAllFits DEF R!Outcomes
<1>7. op.do \in {"EnsureFile", "WriteAt", "ReadAt", "Move", "Remove", "RemoveAll"}
    BY DEF R!Ops
<1>8. QED
    BY <1>1, <1>2, <1>3, <1>4, <1>5, <1>6, <1>7

-----------------------------------------------------------------------------
(* The driver.                                                             *)

(* The files are well-formed, and what was reported as done last is still  *)
(* so: nothing but an operation changes a file.                            *)
DoneInv ==
    /\ R!TypeOK /\ FilesOK
    /\ phase = "new" => ~last.ok
    /\ phase = "open" /\ last.ok => last.op \in R!Ops /\ Done(last.op, file)

LEMMA EffectIsDone == ASSUME NEW op \in R!Ops PROVE Done(op, file) <=> R!Effect(op)
<1>1. \A n \in Names : [x \in Names |-> x][n] = n
    OBVIOUS
<1>2. op.name \in Names
    BY DEF R!Ops
<1>3. QED
    BY <1>1, <1>2 DEF Done, R!Effect

LEMMA DoneInit == R!Init => DoneInv
<1> SUFFICES ASSUME R!Init PROVE DoneInv
    OBVIOUS
<1>1. FilesOK
    BY DEF R!Init, FilesOK
<1>2. 0 \in 0 .. MaxCallFaults
    BY StorageAssumption
<1>3. R!TypeOK
    BY <1>1, <1>2 DEF R!Init, R!TypeOK, FilesOK
<1>4. QED
    BY <1>1, <1>3 DEF R!Init, DoneInv

LEMMA CallFaultType == ASSUME R!TypeOK, R!Fault PROVE callFaults' \in 0 .. MaxCallFaults
BY StorageAssumption DEF R!TypeOK, R!Fault

(* An operation visits the server: it goes on with a result that fits.     *)
LEMMA VisitKeeps ==
    ASSUME DoneInv, NEW op \in R!Ops, NEW r, Fits(op, r), R!Visit(op, r), phase # "new",
           ssh' \in {"nil", "live", "dead"}, client' \in {"nil", "live", "dead"},
           callFaults' \in 0 .. MaxCallFaults
    PROVE  DoneInv'
<1>1. file' = r.file /\ dirs' = r.dirs /\ last' = [op |-> op, ok |-> r.ok]
      /\ phase' \in {"panic", phase}
    BY DEF R!Visit
<1>2. FilesOK'
    BY <1>1 DEF Fits, FilesOK
<1>3. last'.op = op /\ last'.ok = r.ok /\ r.ok \in BOOLEAN
    BY <1>1 DEF Fits
<1>4. phase' \in {"open", "closed", "panic"}
    BY <1>1 DEF DoneInv, R!TypeOK
<1>5. R!TypeOK'
    BY <1>2, <1>3, <1>4 DEF R!TypeOK, FilesOK, FileType
<1>6. last'.ok => Done(last'.op, file')
    BY <1>1, <1>3 DEF Fits
<1>7. QED
    BY <1>2, <1>3, <1>4, <1>5, <1>6 DEF DoneInv

LEMMA OperateKeeps ==
    ASSUME DoneInv, NEW op \in R!Ops,
           R!Operate(op) \/ R!OperateDead(op) \/ R!OperateUnconnected(op)
    PROVE  DoneInv'
<1>1. FilesOK /\ R!TypeOK
    BY DEF DoneInv
<1>2. callFaults' \in 0 .. MaxCallFaults
    BY <1>1, CallFaultType DEF R!Operate, R!OperateDead, R!OperateUnconnected, R!TypeOK
<1>3. \A f \in [Names -> {None} \union FileType] : \A d \in SUBSET R!Dirs :
          Fits(op, R!Result(FALSE, f, d)) /\ Fits(op, R!Panic(f, d))
    BY <1>1, FailedFits
<1>4. CASE R!Operate(op)
    <2>1. PICK r \in R!Outcomes(op).fine \union R!Outcomes(op).faulty : R!Visit(op, r)
        BY <1>4 DEF R!Operate
    <2>2. Fits(op, r)
        BY <1>1, <2>1, OutcomesFit DEF AllFit
    <2>3. ssh' \in {"nil", "live", "dead"} /\ client' \in {"nil", "live", "dead"} /\ phase # "new"
        BY <1>4 DEF R!Operate
    <2>4. QED
        BY <1>2, <2>1, <2>2, <2>3, VisitKeeps
<1>5. CASE R!OperateDead(op)
    <2>1. Fits(op, R!Result(FALSE, file, dirs))
        BY <1>1, <1>3 DEF FilesOK
    <2>2. /\ ssh' \in {"nil", "live", "dead"} /\ client' \in {"nil", "live", "dead"} /\ phase # "new"
          /\ R!Visit(op, R!Result(FALSE, file, dirs))
        BY <1>1, <1>5 DEF R!OperateDead, R!TypeOK
    <2>3. QED
        BY <1>2, <2>1, <2>2, VisitKeeps
<1>6. CASE R!OperateUnconnected(op)
    <2>1. PICK ok \in {TRUE, ssh = "nil"} :
              R!Visit(op, IF ok /\ op.do \in {"ReadAt", "WriteAt"} THEN R!Panic(file, dirs)
                          ELSE R!Result(ok, file, dirs))
        BY <1>6 DEF R!OperateUnconnected
    <2>2. /\ phase = "closed" /\ phase' \in {"closed", "panic"} /\ file' = file /\ dirs' = dirs
          /\ last'.op = op /\ last'.ok \in BOOLEAN
        BY <1>6, <2>1 DEF R!OperateUnconnected, R!Visit, R!Panic, R!Result
    <2>3. ssh' \in {"nil", "live", "dead"} /\ client' \in {"nil", "live", "dead"}
        BY <1>1, <1>6 DEF R!OperateUnconnected, R!TypeOK
    <2>4. QED
        BY <1>1, <1>2, <2>2, <2>3 DEF DoneInv, R!TypeOK, FilesOK
<1>7. QED
    BY <1>4, <1>5, <1>6

LEMMA DoneStep == DoneInv /\ R!Next => DoneInv'
<1> SUFFICES ASSUME DoneInv, R!Next PROVE DoneInv'
    OBVIOUS
<1>1. CASE R!Open \/ R!Close
    <2>1. /\ UNCHANGED <<file, dirs, last, callFaults>>
          /\ ssh' \in {"nil", "live", "dead"} /\ client' \in {"nil", "live", "dead"}
          /\ \/ phase = "new" /\ phase' = "open"
             \/ phase' = "closed"
        BY <1>1 DEF R!Open, R!Close, DoneInv, R!TypeOK
    <2>2. QED
        BY <2>1 DEF DoneInv, R!TypeOK, FilesOK
<1>2. CASE R!Die
    <2>1. UNCHANGED <<phase, file, dirs, last>> /\ callFaults' \in 0 .. MaxCallFaults
        BY <1>2, CallFaultType DEF R!Die, DoneInv
    <2>2. QED
        BY <1>2, <2>1 DEF DoneInv, R!TypeOK, FilesOK, R!Die
<1>3. QED
    BY <1>1, <1>2, OperateKeeps DEF R!Next

(* As long as the storage is open, an operation on the SFTP server that    *)
(* reports success has been done, for any number of files, whatever failed *)
(* and whenever the connection died (sftp.go:138-146).                     *)
THEOREM SuccessCorrect == MCSpec => []SuccessIsDone
<1>1. MCInit => DoneInv
    BY DoneInit DEF MCInit
<1>2. DoneInv /\ [MCNext]_<<part, vars, chanVars, sftpVars, poolVars>> => DoneInv'
    <2> SUFFICES ASSUME DoneInv, [MCNext]_<<part, vars, chanVars, sftpVars, poolVars>> PROVE DoneInv'
        OBVIOUS
    <2>1. CASE UNCHANGED sftpVars
        BY <2>1 DEF sftpVars, DoneInv, R!TypeOK, FilesOK
    <2>2. QED
        BY <2>1, DoneStep DEF MCNext
<1>3. DoneInv => SuccessIsDone
    BY EffectIsDone DEF DoneInv, SuccessIsDone, R!SuccessIsDone
<1>4. QED
    BY <1>1, <1>2, <1>3, PTL DEF MCSpec

-----------------------------------------------------------------------------
(* The types of the pool.                                                  *)

(* A user is about to send, a worker runs and Close sends only when there  *)
(* is a channel.                                                           *)
PoolInv ==
    /\ P!TypeOK
    /\ ioChan = None \/ ioChan \in Seq(Users \union {P!Nil})
    /\ ioChan = None =>
          /\ \A u \in Users : user[u] # "put"
          /\ \A w \in Workers : worker[w] = "off"
          /\ quits \in {None, 0}

LEMMA RangeType ==
    ASSUME NEW S, NEW s \in Seq(S)
    PROVE  P!Range(s) \subseteq S
BY DEF P!Range

LEMMA PoolInit == P!Init => PoolInv
<1> SUFFICES ASSUME P!Init PROVE PoolInv
    OBVIOUS
<1>1. 0 \in 0 .. MaxOps
    BY StorageAssumption
<1>2. QED
    BY <1>1 DEF P!Init, PoolInv, P!TypeOK

LEMMA PoolUser ==
    ASSUME PoolInv, NEW u \in Users, P!Call(u) \/ P!UserStep(u)
    PROVE  PoolInv'
<1>1. user' \in [Users -> {"idle", "lock", "test", "put", "wait", "direct", "unlock"}]
    BY DEF P!Call, P!UserStep, P!Lock, P!Test, P!Put, P!Direct, P!Unlock, P!At, PoolInv, P!TypeOK
<1>2. holds' \subseteq Users /\ UNCHANGED <<worker, quits>>
    BY DEF P!Call, P!UserStep, P!Lock, P!Test, P!Put, P!Direct, P!Unlock, PoolInv, P!TypeOK
<1>3. CASE P!Put(u)
    <2>1. ioChan # None /\ ioChan \in Seq(Users \union {P!Nil}) /\ Len(ioChan) < Buffer
        BY <1>3 DEF P!Put, P!At, PoolInv
    <2>2. /\ ioChan' \in Seq(Users \union {P!Nil}) /\ ioChan' # None
          /\ Len(ioChan') <= Buffer
        <3>1. ioChan' \in Seq(Users \union {P!Nil}) /\ Len(ioChan') = Len(ioChan) + 1
            BY <1>3, <2>1 DEF P!Put
        <3>2. QED
            BY <2>1, <3>1, StorageAssumption DEF P!Nil
    <2>3. late' \in BOOLEAN /\ ops' = ops
        BY <1>3 DEF P!Put, PoolInv, P!TypeOK
    <2>4. P!Range(ioChan') \subseteq Users \union {P!Nil}
        BY <2>2, RangeType
    <2>5. QED
        BY <1>1, <1>2, <2>2, <2>3, <2>4 DEF PoolInv, P!TypeOK
<1>4. CASE ~P!Put(u)
    <2>1. ioChan' = ioChan /\ late' = late
        BY <1>4 DEF P!Call, P!UserStep, P!Lock, P!Test, P!Direct, P!Unlock
    <2>2. ops' \in 0 .. MaxOps
        <3>1. CASE P!Call(u)
            BY <3>1, StorageAssumption DEF P!Call, PoolInv, P!TypeOK
        <3>2. QED
            BY <1>4, <3>1 DEF P!UserStep, P!Lock, P!Test, P!Direct, P!Unlock, PoolInv, P!TypeOK
    <2>3. ioChan = None => \A v \in Users : user'[v] # "put"
        BY <1>1, <1>4 DEF P!Call, P!UserStep, P!Lock, P!Test, P!Direct, P!Unlock, P!At, P!pooledIO, PoolInv,
                    P!TypeOK
    <2>4. QED
        BY <1>1, <1>2, <2>1, <2>2, <2>3 DEF PoolInv, P!TypeOK
<1>5. QED
    BY <1>3, <1>4

LEMMA PoolWorker ==
    ASSUME PoolInv, NEW w \in Workers, P!WorkerStep(w)
    PROVE  PoolInv'
<1>1. UNCHANGED <<holds, quits, late, ops>>
    BY DEF P!WorkerStep, P!StartWorker, P!Take, P!RunIOP
<1>2. ioChan # None
    BY StorageAssumption DEF P!WorkerStep, P!StartWorker, P!Take, P!RunIOP, P!pooledIO, PoolInv
<1>3. /\ ioChan \in Seq(Users \union {P!Nil}) /\ Len(ioChan) <= Buffer
      /\ worker \in [Workers -> {"off", "idle", "left"} \union Users]
      /\ user \in [Users -> {"idle", "lock", "test", "put", "wait", "direct", "unlock"}]
    BY <1>2 DEF PoolInv, P!TypeOK
<1>4. CASE P!StartWorker(w) \/ P!RunIOP(w)
    <2>1. /\ worker' \in [Workers -> {"off", "idle", "left"} \union Users] /\ ioChan' = ioChan
          /\ user' \in [Users -> {"idle", "lock", "test", "put", "wait", "direct", "unlock"}]
        BY <1>3, <1>4 DEF P!StartWorker, P!RunIOP
    <2>2. QED
        BY <1>1, <1>2, <2>1 DEF PoolInv, P!TypeOK
<1>5. CASE P!Take(w)
    <2>1. user' = user /\ ioChan # <<>> /\ ioChan' = Tail(ioChan)
        BY <1>5 DEF P!Take
    <2>2. Head(ioChan) \in Users \union {P!Nil} /\ Tail(ioChan) \in Seq(Users \union {P!Nil})
        BY <1>3, <2>1
    <2>3. Len(ioChan') <= Buffer
        BY <1>3, <2>1, StorageAssumption
    <2>4. worker' \in [Workers -> {"off", "idle", "left"} \union Users]
        BY <1>3, <1>5, <2>2 DEF P!Take
    <2>5. ioChan' # None
        BY <2>1, <2>2, StorageAssumption DEF P!Nil
    <2>6. P!Range(ioChan') \subseteq Users \union {P!Nil}
        BY <2>1, <2>2, RangeType
    <2>7. QED
        BY <1>1, <2>1, <2>2, <2>3, <2>4, <2>5, <2>6 DEF PoolInv, P!TypeOK
<1>6. QED
    BY <1>4, <1>5 DEF P!WorkerStep

LEMMA WorkersFacts ==
    /\ P!Cardinality(Workers) \in Nat
    /\ P!Cardinality(Workers)' = P!Cardinality(Workers)
<1>1. P!Cardinality(Workers) = Cardinality(Workers)
    BY Zenon DEF P!Cardinality, Cardinality
<1>2. QED
    BY <1>1, StorageAssumption, FS_CardinalityType

LEMMA NilsFacts ==
    ASSUME NEW k \in Nat
    PROVE  /\ k \in 0 .. k /\ 0 \in 0 .. k
           /\ \A q \in 0 .. k : q # 0 => q - 1 \in 0 .. k
OBVIOUS

LEMMA PoolRest ==
    ASSUME PoolInv, P!Run \/ P!Close \/ P!SendNil
    PROVE  PoolInv'
<1>1. UNCHANGED <<user, holds, worker, ops>>
    BY DEF P!Run, P!Close, P!SendNil
<1> DEFINE k == P!Cardinality(Workers)
<1>2. /\ k \in 0 .. k /\ 0 \in 0 .. k
      /\ \A q \in 0 .. k : q # 0 => q - 1 \in 0 .. k
    BY WorkersFacts, NilsFacts, Zenon
<1>3. CASE P!Run
    <2>1. ioChan' = <<>> /\ UNCHANGED <<quits, late>>
        BY <1>3 DEF P!Run
    <2>2. ioChan' \in Seq(Users \union {P!Nil}) /\ Len(ioChan') <= Buffer
        BY <2>1, StorageAssumption
    <2>3. ioChan' # None /\ P!Range(ioChan') \subseteq Users \union {P!Nil}
        BY <2>2, RangeType, StorageAssumption DEF P!Nil
    <2>4. QED
        BY <1>1, <2>1, <2>2, <2>3 DEF PoolInv, P!TypeOK
<1>4. CASE P!Close
    <2>1. /\ UNCHANGED <<ioChan, late>>
          /\ quits' = IF ioChan # None THEN k ELSE 0
        BY <1>4, Zenon DEF P!Close, P!pooledIO
    <2>2. quits' \in 0 .. k /\ (ioChan = None => quits' = 0)
        BY <1>2, <2>1, Zenon
    <2>3. QED
        BY <1>1, <2>1, <2>2 DEF PoolInv, P!TypeOK
<1>5. CASE P!SendNil
    <2>1. /\ quits \notin {None, 0} /\ Len(ioChan) < Buffer /\ ioChan' = Append(ioChan, P!Nil)
          /\ quits' = quits - 1 /\ late' = late
        BY <1>5 DEF P!SendNil
    <2>2. ioChan # None /\ ioChan \in Seq(Users \union {P!Nil})
        BY <2>1 DEF PoolInv
    <2>3. ioChan' \in Seq(Users \union {P!Nil}) /\ Len(ioChan') = Len(ioChan) + 1
        BY <2>1, <2>2
    <2>4. Len(ioChan') <= Buffer
        BY <2>1, <2>2, <2>3, StorageAssumption
    <2>5. ioChan' # None /\ P!Range(ioChan') \subseteq Users \union {P!Nil}
        BY <2>3, RangeType, StorageAssumption DEF P!Nil
    <2>6. quits' \in 0 .. k
        <3>1. quits \in 0 .. k /\ quits # 0
            BY <2>1, Zenon DEF PoolInv, P!TypeOK
        <3>2. QED
            BY <1>2, <2>1, <3>1, Zenon
    <2>7. QED
        BY <1>1, <2>1, <2>3, <2>4, <2>5, <2>6 DEF PoolInv, P!TypeOK
<1>6. QED
    BY <1>3, <1>4, <1>5

LEMMA PoolStep == PoolInv /\ P!Next => PoolInv'
BY PoolUser, PoolWorker, PoolRest DEF P!Next

-----------------------------------------------------------------------------
(* The types of the four together.                                         *)

LEMMA OnlineType == Online => TypeOK
<1> SUFFICES ASSUME Online PROVE TypeOK
    OBVIOUS
<1>1. 1 \in Sessions /\ 0 \in 0 .. MaxFaults /\ <<>> \in Seq(Callers)
    BY NetworkAssumption DEF Sessions
<1>2. QED
    BY <1>1 DEF Online, Idle, TypeOK

AllTypeInv == TypeOK /\ C!TypeOK /\ DoneInv /\ PoolInv

LEMMA AllTypeStep ==
    AllTypeInv /\ [MCNext]_<<part, vars, chanVars, sftpVars, poolVars>> => AllTypeInv'
<1> SUFFICES ASSUME AllTypeInv, [MCNext]_<<part, vars, chanVars, sftpVars, poolVars>>
             PROVE  AllTypeInv'
    OBVIOUS
<1>1. TypeOK'
    BY TypeStep DEF MCNext, AllTypeInv
<1>2. C!TypeOK'
    <2>1. CASE UNCHANGED chanVars
        BY <2>1 DEF chanVars, C!TypeOK, AllTypeInv
    <2>2. QED
        BY <2>1, ChannelsTypeStep DEF MCNext, AllTypeInv
<1>3. DoneInv'
    <2>1. CASE UNCHANGED sftpVars
        BY <2>1 DEF sftpVars, DoneInv, R!TypeOK, FilesOK, AllTypeInv
    <2>2. QED
        BY <2>1, DoneStep DEF MCNext, AllTypeInv
<1>4. PoolInv'
    <2>1. CASE UNCHANGED poolVars
        BY <2>1, WorkersFacts DEF poolVars, PoolInv, P!TypeOK, AllTypeInv
    <2>2. QED
        BY <2>1, PoolStep DEF MCNext, AllTypeInv
<1>5. QED
    BY <1>1, <1>2, <1>3, <1>4 DEF AllTypeInv

(* Every variable keeps its type in all four: sessions and what callers    *)
(* are handed (swarm.go, sam.go), the counters and channels of a           *)
(* connection (peer.go), the files of the SFTP server (sftp.go), and the   *)
(* workers of the storage with their channel (fs.go).                      *)
THEOREM AllTypesCorrect == MCSpec => []AllTypeOK
<1>1. MCInit => AllTypeInv
    BY TypeInit, OnlineType, ChannelsTypeInit, DoneInit, PoolInit DEF MCInit, AllTypeInv
<1>2. AllTypeInv => AllTypeOK
    BY DEF AllTypeInv, AllTypeOK, DoneInv, PoolInv
<1>3. QED
    BY <1>1, <1>2, AllTypeStep, PTL DEF MCSpec

=============================================================================
