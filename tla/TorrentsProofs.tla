--------------------------- MODULE TorrentsProofs ---------------------------
(***************************************************************************)
(* Safety of the life cycle of torrents, of their announces and of the     *)
(* wire between two ends, for any number of torrents, requests, starts and *)
(* pieces.  A!X is what Announce defines as X, W!X what Wire does.         *)
(***************************************************************************)
EXTENDS MCTorrents, Sequences, FiniteSetTheorems, TLAPS

-----------------------------------------------------------------------------
(* The types of the life cycle.                                            *)

ThreadType == [pc : {"none", "spawned", "queue", "load", "store", "start", "announce",
                     "stop", "close", "silence", "hung", "erase", "remove", "end"},
               op : Ops, t : {None} \union Torrents, v : Int]

(* Where a torrent's own goroutine is before it has started a run loop.    *)
Before == {"spawned", "queue", "load", "store", "start", "announce"}

(* Each goroutine works on a torrent, and a torrent's own on that one.     *)
Placed(x, y) ==
    /\ x \in Torrents => y.pc \in {"none", "end"} \union Before /\ (y.pc # "none" => y.t = x)
    /\ x \in Users /\ y.pc # "none" => y.t \in Torrents

(* Goroutine x, in state y, may still start a run loop of t.               *)
Owes(x, y, t) == y.t = t /\ y.pc \in (IF x \in Torrents THEN Before ELSE {"start", "announce"})
Owing(t) == {x \in Threads : Owes(x, th[x], t)}

(* The run loops of t that there are, and that there may be.              *)
Loops(t) == loop[t]["spawned"] + loop[t]["on"] + loop[t]["seed"]
Allowed(t) == ops + (IF th[t].pc = "none" THEN 0 ELSE 1)

Mishaps == {"unstopped", "race", "early", "hung", "panic"}

Kept ==
    /\ listed \subseteq Torrents /\ holderClosing \in BOOLEAN
    /\ started \in [Torrents -> BOOLEAN] /\ closing \in [Torrents -> BOOLEAN]
    /\ seeding \in [Torrents -> BOOLEAN]
    /\ active \in Int /\ ops \in 0 .. MaxOps
    /\ mishap \subseteq Mishaps

ThreadsInv == th \in [Threads -> ThreadType] /\ \A x \in Threads : Placed(x, th[x])

(* Each run loop was started by a request, or by the torrent's own         *)
(* goroutine.                                                              *)
LoopsInv ==
    /\ loop \in [Torrents -> [LoopStates -> Nat]]
    /\ \A t \in Torrents :
          IsFiniteSet(Owing(t)) /\ Cardinality(Owing(t)) + Loops(t) <= Allowed(t)

TorrentsInv == Kept /\ ThreadsInv /\ LoopsInv

LEMMA TorrentsTyped == TorrentsInv => TypeOK
<1> SUFFICES ASSUME TorrentsInv PROVE TypeOK
    OBVIOUS
<1>1. ASSUME NEW t \in Torrents, NEW l \in LoopStates PROVE loop[t][l] \in 0 .. MaxOps + 1
    <2>1. Cardinality(Owing(t)) \in Nat
        BY FS_CardinalityType DEF TorrentsInv, LoopsInv
    <2> DEFINE c == Cardinality(Owing(t))
    <2>2. /\ c + Loops(t) <= Allowed(t) /\ c \in Nat
          /\ loop[t]["spawned"] \in Nat /\ loop[t]["on"] \in Nat /\ loop[t]["seed"] \in Nat
          /\ ops \in 0 .. MaxOps
        BY <2>1 DEF TorrentsInv, LoopsInv, LoopStates, Kept
    <2> HIDE DEF c
    <2>3. Loops(t) \in Nat /\ loop[t][l] <= Loops(t) /\ loop[t][l] \in Nat
        BY <2>2 DEF Loops, LoopStates
    <2>4. Allowed(t) \in Nat /\ Allowed(t) <= MaxOps + 1
        BY <2>2, TorrentsAssumption DEF Allowed
    <2>5. QED
        BY <2>2, <2>3, <2>4, TorrentsAssumption
<1>2. loop \in [Torrents -> [LoopStates -> 0 .. MaxOps + 1]]
    BY <1>1 DEF TorrentsInv, LoopsInv
<1>3. QED
    BY <1>2 DEF TorrentsInv, Kept, Mishaps, ThreadsInv, ThreadType, TypeOK

LEMMA TorrentsInit == Init => TorrentsInv
<1> SUFFICES ASSUME Init PROVE TorrentsInv
    OBVIOUS
<1>1. Resting \in ThreadType /\ \A x \in Threads : Placed(x, Resting)
    BY DEF Resting, ThreadType, Ops, Placed
<1>2. \A t \in Torrents : Owing(t) = {}
    BY DEF Init, Owing, Owes, Resting, Before
<1>3. Cardinality({}) = 0 /\ IsFiniteSet({}) /\ 0 \in 0 .. MaxOps
    BY FS_EmptySet, TorrentsAssumption
<1>4. ThreadsInv
    BY <1>1 DEF Init, ThreadsInv
<1>5. LoopsInv
    <2>1. loop \in [Torrents -> [LoopStates -> Nat]] /\ ops = 0
        BY DEF Init
    <2>2. ASSUME NEW t \in Torrents
          PROVE  /\ loop[t]["spawned"] = 0 /\ loop[t]["on"] = 0 /\ loop[t]["seed"] = 0
                 /\ th[t].pc = "none"
                 /\ Cardinality(Owing(t)) = 0 /\ IsFiniteSet(Owing(t))
        BY <1>2, <1>3 DEF Init, LoopStates, Resting, Threads
    <2>3. ASSUME NEW t \in Torrents PROVE Cardinality(Owing(t)) + Loops(t) <= Allowed(t)
        <3>1. Cardinality(Owing(t)) = 0 /\ Loops(t) = 0 /\ Allowed(t) = 0
            BY <2>1, <2>2 DEF Loops, Allowed
        <3>2. QED
            BY <3>1
    <2>4. QED
        BY <2>1, <2>2, <2>3, Zenon DEF LoopsInv
<1>6. Kept
    <2>1. started \in [Torrents -> BOOLEAN] /\ closing = started /\ seeding = started
        BY DEF Init
    <2>2. holderClosing \in BOOLEAN
        BY Zenon DEF Init
    <2>3. listed = {} /\ active = 0 /\ ops = 0 /\ mishap = {}
        BY DEF Init
    <2>4. QED
        BY <1>3, <2>1, <2>2, <2>3 DEF Kept
<1>7. QED
    BY <1>4, <1>5, <1>6 DEF TorrentsInv

(* A goroutine moves: those that owe a loop of t change by that one.       *)
LEMMA OwingChanges ==
    ASSUME ThreadsInv, NEW x \in Threads, NEW y, th' = [th EXCEPT ![x] = y],
           NEW t \in Torrents, IsFiniteSet(Owing(t))
    PROVE  /\ IsFiniteSet(Owing(t)') /\ Cardinality(Owing(t)) \in Nat
           /\ Cardinality(Owing(t)') + (IF Owes(x, th[x], t) THEN 1 ELSE 0)
                = Cardinality(Owing(t)) + (IF Owes(x, y, t) THEN 1 ELSE 0)
<1>1. th'[x] = y /\ \A z \in Threads \ {x} : th'[z] = th[z]
    BY DEF ThreadsInv
<1>2. /\ x \in Owing(t) <=> Owes(x, th[x], t)
      /\ x \in Owing(t)' <=> Owes(x, y, t)
      /\ Owing(t)' \ {x} = Owing(t) \ {x}
    BY <1>1 DEF Owing, Owes
<1> DEFINE Was == Owing(t)
           Is == Owing(t)'
<1>3. IsFiniteSet(Was \ {x}) /\ IsFiniteSet(Is)
    <2>1. IsFiniteSet(Was \ {x})
        BY FS_RemoveElement
    <2>2. Is \subseteq (Was \ {x}) \union {x}
        BY <1>2
    <2>3. QED
        BY <2>1, <2>2, FS_AddElement, FS_Subset
<1>4. /\ Cardinality(Was) \in Nat /\ Cardinality(Is) \in Nat
      /\ Cardinality(Was \ {x}) = IF x \in Was THEN Cardinality(Was) - 1 ELSE Cardinality(Was)
      /\ Cardinality(Is \ {x}) = IF x \in Is THEN Cardinality(Is) - 1 ELSE Cardinality(Is)
    BY <1>3, FS_RemoveElement, FS_CardinalityType
<1> DEFINE a == Cardinality(Was)
           b == Cardinality(Is)
           c == Cardinality(Was \ {x})
<1>5. /\ a \in Nat /\ b \in Nat
      /\ c = IF x \in Was THEN a - 1 ELSE a
      /\ c = IF x \in Is THEN b - 1 ELSE b
    BY <1>2, <1>4
<1> HIDE DEF a, b, c, Was, Is
<1>6. b + (IF x \in Was THEN 1 ELSE 0) = a + (IF x \in Is THEN 1 ELSE 0)
    BY <1>5
<1>7. QED
    BY <1>2, <1>3, <1>4, <1>6 DEF a, b, Was, Is

LEMMA GoesOn ==
    ASSUME ThreadsInv, NEW x \in Threads, NEW y \in ThreadType, Placed(x, y),
           th' = [th EXCEPT ![x] = y]
    PROVE  ThreadsInv'
BY DEF ThreadsInv, Placed

(* A goroutine moves and no run loop does: it owes no loop that it did not *)
(* owe, but for a request that came in or a torrent that was added.        *)
LEMMA Sums ==
    ASSUME NEW a \in Nat, NEW b \in Nat, NEW k \in Nat, NEW p \in Nat, NEW q \in Nat,
           a + k <= p, b + p <= a + q
    PROVE  b + k <= q
OBVIOUS

LEMMA Grows ==
    ASSUME NEW o \in Nat, NEW p \in Nat, NEW i \in Nat, NEW j \in Nat, o <= p, i <= j
    PROVE  /\ o + i \in Nat /\ p + j \in Nat /\ o + i <= p + j
           /\ o < p \/ (i = 0 /\ j = 1) => o + i + 1 <= p + j
OBVIOUS

LEMMA Fits ==
    ASSUME NEW a \in Nat, NEW b \in Nat, NEW p \in Nat, NEW q \in Nat, p <= q,
           b <= a \/ (b <= a + 1 /\ p + 1 <= q)
    PROVE  b + p <= a + q
OBVIOUS

LEMMA LoopsFacts ==
    ASSUME TorrentsInv, NEW t \in Torrents
    PROVE  /\ loop[t]["spawned"] \in Nat /\ loop[t]["on"] \in Nat /\ loop[t]["seed"] \in Nat
           /\ Loops(t) \in Nat /\ Allowed(t) \in Nat
           /\ Cardinality(Owing(t)) \in Nat /\ Cardinality(Owing(t)) + Loops(t) <= Allowed(t)
<1>1. /\ loop[t]["spawned"] \in Nat /\ loop[t]["on"] \in Nat /\ loop[t]["seed"] \in Nat
      /\ ops \in Nat
    BY TorrentsAssumption DEF TorrentsInv, LoopsInv, LoopStates, Kept
<1>2. Loops(t) \in Nat /\ Allowed(t) \in Nat
    BY <1>1 DEF Loops, Allowed
<1>3. QED
    BY <1>1, <1>2, FS_CardinalityType DEF TorrentsInv, LoopsInv

LEMMA LoopsStay ==
    ASSUME TorrentsInv, NEW x \in Threads, NEW y \in ThreadType, th' = [th EXCEPT ![x] = y],
           loop' = loop, ops' \in 0 .. MaxOps, ops <= ops',
           y.pc = "none" => x \notin Torrents \/ th[x].pc = "none",
           \A t \in Torrents : Owes(x, y, t) =>
               Owes(x, th[x], t) \/ ops < ops' \/ (x = t /\ th[x].pc = "none" /\ y.pc # "none")
    PROVE  LoopsInv'
<1>1. loop' \in [Torrents -> [LoopStates -> Nat]]
    BY DEF TorrentsInv, LoopsInv
<1>2. ASSUME NEW t \in Torrents
      PROVE  IsFiniteSet(Owing(t)') /\ Cardinality(Owing(t)') + Loops(t)' <= Allowed(t)'
    <2> DEFINE a == Cardinality(Owing(t))
               b == Cardinality(Owing(t)')
               i == IF th[t].pc = "none" THEN 0 ELSE 1
               j == IF th'[t].pc = "none" THEN 0 ELSE 1
    <2>1. /\ IsFiniteSet(Owing(t)') /\ a \in Nat
          /\ b + (IF Owes(x, th[x], t) THEN 1 ELSE 0) = a + (IF Owes(x, y, t) THEN 1 ELSE 0)
        BY OwingChanges DEF TorrentsInv, LoopsInv
    <2>2. b \in Nat
        BY <2>1, FS_CardinalityType
    <2>3. Loops(t)' = Loops(t) /\ ops \in Nat /\ ops' \in Nat
        BY DEF Loops, TorrentsInv, Kept
    <2>4. /\ th'[x] = y /\ \A z \in Threads \ {x} : th'[z] = th[z]
          /\ t \in Threads
        BY DEF TorrentsInv, ThreadsInv, Threads
    <2>5. /\ i \in Nat /\ j \in Nat /\ i <= j
          /\ x = t /\ th[x].pc = "none" /\ y.pc # "none" => i = 0 /\ j = 1
        BY <2>4
    <2>6. Allowed(t) = ops + i /\ Allowed(t)' = ops' + j
        BY DEF Allowed
    <2> HIDE DEF a, b, i, j
    <2>7. \/ b <= a
          \/ b <= a + 1 /\ ops < ops'
          \/ b <= a + 1 /\ i = 0 /\ j = 1
        BY <2>1, <2>2, <2>5
    <2>8. /\ Allowed(t)' \in Nat /\ Allowed(t) \in Nat /\ Allowed(t) <= Allowed(t)'
          /\ ops < ops' \/ (i = 0 /\ j = 1) => Allowed(t) + 1 <= Allowed(t)'
        <3>1. /\ ops + i \in Nat /\ ops' + j \in Nat /\ ops + i <= ops' + j
              /\ ops < ops' \/ (i = 0 /\ j = 1) => ops + i + 1 <= ops' + j
            BY <2>3, <2>5, Grows, Zenon
        <3>2. QED
            BY <2>6, <3>1, Zenon
    <2>9. b + Allowed(t) <= a + Allowed(t)'
        <3>1. b <= a \/ (b <= a + 1 /\ Allowed(t) + 1 <= Allowed(t)')
            BY <2>7, <2>8, Zenon
        <3>2. QED
            BY <2>1, <2>2, <2>8, <3>1, Fits, Zenon
    <2>10. b + Loops(t)' <= Allowed(t)'
        BY <2>1, <2>2, <2>3, <2>8, <2>9, LoopsFacts, Sums, Zenon DEF a
    <2>11. QED
        BY <2>1, <2>10 DEF b
<1>3. QED
    BY <1>1, <1>2 DEF LoopsInv

LEMMA Moves ==
    ASSUME TorrentsInv, Kept', NEW x \in Threads, NEW y \in ThreadType, Placed(x, y),
           th' = [th EXCEPT ![x] = y], loop' = loop, ops <= ops',
           y.pc = "none" => x \notin Torrents \/ th[x].pc = "none",
           \A t \in Torrents : Owes(x, y, t) =>
               Owes(x, th[x], t) \/ ops < ops' \/ (x = t /\ th[x].pc = "none" /\ y.pc # "none")
    PROVE  TorrentsInv'
BY GoesOn, LoopsStay DEF TorrentsInv, Kept

(* Steps of goroutines that go on with the same torrent, or are done.      *)
LEMMA GoesTo ==
    ASSUME TorrentsInv, Kept', NEW x \in Threads, NEW y \in ThreadType, y.t = th[x].t,
           th' = [th EXCEPT ![x] = y], loop' = loop, ops' = ops,
           th[x].pc # "none", y.pc # "none",
           x \in Torrents => th[x].pc \in Before /\ y.pc \in Before,
           x \in Users /\ y.pc \in {"start", "announce"} => th[x].pc = "start"
    PROVE  TorrentsInv'
<1>1. Placed(x, th[x])
    BY DEF TorrentsInv, ThreadsInv
<1>2. Placed(x, y)
    BY <1>1 DEF Placed
<1>3. \A t \in Torrents : Owes(x, y, t) => Owes(x, th[x], t)
    BY TorrentsAssumption DEF Owes, Threads
<1>4. ops <= ops'
    BY DEF TorrentsInv, Kept
<1>5. QED
    BY <1>2, <1>3, <1>4, Moves

LEMMA Goes ==
    ASSUME TorrentsInv, Kept', NEW x \in Threads, NEW c,
           Goto(x, c), loop' = loop, ops' = ops,
           th[x].pc # "none", c # "none",
           x \in Torrents => th[x].pc \in Before /\ c \in Before,
           x \in Users => c \in {"announce", "load", "store", "stop", "close", "silence", "hung",
                                 "erase", "remove"}
                           /\ (c = "announce" => th[x].pc = "start")
    PROVE  TorrentsInv'
<1> DEFINE y == [th[x] EXCEPT !.pc = c]
<1>1. th[x] \in ThreadType
    BY DEF TorrentsInv, ThreadsInv
<1>2. y \in ThreadType /\ y.pc = c /\ y.t = th[x].t
    BY <1>1 DEF ThreadType, Threads, Before
<1>3. th' = [th EXCEPT ![x] = y]
    BY DEF Goto
<1> HIDE DEF y
<1>4. QED
    BY <1>2, <1>3, GoesTo

LEMMA FinishFacts ==
    ASSUME ThreadsInv, NEW x \in Threads, Finish(x), th[x].pc # "none"
    PROVE  \E y \in ThreadType :
              /\ th' = [th EXCEPT ![x] = y] /\ Placed(x, y)
              /\ y.pc = "none" => x \notin Torrents
              /\ \A t : ~Owes(x, y, t)
<1>1. th[x] \in ThreadType /\ Placed(x, th[x])
    BY DEF ThreadsInv
<1>2. CASE x \in Torrents
    <2> DEFINE y == [th[x] EXCEPT !.pc = "end"]
    <2>1. y \in ThreadType /\ y.pc = "end" /\ y.t = th[x].t
        BY <1>1 DEF ThreadType
    <2>2. th' = [th EXCEPT ![x] = y]
        BY <1>2 DEF Finish
    <2> HIDE DEF y
    <2>3. Placed(x, y) /\ \A t : ~Owes(x, y, t)
        BY <1>1, <1>2, <2>1, TorrentsAssumption DEF Placed, Owes, Before
    <2>4. QED
        BY <2>1, <2>2, <2>3
<1>3. CASE x \notin Torrents
    <2>1. Resting \in ThreadType /\ Placed(x, Resting) /\ \A t : ~Owes(x, Resting, t)
        BY <1>3 DEF Resting, ThreadType, Ops, Placed, Owes
    <2>2. th' = [th EXCEPT ![x] = Resting]
        BY <1>3 DEF Finish
    <2>3. QED
        BY <1>3, <2>1, <2>2
<1>4. QED
    BY <1>2, <1>3

LEMMA Finishes ==
    ASSUME TorrentsInv, Kept', NEW x \in Threads, Finish(x), th[x].pc # "none",
           loop' = loop, ops' = ops
    PROVE  TorrentsInv'
<1>1. ops <= ops'
    BY DEF TorrentsInv, Kept
<1>2. PICK y \in ThreadType :
          /\ th' = [th EXCEPT ![x] = y] /\ Placed(x, y)
          /\ y.pc = "none" => x \notin Torrents
          /\ \A t : ~Owes(x, y, t)
    BY FinishFacts DEF TorrentsInv
<1>3. QED
    BY <1>1, <1>2, Moves

(* A goroutine that owed a run loop has started it; loops run and end.     *)
LEMMA StartRunLoops ==
    ASSUME TorrentsInv, NEW x \in Threads, StartRun(x)
    PROVE  TorrentsInv'
<1> DEFINE s == th[x].t
<1>1. th[x].pc = "announce" /\ Finish(x) /\ Placed(x, th[x])
    BY DEF StartRun, TorrentsInv, ThreadsInv
<1>2. s \in Torrents /\ Owes(x, th[x], s)
    BY <1>1 DEF Placed, Owes, Before, Threads
<1>3. loop' = [loop EXCEPT ![s]["spawned"] = @ + 1]
    BY DEF StartRun
<1>4. PICK y \in ThreadType :
          /\ th' = [th EXCEPT ![x] = y] /\ Placed(x, y)
          /\ y.pc = "none" => x \notin Torrents
          /\ \A t : ~Owes(x, y, t)
    BY <1>1, FinishFacts DEF TorrentsInv
<1>5. ops' = ops /\ Kept'
    BY DEF StartRun, flags, holder, TorrentsInv, Kept
<1>6. ThreadsInv'
    BY <1>4, GoesOn DEF TorrentsInv
<1> HIDE DEF s
<1>7. /\ loop' \in [Torrents -> [LoopStates -> Nat]]
      /\ \A t \in Torrents : t # s => loop'[t] = loop[t]
      /\ loop'[s]["spawned"] = loop[s]["spawned"] + 1 /\ loop'[s]["on"] = loop[s]["on"]
      /\ loop'[s]["seed"] = loop[s]["seed"]
    BY <1>2, <1>3 DEF TorrentsInv, LoopsInv, LoopStates
<1>8. ASSUME NEW t \in Torrents
      PROVE  IsFiniteSet(Owing(t)') /\ Cardinality(Owing(t)') + Loops(t)' <= Allowed(t)'
    <2>1. /\ IsFiniteSet(Owing(t)') /\ Cardinality(Owing(t)) \in Nat
          /\ Cardinality(Owing(t)') + (IF Owes(x, th[x], t) THEN 1 ELSE 0)
                = Cardinality(Owing(t)) + (IF Owes(x, y, t) THEN 1 ELSE 0)
        BY <1>4, OwingChanges DEF TorrentsInv, LoopsInv
    <2>2. Cardinality(Owing(t)') \in Nat
        BY <2>1, FS_CardinalityType
    <2>3. Allowed(t)' = Allowed(t)
        <3>1. t \in Threads /\ (t = x => y.pc # "none")
            BY <1>4 DEF Threads
        <3>2. th'[t].pc = "none" <=> th[t].pc = "none"
            BY <1>1, <1>4, <3>1 DEF TorrentsInv, ThreadsInv
        <3>3. QED
            BY <1>5, <3>2 DEF Allowed
    <2>4. /\ Loops(t) \in Nat /\ Allowed(t) \in Nat
          /\ Cardinality(Owing(t)) + Loops(t) <= Allowed(t)
        BY LoopsFacts
    <2>5. Loops(t)' = Loops(t) + (IF t = s THEN 1 ELSE 0)
        <3>1. /\ loop[t]["spawned"] \in Nat /\ loop[t]["on"] \in Nat /\ loop[t]["seed"] \in Nat
              /\ Loops(t) = loop[t]["spawned"] + loop[t]["on"] + loop[t]["seed"]
              /\ Loops(t)' = loop'[t]["spawned"] + loop'[t]["on"] + loop'[t]["seed"]
            BY LoopsFacts DEF Loops
        <3>2. CASE t = s
            BY <1>7, <3>1, <3>2
        <3>3. CASE t # s
            <4>1. loop'[t] = loop[t]
                BY <1>7, <3>3
            <4>2. QED
                BY <3>1, <3>3, <4>1
        <3>4. QED
            BY <3>2, <3>3
    <2>6. ~Owes(x, y, t) /\ (t = s => Owes(x, th[x], t))
        BY <1>2, <1>4
    <2> DEFINE a == Cardinality(Owing(t))
               b == Cardinality(Owing(t)')
               k == Loops(t)
               p == Allowed(t)
    <2>7. a \in Nat /\ b \in Nat /\ k \in Nat /\ p \in Nat /\ a + k <= p
        BY <2>1, <2>2, <2>4
    <2>8. b <= a /\ (t = s => b + 1 = a)
        BY <2>1, <2>2, <2>6
    <2>9. Loops(t)' = k + (IF t = s THEN 1 ELSE 0) /\ Allowed(t)' = p
        BY <2>3, <2>5
    <2> HIDE DEF a, b, k, p
    <2>10. b + Loops(t)' <= Allowed(t)'
        BY <2>7, <2>8, <2>9
    <2>11. QED
        BY <2>1, <2>10 DEF b
<1>9. QED
    BY <1>5, <1>6, <1>7, <1>8 DEF TorrentsInv, LoopsInv

LEMMA RunLoopsStep ==
    ASSUME TorrentsInv, NEW s \in Torrents, LoopStep(s)
    PROVE  TorrentsInv'
<1>1. th' = th /\ ops' = ops /\ Kept' /\ ThreadsInv'
    BY DEF LoopStep, RunStarts, RunEnds, SeedBegins, SeedReturns, flags, holder, TorrentsInv, Kept,
           ThreadsInv
<1>2. /\ loop[s]["spawned"] \in Nat /\ loop[s]["on"] \in Nat /\ loop[s]["seed"] \in Nat
      /\ loop \in [Torrents -> [LoopStates -> Nat]]
    BY LoopsFacts DEF TorrentsInv, LoopsInv
<1>3. /\ loop' \in [Torrents -> [LoopStates -> Nat]]
      /\ \A t \in Torrents : t # s => loop'[t] = loop[t]
      /\ loop'[s]["spawned"] + loop'[s]["on"] + loop'[s]["seed"]
            <= loop[s]["spawned"] + loop[s]["on"] + loop[s]["seed"]
    <2>1. CASE RunStarts(s)
        BY <1>2, <2>1 DEF RunStarts, LoopStates
    <2>2. CASE RunEnds(s)
        BY <1>2, <2>2 DEF RunEnds, LoopStates
    <2>3. CASE SeedBegins(s)
        BY <1>2, <2>3 DEF SeedBegins, LoopStates
    <2>4. CASE SeedReturns(s)
        BY <1>2, <2>4 DEF SeedReturns, LoopStates
    <2>5. QED
        BY <2>1, <2>2, <2>3, <2>4 DEF LoopStep
<1>4. ASSUME NEW t \in Torrents
      PROVE  IsFiniteSet(Owing(t)') /\ Cardinality(Owing(t)') + Loops(t)' <= Allowed(t)'
    <2>1. Owing(t)' = Owing(t) /\ Allowed(t)' = Allowed(t)
        BY <1>1 DEF Owing, Allowed
    <2>2. /\ Loops(t) \in Nat /\ Allowed(t) \in Nat /\ Cardinality(Owing(t)) \in Nat
          /\ Cardinality(Owing(t)) + Loops(t) <= Allowed(t)
        BY LoopsFacts
    <2>3. Loops(t)' \in Nat /\ Loops(t)' <= Loops(t)
        BY <1>2, <1>3 DEF Loops, LoopStates
    <2> DEFINE a == Cardinality(Owing(t))
    <2>4. a \in Nat /\ a + Loops(t) <= Allowed(t)
        BY <2>2
    <2> HIDE DEF a
    <2>5. a + Loops(t)' <= Allowed(t)
        BY <2>2, <2>3, <2>4
    <2>6. QED
        BY <2>1, <2>5 DEF a, TorrentsInv, LoopsInv
<1>5. QED
    BY <1>1, <1>3, <1>4 DEF TorrentsInv, LoopsInv

LEMMA RequestStep ==
    ASSUME TorrentsInv, NEW u \in Users,
           HolderClose(u)
             \/ \E t \in Torrents, op \in {"start", "stop", "delete"} : ChangeTorrent(u, t, op)
    PROVE  TorrentsInv'
<1>1. ops \in Nat /\ MaxOps \in Nat /\ u \in Threads /\ u \notin Torrents
    BY TorrentsAssumption DEF TorrentsInv, Kept, Threads
<1>2. ops' \in 0 .. MaxOps /\ ops < ops' /\ ops <= ops'
    BY <1>1 DEF HolderClose, ChangeTorrent
<1>3. Kept'
    BY <1>2 DEF TorrentsInv, Kept, HolderClose, ChangeTorrent, flags, holder
<1>4. ASSUME NEW y \in ThreadType, y.t \in Torrents, th' = [th EXCEPT ![u] = y], loop' = loop
      PROVE  TorrentsInv'
    <2>1. Placed(u, y)
        BY <1>1, <1>4 DEF Placed
    <2>2. QED
        BY <1>1, <1>2, <1>3, <1>4, <2>1, Moves
<1>5. CASE HolderClose(u)
    <2>1. CASE listed = {}
        <3>1. th' = [th EXCEPT ![u] = th[u]] /\ loop' = loop
            BY <1>5, <2>1 DEF HolderClose, TorrentsInv, ThreadsInv
        <3>2. th[u] \in ThreadType /\ Placed(u, th[u])
            BY <1>1 DEF TorrentsInv, ThreadsInv
        <3>3. QED
            BY <1>1, <1>2, <1>3, <3>1, <3>2, Moves
    <2>2. CASE listed # {}
        <3>1. loop' = loop
            BY <1>5 DEF HolderClose
        <3>2. PICK t \in listed :
                  \/ th' = [th EXCEPT ![u] = [pc |-> "stop", op |-> "close", t |-> t, v |-> 0]]
                  \/ th' = [th EXCEPT ![u] = [pc |-> "close", op |-> "drop", t |-> t, v |-> 0]]
            BY <1>5, <2>2, Zenon DEF HolderClose
        <3>3. t \in Torrents
            BY DEF TorrentsInv, Kept
        <3>4. /\ [pc |-> "stop", op |-> "close", t |-> t, v |-> 0] \in ThreadType
              /\ [pc |-> "close", op |-> "drop", t |-> t, v |-> 0] \in ThreadType
            BY <3>3 DEF ThreadType, Ops
        <3>5. QED
            BY <1>4, <3>1, <3>2, <3>3, <3>4
    <2>3. QED
        BY <2>1, <2>2
<1>6. ASSUME NEW t \in Torrents, NEW op \in {"start", "stop", "delete"}, ChangeTorrent(u, t, op)
      PROVE  TorrentsInv'
    <2> DEFINE c == CASE op = "start" -> "start" [] op = "delete" -> "close" [] OTHER -> "stop"
               y == [pc |-> c, op |-> op, t |-> t, v |-> 0]
    <2>1. c \in {"start", "close", "stop"}
        OBVIOUS
    <2>2. th' = [th EXCEPT ![u] = y] /\ loop' = loop
        BY <1>6 DEF ChangeTorrent
    <2> HIDE DEF c
    <2>3. y \in ThreadType /\ y.t \in Torrents
        BY <2>1 DEF ThreadType, Ops
    <2>4. QED
        BY <1>4, <2>2, <2>3
<1>7. QED
    BY <1>5, <1>6

LEMMA AddTorrentStep ==
    ASSUME TorrentsInv, NEW s \in Torrents, AddTorrent(s)
    PROVE  TorrentsInv'
<1> DEFINE y == IF holderClosing THEN th[s] ELSE [th[s] EXCEPT !.pc = "spawned", !.t = s]
<1>1. s \in Threads /\ th[s] \in ThreadType /\ th[s].pc = "none" /\ Placed(s, th[s])
    BY DEF AddTorrent, TorrentsInv, ThreadsInv, Threads
<1>2. y \in ThreadType /\ (y = th[s] \/ (y.pc = "spawned" /\ y.t = s))
    BY <1>1 DEF ThreadType
<1>3. th' = [th EXCEPT ![s] = y]
    <2>1. th \in [Threads -> ThreadType]
        BY DEF TorrentsInv, ThreadsInv
    <2>2. QED
        BY <1>1, <2>1 DEF AddTorrent
<1> HIDE DEF y
<1>4. Placed(s, y)
    BY <1>1, <1>2, TorrentsAssumption DEF Placed, Before
<1>5. Kept' /\ loop' = loop /\ ops <= ops'
    BY DEF AddTorrent, TorrentsInv, Kept, Mishaps, flags, holder
<1>6. \A t \in Torrents : Owes(s, y, t) =>
          Owes(s, th[s], t) \/ (s = t /\ th[s].pc = "none" /\ y.pc # "none")
    BY <1>1, <1>2 DEF Owes
<1>7. QED
    BY <1>1, <1>2, <1>3, <1>4, <1>5, <1>6, Moves

(* The load and the store of Swarm.active.                                 *)
LEMMA ActiveStep ==
    ASSUME TorrentsInv, NEW x \in Threads, LoadActive(x) \/ StoreActive(x)
    PROVE  TorrentsInv'
<1> DEFINE c == IF th[x].pc = "load" THEN "store" ELSE IF x \in Torrents THEN "start" ELSE "remove"
           v == IF th[x].pc = "load" THEN active ELSE 0
           y == [th[x] EXCEPT !.pc = c, !.v = v]
<1>1. th[x] \in ThreadType /\ Placed(x, th[x]) /\ th[x].pc \in {"load", "store"} /\ active \in Int
    BY DEF LoadActive, StoreActive, TorrentsInv, ThreadsInv, Kept
<1>2. /\ v \in Int /\ c \in {"store", "start", "remove"}
      /\ x \in Torrents => c \in Before
      /\ x \notin Torrents => c # "start"
    BY <1>1 DEF Before
<1>3. th' = [th EXCEPT ![x] = y]
    BY <1>1 DEF LoadActive, StoreActive, TorrentsInv, ThreadsInv
<1> HIDE DEF c, v
<1>4. y \in ThreadType /\ y.pc = c /\ y.t = th[x].t
    BY <1>1, <1>2 DEF ThreadType
<1> HIDE DEF y
<1>5. Placed(x, y)
    BY <1>1, <1>2, <1>4 DEF Placed
<1>6. loop' = loop /\ ops' = ops /\ ops <= ops'
    BY DEF LoadActive, StoreActive, TorrentsInv, Kept
<1>7. Kept'
    <2>1. active' \in Int /\ mishap' \subseteq Mishaps
        BY <1>1 DEF LoadActive, StoreActive, TorrentsInv, Kept, Mishaps, ThreadType
    <2>2. QED
        BY <1>6, <2>1 DEF LoadActive, StoreActive, TorrentsInv, Kept, flags, holder
<1>8. \A t \in Torrents : Owes(x, y, t) => Owes(x, th[x], t)
    BY <1>1, <1>2, <1>4 DEF Owes, Before
<1>9. QED
    BY <1>1, <1>2, <1>3, <1>4, <1>5, <1>6, <1>7, <1>8, Moves

(* The rest of startTorrent.                                               *)
LEMMA StartStep ==
    ASSUME TorrentsInv, NEW x \in Threads,
           Start(x) \/ (x \in Torrents /\ (SetCallbacks(x) \/ waitForQueue(x)))
    PROVE  TorrentsInv'
<1>1. loop' = loop /\ ops' = ops /\ Kept'
    <2>1. CASE Start(x)
        BY <2>1 DEF Start, holder, TorrentsInv, Kept
    <2>2. CASE x \in Torrents /\ (SetCallbacks(x) \/ waitForQueue(x))
        BY <2>2 DEF SetCallbacks, waitForQueue, flags, holder, TorrentsInv, Kept
    <2>3. QED
        BY <2>1, <2>2
<1>2. x \in Torrents => x \notin Users
    BY TorrentsAssumption
<1>3. CASE Start(x)
    <2>1. th[x].pc = "start" /\ (Finish(x) \/ Goto(x, "announce"))
        BY <1>3 DEF Start
    <2>2. QED
        BY <1>1, <2>1, Goes, Finishes DEF Before
<1>4. CASE x \in Torrents /\ SetCallbacks(x)
    BY <1>1, <1>2, <1>4, Goes DEF SetCallbacks, Before
<1>5. CASE x \in Torrents /\ waitForQueue(x)
    BY <1>1, <1>2, <1>5, Goes DEF waitForQueue, Before
<1>6. QED
    BY <1>3, <1>4, <1>5

(* A request that stops, deletes or removes a torrent.                     *)
Stopping(u) == Stop(u) \/ Close(u) \/ StopAnnouncing(u) \/ StopHangs(u) \/ Erase(u) \/ RemoveSelf(u)

LEMMA StopKept ==
    ASSUME TorrentsInv, NEW u \in Users, Stopping(u)
    PROVE  loop' = loop /\ ops' = ops /\ seeding' = seeding /\ Kept'
<1>1. CASE Stop(u)
    BY <1>1 DEF Stop, flags, holder, TorrentsInv, Kept
<1>2. CASE Close(u)
    <2>1. started' \in [Torrents -> BOOLEAN] /\ closing' \in [Torrents -> BOOLEAN]
        BY <1>2 DEF Close, TorrentsInv, Kept
    <2>2. mishap' \subseteq Mishaps
        BY <1>2 DEF Close, TorrentsInv, Kept, Mishaps
    <2>3. QED
        BY <1>2, <2>1, <2>2 DEF Close, holder, TorrentsInv, Kept
<1>3. CASE StopAnnouncing(u) \/ StopHangs(u)
    BY <1>3 DEF StopAnnouncing, StopHangs, flags, holder, TorrentsInv, Kept, Mishaps
<1>4. CASE Erase(u)
    BY <1>4 DEF Erase, flags, holder, TorrentsInv, Kept, Mishaps
<1>5. CASE RemoveSelf(u)
    BY <1>5 DEF RemoveSelf, flags, TorrentsInv, Kept, Mishaps
<1>6. QED
    BY <1>1, <1>2, <1>3, <1>4, <1>5 DEF Stopping

Afterwards == {"close", "silence", "hung", "remove", "erase", "load"}

LEMMA StopMoves ==
    ASSUME TorrentsInv, NEW u \in Users, Stopping(u)
    PROVE  /\ th[u].pc \notin {"none", "announce"}
           /\ \/ Finish(u)
              \/ \E c \in Afterwards : Goto(u, c)
              \/ th' = [th EXCEPT ![u].pc = "remove", ![u].op = "drop"]
BY DEF Stopping, Stop, Close, StopAnnouncing, StopHangs, Erase, RemoveSelf, Afterwards

LEMMA StopStep ==
    ASSUME TorrentsInv, NEW u \in Users, Stopping(u)
    PROVE  TorrentsInv'
<1>1. u \in Threads /\ u \notin Torrents
    BY TorrentsAssumption DEF Threads
<1>2. loop' = loop /\ ops' = ops /\ Kept' /\ th[u].pc # "none"
    BY StopKept, StopMoves
<1>3. CASE Finish(u)
    BY <1>1, <1>2, <1>3, Finishes
<1>4. ASSUME NEW c \in Afterwards, Goto(u, c) PROVE TorrentsInv'
    BY <1>1, <1>2, <1>4, Goes DEF Afterwards
<1>5. CASE th' = [th EXCEPT ![u].pc = "remove", ![u].op = "drop"]
    <2> DEFINE y == [th[u] EXCEPT !.pc = "remove", !.op = "drop"]
    <2>1. th \in [Threads -> ThreadType] /\ th[u] \in ThreadType
        BY <1>1 DEF TorrentsInv, ThreadsInv
    <2>2. y \in ThreadType /\ y.pc = "remove" /\ y.t = th[u].t
        BY <2>1 DEF ThreadType, Ops
    <2>3. th' = [th EXCEPT ![u] = y]
        BY <1>1, <1>5, <2>1
    <2> HIDE DEF y
    <2>4. QED
        BY <1>1, <1>2, <2>2, <2>3, GoesTo
<1>6. QED
    BY <1>3, <1>4, <1>5, StopMoves

LEMMA TorrentsStep == TorrentsInv /\ [Next]_vars => TorrentsInv'
<1> SUFFICES ASSUME TorrentsInv, [Next]_vars PROVE TorrentsInv'
    OBVIOUS
<1>1. ASSUME NEW x \in Threads, ThreadStep(x) PROVE TorrentsInv'
    BY <1>1, ActiveStep, StartStep, StartRunLoops, StopStep DEF ThreadStep, Stopping
<1>2. CASE UNCHANGED vars
    <2>1. Kept' /\ ThreadsInv'
        BY <1>2 DEF vars, TorrentsInv, Kept, ThreadsInv
    <2>2. \A t \in Torrents : Owing(t)' = Owing(t) /\ Loops(t)' = Loops(t) /\ Allowed(t)' = Allowed(t)
        BY <1>2 DEF vars, Owing, Loops, Allowed
    <2>3. LoopsInv'
        BY <1>2, <2>2 DEF vars, TorrentsInv, LoopsInv
    <2>4. QED
        BY <2>1, <2>3 DEF TorrentsInv
<1>3. CASE Next
    BY <1>1, <1>3, AddTorrentStep, RunLoopsStep, RequestStep DEF Next, Request
<1>4. QED
    BY <1>2, <1>3

-----------------------------------------------------------------------------
(* An open torrent is run.                                                 *)

Announcing(t) == \E x \in Threads : th[x].pc = "announce" /\ th[x].t = t
(* "Already started" is found only of a torrent that is run as well.       *)
OpenOf(t) ==
    ~closing[t] /\ (started[t] \/ th[t].pc = "end") => Running(t) \/ seeding[t] \/ Announcing(t)
OpenInv == \A t \in Torrents : OpenOf(t)

LEMMA OpenInit == Init => OpenInv
BY DEF Init, OpenInv, OpenOf, Resting, Threads

(* A step of goroutine x that neither opens, starts nor runs t.            *)
LEMMA OpenStays ==
    ASSUME NEW t \in Torrents, OpenOf(t), NEW x \in Threads,
           \A z \in Threads \ {x} : th'[z] = th[z],
           th[x].pc = "announce" => th[x].t # t,
           t = x /\ th'[t].pc = "end" => th[t].pc = "end" \/ started[t],
           closing'[t] = closing[t] \/ closing'[t] = TRUE,
           started'[t] => started[t], seeding'[t] = seeding[t], loop'[t] = loop[t]
    PROVE  OpenOf(t)'
<1>1. Announcing(t) => Announcing(t)'
    BY DEF Announcing
<1>2. Running(t)' <=> Running(t)
    BY DEF Running
<1>3. th'[t].pc = "end" => th[t].pc = "end" \/ started[t]
    BY DEF Threads
<1>4. QED
    BY <1>1, <1>2, <1>3 DEF OpenOf

(* A goroutine that adds, queues, counts, requests or stops.               *)
LEMMA OpenOthers ==
    ASSUME OpenInv, NEW x \in Threads, \A z \in Threads \ {x} : th'[z] = th[z],
           th[x].pc # "announce", x \in Torrents => th'[x].pc # "end" \/ th[x].pc = "end",
           \A t \in Torrents : closing'[t] = closing[t] \/ closing'[t] = TRUE,
           \A t \in Torrents : started'[t] => started[t], seeding' = seeding, loop' = loop
    PROVE  OpenInv'
BY OpenStays DEF OpenInv

LEMMA GoesFacts ==
    ASSUME TorrentsInv, NEW x \in Threads, NEW c, Goto(x, c)
    PROVE  /\ th'[x].pc = c /\ th'[x].t = th[x].t
           /\ \A z \in Threads \ {x} : th'[z] = th[z]
<1>1. th \in [Threads -> ThreadType] /\ th[x] \in ThreadType
    BY DEF TorrentsInv, ThreadsInv
<1>2. th'[x] = [th[x] EXCEPT !.pc = c] /\ \A z \in Threads \ {x} : th'[z] = th[z]
    BY <1>1 DEF Goto
<1>3. QED
    BY <1>1, <1>2 DEF ThreadType

LEMMA EndsFacts ==
    ASSUME TorrentsInv, NEW x \in Threads, Finish(x)
    PROVE  \A z \in Threads \ {x} : th'[z] = th[z]
BY DEF TorrentsInv, ThreadsInv, Finish

(* Torrent.Start, and the run goroutine that follows.                      *)
LEMMA OpenStart ==
    ASSUME TorrentsInv, OpenInv, NEW x \in Threads, Start(x) \/ StartRun(x)
    PROVE  OpenInv'
<1>1. PICK s \in Torrents :
         s = th[x].t /\ (x \in Torrents => x = s) /\ th[x].pc \in {"start", "announce"}
    BY DEF Start, StartRun, TorrentsInv, ThreadsInv, Placed, Threads
<1>2. CASE Start(x) /\ started[s]
    <2>1. /\ Finish(x) /\ th[x].pc = "start"
          /\ UNCHANGED <<closing, started, seeding, loop>>
        BY <1>1, <1>2 DEF Start
    <2>2. \A z \in Threads \ {x} : th'[z] = th[z]
        BY <2>1, EndsFacts
    <2>3. \A t \in Torrents : t = x => started[t]
        BY <1>1, <1>2
    <2>4. QED
        BY <2>1, <2>2, <2>3, OpenStays DEF OpenInv
<1>3. CASE Start(x) /\ ~started[s]
    <2>1. /\ Goto(x, "announce") /\ th[x].pc = "start" /\ closing' = [closing EXCEPT ![s] = FALSE]
          /\ UNCHANGED <<started, seeding, loop>>
        BY <1>1, <1>3 DEF Start
    <2>2. th'[x].pc = "announce" /\ th'[x].t = s /\ \A z \in Threads \ {x} : th'[z] = th[z]
        BY <1>1, <2>1, GoesFacts
    <2>3. \A t \in Torrents \ {s} : closing'[t] = closing[t]
        BY <2>1 DEF TorrentsInv, Kept
    <2>4. \A t \in Torrents \ {s} : OpenOf(t)'
        BY <1>1, <2>1, <2>2, <2>3, OpenStays DEF OpenInv
    <2>5. OpenOf(s)'
        BY <2>2 DEF OpenOf, Announcing
    <2>6. QED
        BY <2>4, <2>5 DEF OpenInv
<1>4. CASE StartRun(x)
    <2>1. /\ Finish(x) /\ loop' = [loop EXCEPT ![s]["spawned"] = @ + 1]
          /\ UNCHANGED <<closing, started, seeding>>
        BY <1>1, <1>4 DEF StartRun, flags
    <2>2. \A z \in Threads \ {x} : th'[z] = th[z]
        BY <2>1, EndsFacts
    <2>3. /\ \A t \in Torrents \ {s} : loop'[t] = loop[t]
          /\ loop'[s]["spawned"] = loop[s]["spawned"] + 1
        BY <1>1, <2>1 DEF TorrentsInv, LoopsInv, LoopStates
    <2>4. \A t \in Torrents \ {s} : OpenOf(t)'
        BY <1>1, <2>1, <2>2, <2>3, OpenStays DEF OpenInv
    <2>5. Running(s)'
        BY <1>1, <2>3, LoopsFacts DEF Running, LoopStates
    <2>6. OpenOf(s)'
        BY <2>5 DEF OpenOf
    <2>7. QED
        BY <2>4, <2>6 DEF OpenInv
<1>5. QED
    BY <1>2, <1>3, <1>4

(* Torrent.run.                                                            *)
LEMMA OpenLoop ==
    ASSUME TorrentsInv, OpenInv, NEW s \in Torrents, LoopStep(s)
    PROVE  OpenInv'
<1>1. /\ loop[s]["spawned"] \in Nat /\ loop[s]["on"] \in Nat /\ loop[s]["seed"] \in Nat
      /\ loop \in [Torrents -> [LoopStates -> Nat]]
    BY LoopsFacts DEF TorrentsInv, LoopsInv
<1>2. /\ th' = th /\ closing' = closing
      /\ \A t \in Torrents \ {s} :
            loop'[t] = loop[t] /\ started'[t] = started[t] /\ seeding'[t] = seeding[t]
      /\ \/ loop'[s]["on"] > 0 \/ loop'[s]["seed"] > 0
         \/ started' = started /\ seeding' = seeding /\ (closing[s] \/ seeding[s])
    <2>1. CASE RunStarts(s)
        BY <1>1, <2>1 DEF RunStarts, LoopStates, TorrentsInv, Kept
    <2>2. CASE RunEnds(s)
        BY <1>1, <2>2 DEF RunEnds, LoopStates, flags
    <2>3. CASE SeedBegins(s)
        BY <1>1, <2>3 DEF SeedBegins, LoopStates, flags
    <2>4. CASE SeedReturns(s)
        BY <1>1, <2>4 DEF SeedReturns, LoopStates, TorrentsInv, Kept
    <2>5. QED
        BY <2>1, <2>2, <2>3, <2>4 DEF LoopStep
<1>3. ASSUME NEW t \in Torrents \ {s} PROVE OpenOf(t)'
    <2>1. OpenOf(t)
        BY DEF OpenInv
    <2>2. QED
        BY <1>2, <1>3, <2>1 DEF OpenOf, Announcing, Running
<1>4. OpenOf(s)'
    <2>1. CASE loop'[s]["on"] > 0 \/ loop'[s]["seed"] > 0
        BY <2>1 DEF OpenOf, Running, LoopStates
    <2>2. CASE started' = started /\ seeding' = seeding /\ (closing[s] \/ seeding[s])
        BY <1>2, <2>2 DEF OpenOf
    <2>3. QED
        BY <1>2, <2>1, <2>2
<1>5. QED
    BY <1>3, <1>4 DEF OpenInv

(* Requests and stops.                                                     *)
LEMMA OpenStop ==
    ASSUME TorrentsInv, OpenInv, NEW u \in Users, Stopping(u)
    PROVE  OpenInv'
<1>1. u \in Threads /\ u \notin Torrents /\ th[u].pc # "announce"
    BY StopMoves, TorrentsAssumption DEF Threads
<1>2. seeding' = seeding /\ loop' = loop
    BY StopKept
<1>3. \A z \in Threads \ {u} : th'[z] = th[z]
    <2>1. th \in [Threads -> ThreadType]
        BY DEF TorrentsInv, ThreadsInv
    <2>2. QED
        BY <1>1, <2>1, StopMoves, GoesFacts, EndsFacts
<1>4. \A t \in Torrents : /\ closing'[t] = closing[t] \/ closing'[t] = TRUE
                          /\ started'[t] => started[t]
    <2>1. CASE Close(u)
        BY <2>1 DEF Close, TorrentsInv, Kept
    <2>2. CASE ~Close(u)
        BY <2>2 DEF Stopping, Stop, StopAnnouncing, StopHangs, Erase, RemoveSelf, flags
    <2>3. QED
        BY <2>1, <2>2
<1>5. QED
    BY <1>1, <1>2, <1>3, <1>4, OpenOthers

LEMMA OpenRequest ==
    ASSUME TorrentsInv, OpenInv, NEW u \in Users, Request(u)
    PROVE  OpenInv'
<1>1. u \in Threads /\ u \notin Torrents
    BY TorrentsAssumption DEF Threads
<1>2. /\ th[u].pc = "none" /\ UNCHANGED <<started, closing, seeding, loop>>
      /\ th' = th \/ \E y : th' = [th EXCEPT ![u] = y]
    BY DEF Request, HolderClose, ChangeTorrent, flags
<1>3. \A z \in Threads \ {u} : th'[z] = th[z]
    BY <1>2 DEF TorrentsInv, ThreadsInv
<1>4. QED
    BY <1>1, <1>2, <1>3, OpenOthers

(* The other steps of a torrent's own goroutine.                           *)
LEMMA OpenAdd ==
    ASSUME TorrentsInv, OpenInv, NEW x \in Threads,
           \/ LoadActive(x) \/ StoreActive(x)
           \/ x \in Torrents /\ (AddTorrent(x) \/ SetCallbacks(x) \/ waitForQueue(x))
    PROVE  OpenInv'
<1>1. th \in [Threads -> ThreadType] /\ th[x] \in ThreadType
    BY DEF TorrentsInv, ThreadsInv
<1>2. /\ th[x].pc \in {"none", "spawned", "queue", "load", "store"}
      /\ UNCHANGED <<started, closing, seeding, loop>>
    BY DEF LoadActive, StoreActive, AddTorrent, SetCallbacks, waitForQueue, flags
<1>3. (\A z \in Threads \ {x} : th'[z] = th[z]) /\ th'[x].pc # "end"
    <2>1. CASE LoadActive(x)
        BY <1>1, <2>1 DEF LoadActive, ThreadType
    <2>2. CASE StoreActive(x)
        BY <1>1, <2>2 DEF StoreActive, ThreadType
    <2>3. CASE AddTorrent(x)
        BY <1>1, <1>2, <2>3 DEF AddTorrent, ThreadType
    <2>4. CASE SetCallbacks(x) \/ waitForQueue(x)
        BY <2>4, GoesFacts DEF SetCallbacks, waitForQueue
    <2>5. QED
        BY <2>1, <2>2, <2>3, <2>4
<1>4. QED
    BY <1>2, <1>3, OpenOthers

LEMMA OpenStep == TorrentsInv /\ OpenInv /\ [Next]_vars => OpenInv'
<1> SUFFICES ASSUME TorrentsInv, OpenInv, [Next]_vars PROVE OpenInv'
    OBVIOUS
<1>1. ASSUME NEW x \in Threads, ThreadStep(x) PROVE OpenInv'
    BY <1>1, OpenStart, OpenAdd, OpenStop DEF ThreadStep, Stopping
<1>2. ASSUME NEW t \in Torrents, AddTorrent(t) PROVE OpenInv'
    BY <1>2, OpenAdd DEF Threads
<1>3. CASE UNCHANGED vars
    BY <1>3 DEF vars, OpenInv, OpenOf, Announcing, Running
<1>4. QED
    BY <1>1, <1>2, <1>3, OpenLoop, OpenRequest DEF Next

-----------------------------------------------------------------------------
(* Announces.                                                              *)

(* Nobody but the run loop, in AnnounceSeed, is about to announce.         *)
Quiet == \A x \in A!Threads \ {A!SeedThread} : pc[x] # "net" /\ (pc[x] = "lock" => ~due)

(* Only the holder of the lock is past it, a torrent that is not on has no *)
(* ticker, a stop that is under way has not come to its end, and after it  *)
(* a.next is in the future for all that wait, unless it passed meanwhile   *)
(* or there is nobody that could announce.                                 *)
SilentInv ==
    /\ life # "on" => ticker = None
    /\ \A n \in A!Starts : pc[A!Poll(n)] = "tick" => reads[n] \in A!Starts
    /\ \A x \in A!Threads : pc[x] \in {"net", "send", "peers", "hung"} => lock = x
    /\ pc[A!StopThread] # "peers"
    /\ life = "off" => pc[A!StopThread] = "off"
    /\ life \in {"stopping", "off"} /\ pc[A!StopThread] = "off" => Quiet \/ hasty \/ ~numeric

AnnounceInv == A!TypeOK /\ SilentInv

LEMMA AnnounceNames ==
    /\ A!StopThread \in A!Threads /\ A!SeedThread \in A!Threads /\ A!SeedThread # A!StopThread
    /\ \A n \in A!Starts : /\ A!Begin(n) \in A!Threads /\ A!Poll(n) \in A!Threads
                           /\ A!Begin(n) # A!StopThread /\ A!Poll(n) # A!StopThread
                           /\ n # None /\ n \in Nat
    /\ \A m, n \in A!Starts : /\ A!Begin(m) # A!Poll(n)
                              /\ A!Poll(m) = A!Poll(n) => m = n
    /\ \A x \in A!Threads : x # None
<1>1. None \notin A!Threads /\ None \notin Nat /\ MaxStarts \in Nat
    BY AnnounceAssumption
<1>2. \A n \in A!Starts : n \in Nat
    BY <1>1 DEF A!Starts
<1>3. QED
    BY <1>1, <1>2 DEF A!Threads, A!Begin, A!Poll, A!StopThread, A!SeedThread

LEMMA AnnounceInit == A!Init => AnnounceInv
<1> SUFFICES ASSUME A!Init PROVE AnnounceInv
    OBVIOUS
<1>1. {due, numeric, hasty, dead} \subseteq BOOLEAN
    <2>1. due \in BOOLEAN /\ dead \in BOOLEAN /\ hasty \in BOOLEAN
        BY Zenon DEF A!Init
    <2>2. QED
        BY <2>1, Zenon DEF A!Init
<1>2. A!TypeOK
    BY <1>1, AnnounceAssumption DEF A!Init, A!TypeOK
<1>3. SilentInv
    BY AnnounceNames DEF A!Init, SilentInv, Quiet
<1>4. QED
    BY <1>2, <1>3 DEF AnnounceInv

(* The steps of the goroutines, and how they change pc.                    *)
LEMMA AnnounceSteps ==
    ASSUME A!TypeOK, A!Next
    PROVE  /\ \/ pc' = pc
              \/ \E x \in A!Threads, c \in {"off", "top", "read", "tick", "lock", "net", "send",
                                             "peers", "hung"} : pc' = [pc EXCEPT ![x] = c]
              \/ \E n \in A!Starts :
                    pc' = [pc EXCEPT ![A!Begin(n)] = "lock", ![A!Poll(n)] = "top"]
           /\ reads' = reads
                \/ \E n \in A!Starts, k \in {None, ticker} : reads' = [reads EXCEPT ![n] = k]
           /\ lock' = lock \/ lock' \in {None} \union A!Threads
<1>1. ASSUME NEW x PROVE \E c \in {"off", "top"} : A!Done(x) = [pc EXCEPT ![x] = c]
    BY DEF A!Done
<1>2. CASE A!StartAnnouncing
    <2>1. starts' \in A!Starts
        BY <1>2, AnnounceAssumption DEF A!StartAnnouncing, A!TypeOK, A!Starts
    <2>2. QED
        BY <1>2, <2>1 DEF A!StartAnnouncing
<1>3. CASE A!StopAnnouncing \/ A!DropAnnouncing \/ A!Stopped \/ A!AnnounceSeed
    BY <1>3, AnnounceNames DEF A!StopAnnouncing, A!DropAnnouncing, A!Stopped, A!AnnounceSeed
<1>4. ASSUME NEW n \in A!Starts, A!PollStep(n)
      PROVE  /\ reads' = reads \/ \E k \in {None, ticker} : reads' = [reads EXCEPT ![n] = k]
             /\ pc' = pc
                  \/ \E c \in {"off", "read", "tick", "lock", "top"} :
                        pc' = [pc EXCEPT ![A!Poll(n)] = c]
             /\ lock' = lock
    BY <1>4 DEF A!PollStep, A!PollTop, A!PollRead, A!PollTick
<1>5. ASSUME NEW x \in A!Threads, A!tryAnnounce(x) \/ A!HolderStep(x) \/ A!Hang(x)
      PROVE  /\ reads' = reads /\ lock' \in {lock, None, x}
             /\ \E c \in {"off", "top", "net", "send", "peers", "hung"} : pc' = [pc EXCEPT ![x] = c]
    BY <1>1, <1>5 DEF A!tryAnnounce, A!HolderStep, A!Network, A!PortFails, A!Announced, A!addPeers, A!Hang
<1>6. CASE A!NextPasses
    BY <1>6 DEF A!NextPasses
<1>7. CASE \E n \in A!Starts : A!PollStep(n)
    BY <1>4, <1>7, AnnounceNames
<1>8. CASE \E x \in A!Threads : A!tryAnnounce(x) \/ A!HolderStep(x) \/ A!Hang(x)
    BY <1>5, <1>8
<1>9. QED
    BY <1>2, <1>3, <1>6, <1>7, <1>8 DEF A!Next

LEMMA AnnounceTyped ==
    ASSUME A!TypeOK, A!Next PROVE A!TypeOK'
<1>1. pc' \in [A!Threads -> {"off", "top", "read", "tick", "lock", "net", "send", "peers", "hung"}]
    BY AnnounceSteps DEF A!TypeOK
<1>2. reads' \in [A!Starts -> {None} \union A!Starts]
    BY AnnounceSteps DEF A!TypeOK
<1>3. lock' \in {None} \union A!Threads
    BY AnnounceSteps DEF A!TypeOK
<1>4. /\ life' \in {"off", "on", "stopping", "dropped"} /\ ticker' \in {None} \union A!Starts
      /\ starts' \in 0 .. MaxStarts /\ calls' \in 0 .. MaxCalls
    <2>1. CASE A!StartAnnouncing
        BY <2>1, AnnounceAssumption DEF A!StartAnnouncing, A!TypeOK, A!Starts
    <2>2. CASE A!StopAnnouncing \/ A!DropAnnouncing \/ A!Stopped \/ A!AnnounceSeed
        BY <2>2, AnnounceAssumption DEF A!StopAnnouncing, A!DropAnnouncing, A!Stopped,
            A!AnnounceSeed, A!TypeOK, A!env
    <2>3. ASSUME NEW n, A!PollStep(n) PROVE UNCHANGED <<life, ticker, starts, calls>>
        BY <2>3 DEF A!PollStep, A!PollTop, A!PollRead, A!PollTick, A!env
    <2>4. ASSUME NEW x, A!tryAnnounce(x) \/ A!HolderStep(x) \/ A!Hang(x)
          PROVE  UNCHANGED <<life, ticker, starts, calls>>
        BY <2>4 DEF A!tryAnnounce, A!HolderStep, A!Network, A!PortFails, A!Announced, A!addPeers, A!Hang, A!env
    <2>5. CASE A!NextPasses
        BY <2>5 DEF A!NextPasses, A!TypeOK, A!env
    <2>6. QED
        BY <2>1, <2>2, <2>3, <2>4, <2>5 DEF A!Next, A!TypeOK
<1>5. {due, numeric, hasty, dead}' \subseteq BOOLEAN
    <2>1. ASSUME NEW n, A!PollStep(n)
          PROVE  UNCHANGED <<due, numeric, hasty>> /\ (dead' = dead \/ dead' = TRUE)
        BY <2>1 DEF A!PollStep, A!PollTop, A!PollRead, A!PollTick, A!env
    <2>2. ASSUME NEW x, A!tryAnnounce(x) \/ A!HolderStep(x) \/ A!Hang(x)
          PROVE  /\ UNCHANGED <<numeric, dead>> /\ (due' = due \/ due' \in BOOLEAN)
                 /\ hasty' = hasty \/ hasty' \in BOOLEAN
        <3>1. CASE A!Announced(x)
            <4>1. hasty' \in BOOLEAN
                BY <3>1, Zenon DEF A!Announced
            <4>2. QED
                BY <3>1, <4>1 DEF A!Announced
        <3>2. CASE A!tryAnnounce(x) \/ A!Network(x) \/ A!PortFails(x) \/ A!addPeers(x) \/ A!Hang(x)
            BY <3>2 DEF A!tryAnnounce, A!Network, A!PortFails, A!addPeers, A!Hang, A!env
        <3>3. QED
            BY <2>2, <3>1, <3>2 DEF A!HolderStep
    <2>3. due \in BOOLEAN /\ numeric \in BOOLEAN /\ hasty \in BOOLEAN /\ dead \in BOOLEAN
        BY DEF A!TypeOK
    <2>4. CASE A!NextPasses
        <3>1. hasty' \in BOOLEAN
            BY <2>4, Zenon DEF A!NextPasses
        <3>2. QED
            BY <2>3, <2>4, <3>1 DEF A!NextPasses
    <2>5. CASE ~A!NextPasses
        <3>1. /\ due' = due \/ due' \in BOOLEAN
              /\ numeric' = numeric
              /\ hasty' = hasty \/ hasty' \in BOOLEAN
              /\ dead' = dead \/ dead' = TRUE
            BY <2>1, <2>2, <2>5 DEF A!Next, A!StartAnnouncing, A!StopAnnouncing, A!DropAnnouncing,
                A!Stopped, A!AnnounceSeed, A!env
        <3>2. due' \in BOOLEAN /\ numeric' \in BOOLEAN /\ hasty' \in BOOLEAN /\ dead' \in BOOLEAN
            BY <2>3, <3>1, Zenon
        <3>3. QED
            BY <3>2
    <2>6. QED
        BY <2>4, <2>5
<1>6. QED
    BY <1>1, <1>2, <1>3, <1>4, <1>5 DEF A!TypeOK

LEMMA SilentStarts ==
    ASSUME AnnounceInv,
           \/ A!StartAnnouncing \/ A!StopAnnouncing \/ A!DropAnnouncing
           \/ A!Stopped \/ A!AnnounceSeed
    PROVE  SilentInv'
<1>1. /\ pc \in [A!Threads -> {"off", "top", "read", "tick", "lock", "net", "send", "peers", "hung"}]
      /\ SilentInv
    BY DEF AnnounceInv, A!TypeOK
<1>2. CASE A!StartAnnouncing
    <2>1. starts' \in A!Starts
        BY <1>2, AnnounceAssumption DEF A!StartAnnouncing, AnnounceInv, A!TypeOK, A!Starts
    <2>2. /\ life' = "on" /\ reads' = reads /\ lock' = lock
          /\ pc'[A!Begin(starts')] = "lock" /\ pc'[A!Poll(starts')] = "top"
          /\ \A x \in A!Threads \ {A!Begin(starts'), A!Poll(starts')} : pc'[x] = pc[x]
        BY <1>1, <1>2, <2>1, AnnounceNames DEF A!StartAnnouncing
    <2>3. pc'[A!StopThread] = pc[A!StopThread]
        BY <2>1, <2>2, AnnounceNames
    <2>4. \A x \in A!Threads : pc'[x] \in {"net", "send", "peers", "hung"} => lock' = x
        BY <1>1, <2>2 DEF SilentInv
    <2>5. \A n \in A!Starts : pc'[A!Poll(n)] = "tick" => reads'[n] \in A!Starts
        BY <1>1, <2>2, AnnounceNames DEF SilentInv
    <2>6. QED
        BY <1>1, <2>2, <2>3, <2>4, <2>5 DEF SilentInv
<1>3. CASE A!StopAnnouncing
    <2>1. /\ life' = "stopping" /\ ticker' = None /\ reads' = reads /\ lock' = lock
          /\ pc'[A!StopThread] = "lock"
          /\ \A x \in A!Threads \ {A!StopThread} : pc'[x] = pc[x]
        BY <1>1, <1>3, AnnounceNames DEF A!StopAnnouncing
    <2>2. QED
        BY <1>1, <2>1, AnnounceNames DEF SilentInv
<1>4. CASE A!Stopped \/ A!DropAnnouncing
    BY <1>1, <1>4 DEF A!Stopped, A!DropAnnouncing, A!env, SilentInv, Quiet
<1>5. CASE A!AnnounceSeed
    <2>1. /\ UNCHANGED <<life, ticker, reads, lock, due, numeric, hasty>>
          /\ pc'[A!SeedThread] = "lock"
          /\ \A x \in A!Threads \ {A!SeedThread} : pc'[x] = pc[x]
        BY <1>1, <1>5, AnnounceNames DEF A!AnnounceSeed
    <2>2. \A n \in A!Starts : A!Poll(n) # A!SeedThread
        BY DEF A!Poll, A!SeedThread
    <2>3. \A x \in A!Threads : pc'[x] \in {"net", "send", "peers", "hung"} => lock' = x
        BY <1>1, <2>1 DEF SilentInv
    <2>4. Quiet => Quiet'
        BY <2>1 DEF Quiet
    <2>5. QED
        BY <1>1, <2>1, <2>2, <2>3, <2>4, AnnounceNames DEF SilentInv
<1>6. QED
    BY <1>2, <1>3, <1>4, <1>5

LEMMA SilentPolls ==
    ASSUME AnnounceInv, NEW m \in A!Starts, A!PollStep(m)
    PROVE  SilentInv'
<1>1. /\ pc \in [A!Threads -> {"off", "top", "read", "tick", "lock", "net", "send", "peers", "hung"}]
      /\ reads \in [A!Starts -> {None} \union A!Starts] /\ ticker \in {None} \union A!Starts
      /\ SilentInv
    BY DEF AnnounceInv, A!TypeOK
<1>2. UNCHANGED <<life, ticker, lock, due, numeric, hasty>> /\ A!Poll(m) \in A!Threads /\ A!Poll(m) # A!StopThread
    BY AnnounceNames DEF A!PollStep, A!PollTop, A!PollRead, A!PollTick, A!env
<1>3. /\ pc'[A!Poll(m)] \in {"off", "read", "tick", "lock", "top"}
      /\ \A x \in A!Threads \ {A!Poll(m)} : pc'[x] = pc[x]
      /\ pc'[A!Poll(m)] = "lock" => due /\ life = "on"
      /\ pc'[A!Poll(m)] = "tick" => reads'[m] \in A!Starts
      /\ \A n \in A!Starts \ {m} : reads'[n] = reads[n]
    <2>1. CASE A!PollTop(m)
        BY <1>1, <1>2, <2>1 DEF A!PollTop
    <2>2. CASE A!PollRead(m)
        BY <1>1, <1>2, <2>2 DEF A!PollRead
    <2>3. CASE A!PollTick(m)
        <3>1. reads[m] # None
            BY <1>1, <2>3, AnnounceNames DEF A!PollTick, SilentInv
        <3>2. QED
            BY <1>1, <1>2, <2>3, <3>1 DEF A!PollTick, SilentInv
    <2>4. QED
        BY <2>1, <2>2, <2>3 DEF A!PollStep
<1>4. \A x \in A!Threads : pc'[x] \in {"net", "send", "peers", "hung"} => lock' = x
    BY <1>1, <1>2, <1>3 DEF SilentInv
<1>5. \A n \in A!Starts : pc'[A!Poll(n)] = "tick" => reads'[n] \in A!Starts
    BY <1>1, <1>3, AnnounceNames DEF SilentInv
<1>6. life # "on" /\ Quiet => Quiet'
    BY <1>2, <1>3 DEF Quiet
<1>7. QED
    BY <1>1, <1>2, <1>3, <1>4, <1>5, <1>6, AnnounceNames DEF SilentInv

LEMMA SilentAnnounces ==
    ASSUME AnnounceInv, NEW x \in A!Threads, A!tryAnnounce(x) \/ A!HolderStep(x) \/ A!Hang(x)
    PROVE  SilentInv'
<1>1. /\ pc \in [A!Threads -> {"off", "top", "read", "tick", "lock", "net", "send", "peers", "hung"}]
      /\ SilentInv
    BY DEF AnnounceInv, A!TypeOK
<1>2. UNCHANGED <<life, ticker, reads, numeric>>
    BY DEF A!tryAnnounce, A!HolderStep, A!Network, A!PortFails, A!Announced, A!addPeers, A!Hang,
        A!env
<1>3. /\ \A y \in A!Threads \ {x} : pc'[y] = pc[y]
      /\ pc'[x] \in {"off", "top", "net", "send", "peers", "hung"}
    BY <1>1 DEF A!tryAnnounce, A!HolderStep, A!Network, A!PortFails, A!Announced, A!addPeers, A!Hang, A!Done
<1>4. \A y \in A!Threads : pc'[y] \in {"net", "send", "peers", "hung"} => lock' = y
    <2>1. CASE A!tryAnnounce(x)
        BY <1>1, <1>3, <2>1, AnnounceNames DEF A!tryAnnounce, A!Done, SilentInv
    <2>2. CASE A!HolderStep(x) \/ A!Hang(x)
        <3>1. lock = x /\ \A y \in A!Threads \ {x} : pc'[y] \notin {"net", "send", "peers", "hung"}
            BY <1>1, <1>3, <2>2 DEF A!HolderStep, A!Network, A!PortFails, A!Announced, A!addPeers, A!Hang, SilentInv
        <3>2. lock' = x \/ pc'[x] \in {"off", "top"}
            BY <1>1, <2>2, <3>1 DEF A!HolderStep, A!Network, A!PortFails, A!Announced, A!addPeers, A!Hang, A!Done
        <3>3. QED
            BY <3>1, <3>2
    <2>3. QED
        BY <2>1, <2>2
<1>5. x = A!StopThread => pc[x] # "off" /\ pc'[x] # "peers"
    BY <1>1 DEF A!tryAnnounce, A!HolderStep, A!Network, A!PortFails, A!Announced, A!addPeers, A!Hang, A!Done,
        SilentInv
<1>6. ASSUME life \in {"stopping", "off"}, pc'[A!StopThread] = "off", ~hasty', numeric
      PROVE  Quiet'
    <2>1. CASE A!tryAnnounce(x)
        <3>1. /\ lock = None /\ \A y \in A!Threads : pc[y] # "net"
              /\ hasty' = hasty /\ due' = due /\ (due <=> pc'[x] = "net") /\ pc'[x] # "lock"
            BY <1>1, <2>1, AnnounceNames DEF A!tryAnnounce, A!Done, A!env, SilentInv
        <3>2. CASE x = A!StopThread
            BY <1>3, <1>6, <3>1, <3>2 DEF Quiet
        <3>3. CASE x # A!StopThread
            <4>1. pc[A!StopThread] = "off" /\ Quiet
                BY <1>1, <1>3, <1>6, <3>1, <3>3, AnnounceNames DEF SilentInv
            <4>2. QED
                BY <1>3, <2>1, <3>1, <4>1 DEF Quiet, A!tryAnnounce
        <3>4. QED
            BY <3>2, <3>3
    <2>2. CASE A!HolderStep(x) \/ A!Hang(x)
        <3>1. /\ pc'[x] \in {"off", "top", "send", "peers", "hung"} /\ pc[x] # "lock"
              /\ \A y \in A!Threads \ {x} : pc[y] # "net"
            BY <1>1, <2>2 DEF A!HolderStep, A!Network, A!PortFails, A!Announced, A!addPeers, A!Hang,
                A!Done, SilentInv
        <3>2. due' => due \/ A!Announced(x)
            BY <2>2 DEF A!HolderStep, A!Network, A!PortFails, A!addPeers, A!Hang
        <3>3. CASE A!Announced(x)
            <4>1. due' => ~A!Overtaken
                BY <1>6, <3>3 DEF A!Announced
            <4>2. pc[A!StopThread] # "lock" /\ life # "on"
                BY <1>1, <1>3, <1>6, <3>3, AnnounceNames DEF A!Announced
            <4>3. due' => \A y \in A!Threads \ {A!SeedThread} : pc[y] # "lock"
                BY <4>1, <4>2 DEF A!Overtaken
            <4>4. QED
                BY <1>3, <3>1, <4>3 DEF Quiet
        <3>4. CASE ~A!Announced(x)
            <4>1. x # A!StopThread
                BY <1>1, <1>3, <1>6, <2>2, <3>4 DEF A!HolderStep, A!Network, A!PortFails,
                    A!addPeers, A!Hang, SilentInv
            <4>2. hasty' = hasty
                BY <2>2, <3>4 DEF A!HolderStep, A!Network, A!PortFails, A!addPeers, A!Hang, A!env
            <4>3. pc[A!StopThread] = "off" /\ Quiet
                BY <1>1, <1>3, <1>6, <4>1, <4>2, AnnounceNames DEF SilentInv
            <4>4. QED
                BY <1>3, <3>1, <3>2, <3>4, <4>3 DEF Quiet
        <3>5. QED
            BY <3>3, <3>4
    <2>3. QED
        BY <2>1, <2>2
<1>7. \A n \in A!Starts : pc'[A!Poll(n)] = "tick" => reads'[n] \in A!Starts
    BY <1>1, <1>2, <1>3, AnnounceNames DEF SilentInv
<1>8. life = "off" => pc'[A!StopThread] = "off"
    BY <1>1, <1>3, <1>5, AnnounceNames DEF SilentInv
<1>9. pc'[A!StopThread] # "peers"
    BY <1>1, <1>3, <1>5, AnnounceNames DEF SilentInv
<1>10. QED
    BY <1>1, <1>2, <1>4, <1>6, <1>7, <1>8, <1>9 DEF SilentInv

LEMMA AnnounceStep == AnnounceInv /\ [A!Next]_A!vars => AnnounceInv'
<1> SUFFICES ASSUME AnnounceInv, [A!Next]_A!vars PROVE AnnounceInv'
    OBVIOUS
<1>1. CASE A!Next
    <2>1. ASSUME A!NextPasses PROVE SilentInv'
        <3>1. UNCHANGED <<life, ticker, reads, pc, lock, numeric>>
            BY <2>1 DEF A!NextPasses
        <3>2. ASSUME life \in {"stopping", "off"}, pc[A!StopThread] = "off", ~hasty', numeric
              PROVE  Quiet'
            <4>1. ~A!Overtaken /\ ~hasty
                BY <2>1, <3>2 DEF A!NextPasses
            <4>2. Quiet
                BY <3>2, <4>1 DEF AnnounceInv, SilentInv
            <4>3. \A x \in A!Threads \ {A!SeedThread} : pc[x] # "lock"
                BY <3>2, <4>1 DEF A!Overtaken
            <4>4. QED
                BY <3>1, <4>2, <4>3 DEF Quiet
        <3>3. QED
            BY <3>1, <3>2 DEF AnnounceInv, SilentInv
    <2>2. SilentInv'
        BY <1>1, <2>1, SilentStarts, SilentPolls, SilentAnnounces DEF A!Next
    <2>3. QED
        BY <1>1, <2>2, AnnounceTyped DEF AnnounceInv
<1>2. CASE UNCHANGED A!vars
    <2>1. A!TypeOK'
        BY <1>2, Zenon DEF A!vars, AnnounceInv, A!TypeOK
    <2>2. SilentInv'
        BY <1>2 DEF A!vars, AnnounceInv, SilentInv, Quiet
    <2>3. QED
        BY <2>1, <2>2 DEF AnnounceInv
<1>3. QED
    BY <1>1, <1>2

LEMMA SilentStep ==
    ASSUME AnnounceInv, [A!Next]_A!vars,
           NEW x \in A!Threads \ {A!SeedThread}, pc[x] # "send", pc'[x] = "send"
    PROVE  life # "off" \/ hasty
<1>1. /\ pc \in [A!Threads -> {"off", "top", "read", "tick", "lock", "net", "send", "peers", "hung"}]
      /\ A!Next
    BY DEF A!vars, AnnounceInv, A!TypeOK
<1>2. A!Network(x)
    <2>1. ~(A!StartAnnouncing \/ A!StopAnnouncing \/ A!DropAnnouncing \/ A!Stopped
              \/ A!AnnounceSeed)
        BY <1>1 DEF A!StartAnnouncing, A!StopAnnouncing, A!DropAnnouncing, A!Stopped, A!AnnounceSeed
    <2>2. ~\E n \in A!Starts : A!PollStep(n)
        BY <1>1 DEF A!PollStep, A!PollTop, A!PollRead, A!PollTick
    <2>3. ~A!NextPasses
        BY DEF A!NextPasses
    <2>4. PICK y \in A!Threads : A!tryAnnounce(y) \/ A!HolderStep(y) \/ A!Hang(y)
        BY <1>1, <2>1, <2>2, <2>3 DEF A!Next
    <2>5. ~(A!tryAnnounce(y) \/ A!PortFails(y) \/ A!Announced(y) \/ A!addPeers(y) \/ A!Hang(y))
        BY <1>1 DEF A!tryAnnounce, A!PortFails, A!Announced, A!addPeers, A!Hang, A!Done
    <2>6. A!Network(y)
        BY <2>4, <2>5 DEF A!HolderStep
    <2>7. y = x
        BY <1>1, <2>6 DEF A!Network
    <2>8. QED
        BY <2>6, <2>7
<1>3. pc[x] = "net" /\ numeric
    BY <1>2 DEF A!Network
<1>4. CASE x = A!StopThread
    BY <1>3, <1>4 DEF AnnounceInv, SilentInv
<1>5. CASE x # A!StopThread
    BY <1>3 DEF AnnounceInv, SilentInv, Quiet
<1>6. QED
    BY <1>4, <1>5

-----------------------------------------------------------------------------
(* The wire: what is under way from an end, and what its goroutines have   *)
(* yet to do.                                                              *)

Ends == {"a", "b"}
WireMessage ==
    [type : {"bitfield"}, arg : SUBSET Parts]
        \union [type : {"have", "request", "piece"}, arg : Parts]
        \union [type : {"interest"}, arg : BOOLEAN] \union [type : {"unchoke"}, arg : {None}]
WireStep ==
    [do : {"visit", "have", "piece"}, arg : Parts] \union [do : {"assign"}, arg : BOOLEAN]
        \union [do : {"read", "compare", "record", "unchoke", "download"}, arg : {None}]

HaveSent(e, i) == \E k \in 1 .. Len(sent[e]) : sent[e][k].type = "have" /\ sent[e][k].arg = i
BitSent(e, i) == \E k \in 1 .. Len(sent[e]) : sent[e][k].type = "bitfield" /\ i \in sent[e][k].arg
NoBits(e) == \A k \in 1 .. Len(sent[e]) : sent[e][k].type # "bitfield"
OneBits(e) ==
    \A j, k \in 1 .. Len(sent[e]) :
        sent[e][j].type = "bitfield" /\ sent[e][k].type = "bitfield" => j = k
NoInterest(e) == \A k \in 1 .. Len(sent[e]) : sent[e][k].type # "interest"
(* The last interest that is under way says b.                             *)
LastTold(e, b) ==
    \A k \in 1 .. Len(sent[e]) :
        /\ sent[e][k].type = "interest"
        /\ \A j \in 1 .. Len(sent[e]) : j > k => sent[e][j].type # "interest"
        => sent[e][k].arg = b

DueIn(w, i) == \E k \in 1 .. Len(w) : w[k].do \in {"have", "visit"} /\ w[k].arg = i
ReadsIn(w) == \E k \in 1 .. Len(w) : w[k].do = "read"
AtIn(w, does) == w # <<>> /\ w[1].do \in does

(* What comes after what in a goroutine's steps w.                         *)
Scripted(w) ==
    \A k \in 1 .. Len(w) :
        /\ w[k].do = "visit" =>
              \E j \in 1 .. Len(w) : j > k /\ w[j].do = "have" /\ w[j].arg = w[k].arg
        /\ w[k].do \in {"read", "assign"} => k < Len(w) /\ w[k + 1].do = "compare"
        /\ w[k].do = "compare" => k < Len(w) /\ w[k + 1].do = "record"
        /\ k > 1 => w[k].do # "assign"
        /\ k < Len(w) /\ w[k].do \in {"visit", "unchoke", "download", "have", "piece"} =>
              w[k + 1].do \notin {"compare", "record"}

Due(e, g, i) == DueIn(work[e][g], i)
Reads(e, g) == ReadsIn(work[e][g])
At(e, g, does) == AtIn(work[e][g], does)

SentTyped == sent \in [Ends -> Seq(WireMessage)]
WorkTyped ==
    /\ work \in [Ends -> [W!Runs -> Seq(WireStep)]]
    /\ \A e \in Ends, g \in W!Runs : Scripted(work[e][g])

LEMMA Others ==
    ASSUME NEW e \in Ends
    PROVE  /\ W!Other(e) \in Ends /\ W!Other(e) # e /\ W!Other(W!Other(e)) = e
           /\ \A o \in Ends : o # e => o = W!Other(e)
<1>1. \A x \in Ends : W!Other(x) \in Ends /\ W!Other(x) # x
    BY DEF W!Other, Ends
<1>2. QED
    BY <1>1 DEF Ends

LEMMA SendFacts ==
    ASSUME SentTyped, NEW e \in Ends, NEW m \in WireMessage, W!Send(e, m)
    PROVE  /\ SentTyped' /\ \A o \in Ends \ {e} : sent'[o] = sent[o]
           /\ \A i : HaveSent(e, i)' <=> HaveSent(e, i) \/ (m.type = "have" /\ m.arg = i)
           /\ \A i : BitSent(e, i)' <=> BitSent(e, i) \/ (m.type = "bitfield" /\ i \in m.arg)
           /\ NoBits(e)' <=> NoBits(e) /\ m.type # "bitfield"
           /\ OneBits(e) /\ (NoBits(e) \/ m.type # "bitfield") => OneBits(e)'
           /\ NoInterest(e)' <=> NoInterest(e) /\ m.type # "interest"
           /\ m.type # "interest" => \A b : LastTold(e, b) => LastTold(e, b)'
           /\ m.type = "interest" => LastTold(e, m.arg)'
<1> DEFINE s == sent[e]
           n == Len(s)
<1>1. /\ s \in Seq(WireMessage) /\ n \in Nat /\ sent'[e] = Append(s, m)
      /\ \A o \in Ends \ {e} : sent'[o] = sent[o]
    BY DEF SentTyped, W!Send
<1>2. /\ Len(sent'[e]) = n + 1 /\ sent'[e][n + 1] = m
      /\ \A k \in 1 .. n : sent'[e][k] = sent[e][k]
    BY <1>1
<1>3. SentTyped'
    BY <1>1 DEF SentTyped, W!Send
<1> HIDE DEF s
<1>4. n \in Nat /\ n = Len(sent[e])
    BY <1>1 DEF s
<1> HIDE DEF n
<1>5. \A i : HaveSent(e, i)' <=> HaveSent(e, i) \/ (m.type = "have" /\ m.arg = i)
    BY <1>2, <1>4 DEF HaveSent
<1>6. \A i : BitSent(e, i)' <=> BitSent(e, i) \/ (m.type = "bitfield" /\ i \in m.arg)
    BY <1>2, <1>4 DEF BitSent
<1>7. NoBits(e)' <=> NoBits(e) /\ m.type # "bitfield"
    BY <1>2, <1>4 DEF NoBits
<1>8. OneBits(e) /\ (NoBits(e) \/ m.type # "bitfield") => OneBits(e)'
    BY <1>2, <1>4 DEF NoBits, OneBits
<1>9. NoInterest(e)' <=> NoInterest(e) /\ m.type # "interest"
    BY <1>2, <1>4 DEF NoInterest
<1>10. ASSUME m.type # "interest", NEW b, LastTold(e, b) PROVE LastTold(e, b)'
    <2>1. SUFFICES ASSUME NEW k \in 1 .. n + 1, sent'[e][k].type = "interest",
                          \A j \in 1 .. n + 1 : j > k => sent'[e][j].type # "interest"
                   PROVE  sent'[e][k].arg = b
        BY <1>2 DEF LastTold
    <2>2. k \in 1 .. n
        BY <1>2, <1>4, <1>10, <2>1
    <2>3. \A j \in 1 .. n : j > k => sent[e][j].type # "interest"
        BY <1>2, <1>4, <2>1
    <2>4. QED
        BY <1>2, <1>4, <1>10, <2>1, <2>2, <2>3 DEF LastTold
<1>11. m.type = "interest" => LastTold(e, m.arg)'
    BY <1>2, <1>4 DEF LastTold
<1>12. QED
    BY <1>1, <1>3, <1>5, <1>6, <1>7, <1>8, <1>9, <1>10, <1>11

LEMMA TakeFacts ==
    ASSUME SentTyped, NEW e \in Ends, sent[e] # <<>>, sent' = [sent EXCEPT ![e] = Tail(@)],
           NEW h, h = Head(sent[e])
    PROVE  /\ SentTyped' /\ \A o \in Ends \ {e} : sent'[o] = sent[o]
           /\ h \in WireMessage
           /\ \A i : HaveSent(e, i) <=> HaveSent(e, i)' \/ (h.type = "have" /\ h.arg = i)
           /\ \A i : BitSent(e, i) <=> BitSent(e, i)' \/ (h.type = "bitfield" /\ i \in h.arg)
           /\ NoBits(e) <=> NoBits(e)' /\ h.type # "bitfield"
           /\ OneBits(e) => OneBits(e)' /\ (h.type = "bitfield" => NoBits(e)')
           /\ NoInterest(e) <=> NoInterest(e)' /\ h.type # "interest"
           /\ \A b : LastTold(e, b) =>
                 LastTold(e, b)' /\ (h.type = "interest" /\ NoInterest(e)' => h.arg = b)
<1> DEFINE s == sent[e]
           n == Len(s)
<1>1. /\ s \in Seq(WireMessage) /\ s # <<>> /\ n \in Nat /\ n > 0 /\ sent'[e] = Tail(s)
      /\ \A o \in Ends \ {e} : sent'[o] = sent[o]
    BY DEF SentTyped
<1>2. h = s[1] /\ Len(Tail(s)) = n - 1 /\ \A k \in 1 .. n - 1 : Tail(s)[k] = s[k + 1]
    BY <1>1
<1>3. SentTyped' /\ h \in WireMessage
    <2>1. Tail(s) \in Seq(WireMessage) /\ 1 \in 1 .. n
        BY <1>1
    <2>2. SentTyped'
        BY <2>1 DEF SentTyped
    <2>3. s[1] \in WireMessage
        BY <1>1, <2>1
    <2>4. QED
        BY <1>2, <2>2, <2>3
<1>4. n \in Nat /\ n > 0 /\ n = Len(sent[e]) /\ Len(sent'[e]) = n - 1 /\ h = sent[e][1]
    BY <1>1, <1>2
<1> HIDE DEF n
<1>5. \A k \in 1 .. n - 1 : k + 1 \in 1 .. n /\ sent'[e][k] = sent[e][k + 1]
    <2>1. \A k \in 1 .. n - 1 : k + 1 \in 1 .. n
        BY <1>4
    <2>2. \A k \in 1 .. n - 1 : sent'[e][k] = sent[e][k + 1]
        BY <1>1, <1>2
    <2>3. QED
        BY <2>1, <2>2
<1> HIDE DEF s
<1>6. \A k \in 1 .. n : k = 1 \/ \E j \in 1 .. n - 1 : k = j + 1 /\ sent'[e][j] = sent[e][k]
    <2>1. ASSUME NEW k \in 1 .. n, k # 1
          PROVE  k - 1 \in 1 .. n - 1 /\ k = (k - 1) + 1
        BY <1>4, <2>1
    <2>2. QED
        BY <1>5, <2>1
<1>7. /\ 1 \in 1 .. n /\ 1 \in 1 .. Len(sent[e])
      /\ \A k \in 1 .. Len(sent[e]) :
            sent[e][k] = h \/ \E j \in 1 .. Len(sent'[e]) : sent'[e][j] = sent[e][k]
    <2>1. 1 \in 1 .. n
        BY <1>4
    <2>2. 1 .. n = 1 .. Len(sent[e]) /\ 1 .. n - 1 = 1 .. Len(sent'[e]) /\ sent[e][1] = h
        BY <1>4, Zenon
    <2>3. \A k \in 1 .. n : sent[e][k] = h \/ \E j \in 1 .. n - 1 : sent'[e][j] = sent[e][k]
        BY <1>6, <2>2
    <2>4. QED
        BY <2>1, <2>2, <2>3, Zenon
<1>8. \A i : HaveSent(e, i) <=> HaveSent(e, i)' \/ (h.type = "have" /\ h.arg = i)
    <2>1. ASSUME NEW i, HaveSent(e, i)' PROVE HaveSent(e, i)
        BY <1>4, <1>5, <2>1 DEF HaveSent
    <2>2. ASSUME NEW i, HaveSent(e, i) PROVE HaveSent(e, i)' \/ (h.type = "have" /\ h.arg = i)
        BY <1>7, <2>2, Zenon DEF HaveSent
    <2>3. ASSUME NEW i, h.type = "have", h.arg = i PROVE HaveSent(e, i)
        BY <1>4, <1>7, <2>3 DEF HaveSent
    <2>4. QED
        BY <2>1, <2>2, <2>3
<1>9. \A i : BitSent(e, i) <=> BitSent(e, i)' \/ (h.type = "bitfield" /\ i \in h.arg)
    <2>1. ASSUME NEW i, BitSent(e, i)' PROVE BitSent(e, i)
        BY <1>4, <1>5, <2>1 DEF BitSent
    <2>2. ASSUME NEW i, BitSent(e, i) PROVE BitSent(e, i)' \/ (h.type = "bitfield" /\ i \in h.arg)
        BY <1>7, <2>2, Zenon DEF BitSent
    <2>3. ASSUME NEW i, h.type = "bitfield", i \in h.arg PROVE BitSent(e, i)
        BY <1>4, <1>7, <2>3 DEF BitSent
    <2>4. QED
        BY <2>1, <2>2, <2>3
<1>10. NoBits(e) <=> NoBits(e)' /\ h.type # "bitfield"
    <2>1. NoBits(e) => NoBits(e)' /\ h.type # "bitfield"
        BY <1>4, <1>5, <1>7 DEF NoBits
    <2>2. NoBits(e)' /\ h.type # "bitfield" => NoBits(e)
        BY <1>7, Zenon DEF NoBits
    <2>3. QED
        BY <2>1, <2>2
<1>11. OneBits(e) => OneBits(e)' /\ (h.type = "bitfield" => NoBits(e)')
    <2>1. \A j, k \in 1 .. n - 1 : j + 1 = k + 1 => j = k
        BY <1>4
    <2>2. \A k \in 1 .. n - 1 : k + 1 # 1
        BY <1>4
    <2>3. OneBits(e) => OneBits(e)'
        BY <1>4, <1>5, <2>1 DEF OneBits
    <2>4. OneBits(e) /\ h.type = "bitfield" => NoBits(e)'
        BY <1>4, <1>5, <1>7, <2>2 DEF OneBits, NoBits
    <2>5. QED
        BY <2>3, <2>4
<1>12. NoInterest(e) <=> NoInterest(e)' /\ h.type # "interest"
    <2>1. NoInterest(e) => NoInterest(e)' /\ h.type # "interest"
        BY <1>4, <1>5, <1>7 DEF NoInterest
    <2>2. NoInterest(e)' /\ h.type # "interest" => NoInterest(e)
        BY <1>7, Zenon DEF NoInterest
    <2>3. QED
        BY <2>1, <2>2
<1>13. ASSUME NEW b, LastTold(e, b) PROVE LastTold(e, b)'
    <2>1. SUFFICES ASSUME NEW k \in 1 .. n - 1, sent'[e][k].type = "interest",
                          \A j \in 1 .. n - 1 : j > k => sent'[e][j].type # "interest"
                   PROVE  sent'[e][k].arg = b
        BY <1>4 DEF LastTold
    <2>2. \A j \in 1 .. n : j > k + 1 => sent[e][j].type # "interest"
        <3>1. \A j \in 1 .. n - 1 : j + 1 > k + 1 => j > k
            BY <1>4
        <3>2. 1 > k + 1 => FALSE
            BY <1>4
        <3>3. QED
            BY <1>6, <2>1, <3>1, <3>2
    <2>3. QED
        BY <1>4, <1>5, <1>13, <2>1, <2>2 DEF LastTold
<1>14. ASSUME NEW b, LastTold(e, b), h.type = "interest", NoInterest(e)' PROVE h.arg = b
    <2>1. \A j \in 1 .. n : j > 1 => sent[e][j].type # "interest"
        <3>1. \A j \in 1 .. n - 1 : sent'[e][j].type # "interest"
            BY <1>4, <1>14 DEF NoInterest
        <3>2. \A j \in 1 .. n : j > 1 => j # 1
            BY <1>4
        <3>3. QED
            BY <1>6, <3>1, <3>2, Zenon
    <2>2. QED
        BY <1>4, <1>7, <1>14, <2>1 DEF LastTold
<1>15. QED
    BY <1>1, <1>3, <1>8, <1>9, <1>10, <1>11, <1>12, <1>13, <1>14

LEMMA SentFrame ==
    ASSUME NEW e, sent'[e] = sent[e]
    PROVE  /\ \A i : HaveSent(e, i)' <=> HaveSent(e, i)
           /\ \A i : BitSent(e, i)' <=> BitSent(e, i)
           /\ NoBits(e)' <=> NoBits(e)
           /\ OneBits(e)' <=> OneBits(e)
           /\ NoInterest(e)' <=> NoInterest(e)
           /\ \A b : LastTold(e, b)' <=> LastTold(e, b)
BY DEF HaveSent, BitSent, NoBits, OneBits, NoInterest, LastTold

(* A goroutine goes on to its next step.                                   *)
LEMMA DropSteps ==
    ASSUME NEW w \in Seq(WireStep), w # <<>>, Scripted(w), NEW v, v = Tail(w)
    PROVE  /\ v \in Seq(WireStep) /\ Scripted(v)
           /\ \A i : DueIn(w, i) <=> DueIn(v, i) \/ (AtIn(w, {"have", "visit"}) /\ w[1].arg = i)
           /\ \A i : AtIn(w, {"visit"}) /\ w[1].arg = i => DueIn(v, i)
           /\ ReadsIn(w) <=> ReadsIn(v) \/ AtIn(w, {"read"})
           /\ ~AtIn(v, {"assign"})
           /\ AtIn(w, {"assign"}) => AtIn(v, {"compare"})
           /\ AtIn(w, {"compare"}) => AtIn(v, {"record"})
           /\ AtIn(w, {"visit", "unchoke", "download", "have", "piece"}) =>
                 ~AtIn(v, {"compare", "record"})
<1> DEFINE n == Len(w)
<1>1. n \in Nat /\ n > 0 /\ v \in Seq(WireStep)
    OBVIOUS
<1>2. Len(v) = n - 1 /\ \A k \in 1 .. n - 1 : v[k] = w[k + 1]
    BY <1>1
<1>3. n \in Nat /\ n > 0 /\ n = Len(w) /\ Len(v) = n - 1
    BY <1>1, <1>2
<1> HIDE DEF n
<1>4. \A k \in 1 .. n - 1 : k + 1 \in 1 .. n /\ k + 1 > 1
    BY <1>3
<1>5. \A k \in 1 .. n : k = 1 \/ \E j \in 1 .. n - 1 : k = j + 1
    <2>1. \A k \in 1 .. n : k # 1 => k - 1 \in 1 .. n - 1 /\ k = (k - 1) + 1
        BY <1>3
    <2>2. QED
        BY <2>1
<1>6. /\ 1 \in 1 .. n
      /\ 1 .. n = 1 .. Len(w) /\ 1 .. n - 1 = 1 .. Len(v)
    BY <1>3
<1>7. \A k \in 1 .. n - 1 : v[k] = w[k + 1]
    BY <1>2
<1>8. v # <<>> => n > 1 /\ 1 \in 1 .. n - 1
    BY <1>1, <1>2, <1>3
<1>9. \A k \in 1 .. n :
        /\ w[k].do = "visit" =>
              \E j \in 1 .. n : j > k /\ w[j].do = "have" /\ w[j].arg = w[k].arg
        /\ w[k].do \in {"read", "assign"} => k < n /\ w[k + 1].do = "compare"
        /\ w[k].do = "compare" => k < n /\ w[k + 1].do = "record"
        /\ k > 1 => w[k].do # "assign"
        /\ k < n /\ w[k].do \in {"visit", "unchoke", "download", "have", "piece"} =>
              w[k + 1].do \notin {"compare", "record"}
    BY <1>3 DEF Scripted
<1>10. Scripted(v)
    <2> DEFINE m == Len(v)
    <2>1. m = n - 1
        BY <1>3
    <2> HIDE DEF m
    <2>2. ASSUME NEW k \in 1 .. m
          PROVE  /\ v[k].do = "visit" =>
                      \E j \in 1 .. m : j > k /\ v[j].do = "have" /\ v[j].arg = v[k].arg
                 /\ v[k].do \in {"read", "assign"} => k < m /\ v[k + 1].do = "compare"
                 /\ v[k].do = "compare" => k < m /\ v[k + 1].do = "record"
                 /\ v[k].do # "assign"
                 /\ k < m /\ v[k].do \in {"visit", "unchoke", "download", "have", "piece"} =>
                      v[k + 1].do \notin {"compare", "record"}
        <3>1. k + 1 \in 1 .. n /\ k + 1 > 1 /\ v[k] = w[k + 1]
            BY <1>4, <1>7, <2>1
        <3>2. (k + 1 < n <=> k < m) /\ (k < m => k + 1 \in 1 .. m)
            BY <1>3, <2>1
        <3>3. k < m => v[k + 1] = w[(k + 1) + 1]
            BY <1>7, <2>1, <3>2
        <3>4. ASSUME v[k].do = "visit"
              PROVE  \E j \in 1 .. m : j > k /\ v[j].do = "have" /\ v[j].arg = v[k].arg
            <4>1. PICK j \in 1 .. n : j > k + 1 /\ w[j].do = "have" /\ w[j].arg = v[k].arg
                BY <1>9, <3>1, <3>4
            <4>2. j # 1
                BY <1>3, <4>1
            <4>3. PICK i \in 1 .. m : j = i + 1
                BY <1>5, <2>1, <4>2
            <4>4. i > k
                BY <1>3, <2>1, <4>1, <4>3
            <4>5. QED
                BY <1>7, <2>1, <4>1, <4>3, <4>4
        <3>5. QED
            BY <1>9, <3>1, <3>2, <3>3, <3>4
    <2>3. QED
        BY <2>2, Zenon DEF Scripted, m
<1>11. \A k \in 1 .. Len(w) :
          w[k] = w[1] \/ \E j \in 1 .. Len(v) : v[j] = w[k]
    <2>1. \A k \in 1 .. n :
             w[k] = w[1] \/ \E j \in 1 .. n - 1 : v[j] = w[k]
        BY <1>5, <1>7
    <2>2. QED
        BY <1>6, <2>1, Zenon
<1>12. \A j \in 1 .. Len(v) : \E k \in 1 .. Len(w) : v[j] = w[k]
    <2>1. \A j \in 1 .. n - 1 : \E k \in 1 .. n : v[j] = w[k]
        BY <1>4, <1>7
    <2>2. QED
        BY <1>6, <2>1, Zenon
<1>13. 1 \in 1 .. Len(w)
    BY <1>6
<1>14. ASSUME NEW i
       PROVE  DueIn(w, i) <=> DueIn(v, i) \/ (AtIn(w, {"have", "visit"}) /\ w[1].arg = i)
    <2>1. DueIn(v, i) => DueIn(w, i)
        BY <1>12, Zenon DEF DueIn
    <2>2. AtIn(w, {"have", "visit"}) /\ w[1].arg = i => DueIn(w, i)
        BY <1>13, Zenon DEF DueIn, AtIn
    <2>3. DueIn(w, i) => DueIn(v, i) \/ (AtIn(w, {"have", "visit"}) /\ w[1].arg = i)
        BY <1>11, Zenon DEF DueIn, AtIn
    <2>4. QED
        BY <2>1, <2>2, <2>3
<1>15. ASSUME AtIn(w, {"visit"}), NEW i, w[1].arg = i PROVE DueIn(v, i)
    <2>1. PICK j \in 1 .. n : j > 1 /\ w[j].do = "have" /\ w[j].arg = i
        BY <1>6, <1>9, <1>15 DEF AtIn
    <2>2. j # 1
        BY <2>1
    <2>3. PICK k \in 1 .. n - 1 : v[k].do = "have" /\ v[k].arg = i
        BY <1>5, <1>7, <2>1, <2>2
    <2>4. k \in 1 .. Len(v) /\ v[k].do \in {"have", "visit"}
        BY <1>6, <2>3
    <2>5. QED
        BY <2>3, <2>4, Zenon DEF DueIn
<1>16. ReadsIn(w) <=> ReadsIn(v) \/ AtIn(w, {"read"})
    <2>1. ReadsIn(v) => ReadsIn(w)
        BY <1>12, Zenon DEF ReadsIn
    <2>2. AtIn(w, {"read"}) => ReadsIn(w)
        BY <1>13, Zenon DEF ReadsIn, AtIn
    <2>3. ReadsIn(w) => ReadsIn(v) \/ AtIn(w, {"read"})
        BY <1>11, Zenon DEF ReadsIn, AtIn
    <2>4. QED
        BY <2>1, <2>2, <2>3
<1>17. v # <<>> => v[1] = w[2] /\ 1 < n /\ 2 \in 1 .. n /\ 2 > 1
    <2>1. 1 + 1 = 2 /\ (n > 1 => 2 \in 1 .. n /\ 2 > 1 /\ 1 < n)
        BY <1>3
    <2>2. 1 \in 1 .. n - 1 => v[1] = w[2]
        BY <1>7, <2>1
    <2>3. QED
        BY <1>8, <2>1, <2>2
<1>18. 1 < n => v # <<>>
    <2>1. v = <<>> => Len(v) = 0
        OBVIOUS
    <2>2. 1 < n => Len(v) # 0
        BY <1>3
    <2>3. QED
        BY <2>1, <2>2
<1>19. 1 + 1 = 2
    OBVIOUS
<1>20. ~AtIn(v, {"assign"})
    BY <1>9, <1>17 DEF AtIn
<1>21. AtIn(w, {"assign"}) => AtIn(v, {"compare"})
    BY <1>6, <1>9, <1>17, <1>18, <1>19 DEF AtIn
<1>22. AtIn(w, {"compare"}) => AtIn(v, {"record"})
    BY <1>6, <1>9, <1>17, <1>18, <1>19 DEF AtIn
<1>23. AtIn(w, {"visit", "unchoke", "download", "have", "piece"}) => ~AtIn(v, {"compare", "record"})
    BY <1>6, <1>9, <1>17, <1>19 DEF AtIn
<1>24. QED
    BY <1>1, <1>10, <1>14, <1>15, <1>16, <1>20, <1>21, <1>22, <1>23, Zenon

LEMMA AssignSteps ==
    ASSUME NEW w \in Seq(WireStep), w # <<>>, Scripted(w), w[1].do = "read", NEW b \in BOOLEAN,
           NEW v, v = <<W!Step("assign", b)>> \o Tail(w)
    PROVE  /\ v \in Seq(WireStep) /\ Scripted(v) /\ v # <<>> /\ v[1] = W!Step("assign", b)
           /\ \A i : DueIn(v, i) <=> DueIn(w, i)
           /\ ReadsIn(v) => ReadsIn(w)
<1> DEFINE n == Len(w)
           m == Len(v)
           a == W!Step("assign", b)
<1>1. a \in WireStep /\ a.do = "assign" /\ a.arg = b
    BY DEF W!Step, WireStep
<1> HIDE DEF a
<1>2. /\ n \in Nat /\ n > 0 /\ m = n /\ v \in Seq(WireStep)
      /\ v[1] = a /\ \A k \in 1 .. n : k > 1 => v[k] = w[k]
    <2> DEFINE t == Tail(w)
               l == Len(t)
    <2>1. /\ n \in Nat /\ n > 0 /\ t \in Seq(WireStep) /\ l = n - 1
          /\ \A k \in 1 .. n - 1 : t[k] = w[k + 1]
        OBVIOUS
    <2>2. v = <<a>> \o t
        BY DEF a
    <2> HIDE DEF t
    <2>3. /\ v \in Seq(WireStep) /\ m = l + 1 /\ v[1] = a
          /\ \A k \in 1 .. l + 1 : k > 1 => v[k] = t[k - 1]
        BY <1>1, <2>1, <2>2
    <2> HIDE DEF l, n, m
    <2>4. m = n
        BY <2>1, <2>3
    <2>5. ASSUME NEW k \in 1 .. n, k > 1 PROVE v[k] = w[k]
        <3>1. k - 1 \in 1 .. n - 1 /\ (k - 1) + 1 = k /\ k \in 1 .. l + 1
            BY <2>1, <2>5
        <3>2. QED
            BY <2>1, <2>3, <2>5, <3>1
    <2>6. QED
        BY <2>1, <2>3, <2>4, <2>5
<1>3. \A k \in 1 .. n : k = 1 \/ k > 1
    BY <1>2
<1>4. v # <<>>
    BY <1>2
<1> HIDE DEF n, m
<1>5. Scripted(v)
    <2>1. \A k \in 1 .. n : k < n => k + 1 \in 1 .. n /\ k + 1 > 1
        BY <1>2
    <2>2. ASSUME NEW k \in 1 .. n
          PROVE  /\ v[k].do = "visit" =>
                      \E j \in 1 .. n : j > k /\ v[j].do = "have" /\ v[j].arg = v[k].arg
                 /\ v[k].do \in {"read", "assign"} => k < n /\ v[k + 1].do = "compare"
                 /\ v[k].do = "compare" => k < n /\ v[k + 1].do = "record"
                 /\ k > 1 => v[k].do # "assign"
                 /\ k < n /\ v[k].do \in {"visit", "unchoke", "download", "have", "piece"} =>
                      v[k + 1].do \notin {"compare", "record"}
        <3>1. /\ w[k].do = "visit" =>
                   \E j \in 1 .. n : j > k /\ w[j].do = "have" /\ w[j].arg = w[k].arg
              /\ w[k].do \in {"read", "assign"} => k < n /\ w[k + 1].do = "compare"
              /\ w[k].do = "compare" => k < n /\ w[k + 1].do = "record"
              /\ k > 1 => w[k].do # "assign"
              /\ k < n /\ w[k].do \in {"visit", "unchoke", "download", "have", "piece"} =>
                   w[k + 1].do \notin {"compare", "record"}
            BY DEF Scripted, n
        <3>2. k < n => v[k + 1] = w[k + 1]
            BY <1>2, <2>1
        <3>3. CASE k = 1
            BY <1>1, <1>2, <3>1, <3>2, <3>3
        <3>4. CASE k > 1
            <4>1. v[k] = w[k] /\ \A j \in 1 .. n : j > k => v[j] = w[j]
                <5>1. \A j \in 1 .. n : j > k => j > 1
                    BY <1>2, <3>4
                <5>2. QED
                    BY <1>2, <3>4, <5>1
            <4>2. QED
                BY <3>1, <3>2, <3>4, <4>1
        <3>5. QED
            BY <1>3, <3>3, <3>4
    <2>3. QED
        BY <1>2, <2>2 DEF Scripted, m
<1>6. 1 .. Len(v) = 1 .. n /\ 1 .. Len(w) = 1 .. n
    BY <1>2 DEF m, n
<1>7. \A k \in 1 .. n : /\ v[k].do \in {"have", "visit"} \/ w[k].do \in {"have", "visit"} => v[k] = w[k]
                        /\ v[k].do = "read" => w[k].do = "read"
    BY <1>1, <1>2, <1>3
<1>8. \A i : DueIn(v, i) <=> DueIn(w, i)
    BY <1>6, <1>7 DEF DueIn
<1>9. ReadsIn(v) => ReadsIn(w)
    BY <1>6, <1>7 DEF ReadsIn
<1>10. QED
    BY <1>2, <1>4, <1>5, <1>8, <1>9 DEF a

(* What a goroutine starts on.                                             *)
LEMMA NoSteps ==
    /\ <<>> \in Seq(WireStep) /\ Scripted(<<>>)
    /\ \A i : ~DueIn(<<>>, i)
    /\ ~ReadsIn(<<>>) /\ \A does : ~AtIn(<<>>, does)
BY DEF Scripted, DueIn, ReadsIn, AtIn

LEMMA PieceSteps ==
    ASSUME NEW i \in Parts, NEW v, v = <<W!Step("piece", i)>>
    PROVE  /\ v \in Seq(WireStep) /\ Scripted(v) /\ \A j : ~DueIn(v, j)
           /\ ~ReadsIn(v) /\ ~AtIn(v, {"assign", "compare", "record"})
<1>1. v[1].do = "piece" /\ v[1].arg = i /\ Len(v) = 1 /\ v \in Seq(WireStep)
    BY DEF W!Step, WireStep
<1>2. QED
    BY <1>1 DEF Scripted, DueIn, ReadsIn, AtIn

LEMMA CheckSteps ==
    ASSUME NEW v, \/ v = W!checkInterested
                  \/ v = W!checkInterested \o <<>>
                  \/ v = W!checkInterested \o <<W!Step("unchoke", None), W!Step("download", None)>>
    PROVE  /\ v \in Seq(WireStep) /\ Scripted(v) /\ \A j : ~DueIn(v, j)
           /\ ReadsIn(v) /\ ~AtIn(v, {"assign", "compare", "record"})
<1>1. CASE v = W!checkInterested \/ v = W!checkInterested \o <<>>
    <2>1. /\ v[1].do = "read" /\ v[2].do = "compare" /\ v[3].do = "record"
          /\ Len(v) = 3 /\ v \in Seq(WireStep)
        <3>1. W!checkInterested \o <<>> = W!checkInterested
            BY DEF W!checkInterested, W!Step
        <3>2. v = W!checkInterested
            BY <1>1, <3>1
        <3>3. QED
            BY <3>2 DEF W!checkInterested, W!Step, WireStep
    <2>2. QED
        BY <2>1 DEF Scripted, DueIn, ReadsIn, AtIn
<1>2. CASE v = W!checkInterested \o <<W!Step("unchoke", None), W!Step("download", None)>>
    <2>1. /\ v[1].do = "read" /\ v[2].do = "compare" /\ v[3].do = "record"
          /\ v[4].do = "unchoke" /\ v[5].do = "download"
          /\ Len(v) = 5 /\ v \in Seq(WireStep)
        BY <1>2 DEF W!checkInterested, W!Step, WireStep
    <2>2. QED
        BY <2>1 DEF Scripted, DueIn, ReadsIn, AtIn
<1>3. QED
    BY <1>1, <1>2

LEMMA HaveSteps ==
    ASSUME NEW i \in Parts, NEW v, v = W!broadcastHave(i)
    PROVE  /\ v \in Seq(WireStep) /\ Scripted(v) /\ \A j : DueIn(v, j) <=> j = i
           /\ ReadsIn(v) /\ ~AtIn(v, {"assign", "compare", "record"})
<1>1. /\ v[1].do = "visit" /\ v[1].arg = i /\ v[2].do = "read" /\ v[3].do = "compare"
      /\ v[4].do = "record" /\ v[5].do = "have" /\ v[5].arg = i
      /\ Len(v) = 5 /\ v \in Seq(WireStep)
    BY DEF W!broadcastHave, W!checkInterested, W!Step, WireStep
<1>2. QED
    BY <1>1 DEF Scripted, DueIn, ReadsIn, AtIn

(* The steps of one goroutine change.                                      *)
LEMMA WorkChanges ==
    ASSUME WorkTyped, NEW e \in Ends, NEW g \in W!Runs, NEW v \in Seq(WireStep), Scripted(v),
           work' = [work EXCEPT ![e][g] = v]
    PROVE  /\ WorkTyped' /\ work'[e][g] = v
           /\ \A d \in Ends, f \in W!Runs : d # e \/ f # g => work'[d][f] = work[d][f]
           /\ \A i : Due(e, g, i)' <=> DueIn(v, i)
           /\ Reads(e, g)' <=> ReadsIn(v)
           /\ \A does : At(e, g, does)' <=> AtIn(v, does)
<1>1. /\ work' \in [Ends -> [W!Runs -> Seq(WireStep)]] /\ work'[e][g] = v
      /\ \A d \in Ends, f \in W!Runs : d # e \/ f # g => work'[d][f] = work[d][f]
    BY DEF WorkTyped
<1>2. \A d \in Ends, f \in W!Runs : Scripted(work'[d][f])
    BY <1>1 DEF WorkTyped
<1>3. WorkTyped'
    BY <1>1, <1>2 DEF WorkTyped
<1>4. QED
    BY <1>1, <1>3 DEF Due, Reads, At

LEMMA WorkFrame ==
    ASSUME NEW d, NEW f, work'[d][f] = work[d][f]
    PROVE  /\ \A i : Due(d, f, i)' <=> Due(d, f, i)
           /\ Reads(d, f)' <=> Reads(d, f)
           /\ \A does : At(d, f, does)' <=> At(d, f, does)
BY DEF Due, Reads, At

-----------------------------------------------------------------------------
(* The invariants of the wire.                                             *)

Want(e) == theirs[e] # None /\ theirs[e] \ held[e] # {}
Checks(e, g) == At(e, g, {"assign"}) \/ At(e, g, {"compare"}) \/ At(e, g, {"record"})
Calm(e) == \A g \in W!Runs : ~Reads(e, g)
Broadcasts(e, i) == \E g \in W!Runs : Due(e, g, i)
(* What the end has said of its interest, though it may not be recorded.   *)
Said(e) == IF \E g \in W!Runs : At(e, g, {"record"}) THEN wants[e] ELSE told[e]

WireFlags ==
    /\ wants \in [Ends -> BOOLEAN] /\ told \in [Ends -> BOOLEAN] /\ wanted \in [Ends -> BOOLEAN]
    /\ chokes \in [Ends -> BOOLEAN] /\ choked \in [Ends -> BOOLEAN]
    /\ downloads \in [Ends -> BOOLEAN] /\ shut \in BOOLEAN
WireSets ==
    /\ held \in [Ends -> SUBSET Parts] /\ snap \in [Ends -> SUBSET Parts]
    /\ stage \in [Ends -> {"none", "listed", "snapped", "up"}]
    /\ theirs \in [Ends -> {None} \union SUBSET Parts]
    /\ elsewhere \in 0 .. MaxElsewhere /\ raced \subseteq Ends
WireAsked ==
    /\ asked \in [Ends -> SUBSET Parts]
    /\ \A e \in Ends : IsFiniteSet(asked[e]) /\ Cardinality(asked[e]) <= MaxRequests
(* Before the other end's bitfield has come nothing is wanted of it.       *)
Unknown ==
    \A e \in Ends : theirs[e] = None =>
        wants[e] = FALSE /\ \A g \in W!Runs : At(e, g, {"assign"}) => work[e][g][1].arg = FALSE

WireTyped == WireFlags /\ WireSets /\ WireAsked /\ SentTyped /\ WorkTyped /\ Unknown

(* What is known of end e, or under way, is held there, and what is held   *)
(* is known, under way, or due to be broadcast; there is one bitfield, and *)
(* it comes first.                                                         *)
HeldOf(e) ==
    LET o == W!Other(e) IN
    /\ snap[e] \subseteq held[e]
    /\ theirs[o] # None => theirs[o] \subseteq held[e] /\ stage[e] = "up"
    /\ theirs[e] # None => stage[e] # "none"
    /\ \A i : HaveSent(e, i) \/ BitSent(e, i) \/ Broadcasts(e, i) => i \in held[e]
    /\ ~NoBits(e) => stage[e] = "up" /\ theirs[o] = None
    /\ OneBits(e)
    /\ ~shut /\ stage[e] = "snapped" =>
          \A i \in held[e] : i \in snap[e] \/ HaveSent(e, i) \/ Broadcasts(e, i)
    /\ ~shut /\ stage[e] = "up" =>
          \A i \in held[e] : \/ theirs[o] # None /\ i \in theirs[o]
                             \/ BitSent(e, i) \/ HaveSent(e, i) \/ Broadcasts(e, i)

(* One goroutine at a time compares; unless a bitfield is yet to be read,  *)
(* the comparison is up to date; what was said is what the other end knows *)
(* or will know.                                                           *)
InterestOf(e) ==
    /\ \A g, h \in W!Runs : Checks(e, g) /\ Checks(e, h) => g = h
    /\ Calm(e) => /\ \A g \in W!Runs : At(e, g, {"assign"}) => (work[e][g][1].arg <=> Want(e))
                  /\ (\A g \in W!Runs : ~At(e, g, {"assign"})) => (wants[e] <=> Want(e))
    /\ (\A g \in W!Runs : ~At(e, g, {"compare"}) /\ ~At(e, g, {"record"})) => told[e] = wants[e]
    /\ NoInterest(e) => wanted[W!Other(e)] = Said(e)
    /\ \A b : b = Said(e) => LastTold(e, b)

HeldInv == \A e \in Ends : HeldOf(e)
InterestInv == \A e \in Ends \ raced : InterestOf(e)
WireInv == WireTyped /\ HeldInv /\ InterestInv

LEMMA HeldKeeps ==
    ASSUME NEW e \in Ends, NEW o, o = W!Other(e), HeldOf(e),
           held'[e] = held[e], snap'[e] = snap[e], stage'[e] = stage[e], theirs'[o] = theirs[o],
           theirs'[e] = theirs[e] \/ stage[e] # "none", shut => shut',
           \A i : HaveSent(e, i)' \/ Broadcasts(e, i)' => HaveSent(e, i) \/ Broadcasts(e, i),
           \A i : BitSent(e, i)' <=> BitSent(e, i), NoBits(e)' <=> NoBits(e), OneBits(e)',
           \A i : stage[e] # "none" /\ (HaveSent(e, i) \/ Broadcasts(e, i)) =>
                      HaveSent(e, i)' \/ Broadcasts(e, i)'
    PROVE  HeldOf(e)'
BY DEF HeldOf

LEMMA InterestKeeps ==
    ASSUME NEW e \in Ends, NEW o, o = W!Other(e), InterestOf(e), Unknown,
           wants'[e] = wants[e], told'[e] = told[e], wanted'[o] = wanted[o],
           \A g \in W!Runs : /\ At(e, g, {"assign"})' <=> At(e, g, {"assign"})
                             /\ At(e, g, {"assign"}) => work'[e][g] = work[e][g]
                             /\ At(e, g, {"compare"})' <=> At(e, g, {"compare"})
                             /\ At(e, g, {"record"})' <=> At(e, g, {"record"}),
           Calm(e)' => \/ Calm(e) /\ (Want(e)' <=> Want(e))
                       \/ theirs[e] = None /\ theirs'[e] = None,
           NoInterest(e)' => NoInterest(e), \A b : LastTold(e, b) => LastTold(e, b)'
    PROVE  InterestOf(e)'
<1>1. Said(e)' = Said(e)
    BY DEF Said
<1>2. \A g \in W!Runs : Checks(e, g)' <=> Checks(e, g)
    BY DEF Checks
<1>3. NoInterest(e)' => wanted'[o] = Said(e)'
    BY <1>1 DEF InterestOf
<1>4. \A b : b = Said(e)' => LastTold(e, b)'
    BY <1>1 DEF InterestOf
<1>5. ASSUME Calm(e)'
      PROVE  /\ \A g \in W!Runs : At(e, g, {"assign"})' => (work'[e][g][1].arg <=> Want(e)')
             /\ (\A g \in W!Runs : ~At(e, g, {"assign"})') => (wants'[e] <=> Want(e)')
    <2>1. CASE Calm(e) /\ (Want(e)' <=> Want(e))
        BY <2>1 DEF InterestOf
    <2>2. CASE theirs[e] = None /\ theirs'[e] = None
        <3>1. ~Want(e)'
            BY <2>2 DEF Want
        <3>2. /\ wants'[e] = FALSE
              /\ \A g \in W!Runs : At(e, g, {"assign"})' => work'[e][g][1].arg = FALSE
            BY <2>2 DEF Unknown
        <3>3. QED
            BY <3>1, <3>2
    <2>3. QED
        BY <1>5, <2>1, <2>2
<1>6. QED
    BY <1>2, <1>3, <1>4, <1>5 DEF InterestOf

(* Ends, and goroutines, to which nothing happens.                         *)
LEMMA HeldFrame ==
    ASSUME NEW e \in Ends, NEW o, o = W!Other(e), HeldOf(e),
           held'[e] = held[e], snap'[e] = snap[e], stage'[e] = stage[e], theirs'[o] = theirs[o],
           theirs'[e] = theirs[e] \/ stage[e] # "none", shut => shut', sent'[e] = sent[e],
           \A g \in W!Runs : work'[e][g] = work[e][g]
    PROVE  HeldOf(e)'
<1>1. /\ \A i : HaveSent(e, i)' <=> HaveSent(e, i)
      /\ \A i : BitSent(e, i)' <=> BitSent(e, i)
      /\ NoBits(e)' <=> NoBits(e)
      /\ OneBits(e)' <=> OneBits(e)
    BY SentFrame
<1>2. \A i : Broadcasts(e, i)' <=> Broadcasts(e, i)
    BY WorkFrame DEF Broadcasts
<1>3. OneBits(e)
    BY DEF HeldOf
<1>4. QED
    BY <1>1, <1>2, <1>3, HeldKeeps

LEMMA InterestFrame ==
    ASSUME NEW e \in Ends, NEW o, o = W!Other(e), InterestOf(e), Unknown,
           wants'[e] = wants[e], told'[e] = told[e], wanted'[o] = wanted[o],
           theirs'[e] = theirs[e], held'[e] = held[e], sent'[e] = sent[e],
           \A g \in W!Runs : work'[e][g] = work[e][g]
    PROVE  InterestOf(e)'
<1>1. /\ NoInterest(e)' <=> NoInterest(e)
      /\ \A b : LastTold(e, b)' <=> LastTold(e, b)
    BY SentFrame
<1>2. \A g \in W!Runs : /\ At(e, g, {"assign"})' <=> At(e, g, {"assign"})
                        /\ At(e, g, {"compare"})' <=> At(e, g, {"compare"})
                        /\ At(e, g, {"record"})' <=> At(e, g, {"record"})
                        /\ Reads(e, g)' <=> Reads(e, g)
    BY WorkFrame
<1>3. Calm(e)' <=> Calm(e)
    BY <1>2 DEF Calm
<1>4. Want(e)' <=> Want(e)
    BY DEF Want
<1>5. QED
    BY <1>1, <1>2, <1>3, <1>4, InterestKeeps

LEMMA UnknownFrame ==
    ASSUME Unknown, \A e \in Ends : wants'[e] = wants[e] \/ theirs'[e] # None,
           \A e \in Ends : theirs'[e] = theirs[e] \/ theirs'[e] # None,
           \A e \in Ends, g \in W!Runs : At(e, g, {"assign"})' => work'[e][g] = work[e][g]
    PROVE  Unknown'
BY DEF Unknown, At

LEMMA BothEnds ==
    ASSUME NEW e \in Ends, NEW o, o = W!Other(e), WireTyped', HeldOf(e)', HeldOf(o)',
           e \notin raced' => InterestOf(e)', o \notin raced' => InterestOf(o)'
    PROVE  WireInv'
<1>1. \A d \in Ends : d = e \/ d = o
    BY Others
<1>2. QED
    BY <1>1 DEF WireInv, HeldInv, InterestInv

(* The goroutine that makes the connection.                                *)
LEMMA MakingStep ==
    ASSUME WireInv, NEW e \in Ends, W!Making(e)
    PROVE  WireInv'
<1> DEFINE o == W!Other(e)
<1>1. o \in Ends /\ o # e /\ W!Other(o) = e
    BY Others
<1> HIDE DEF o
<1>2. WireTyped /\ HeldOf(e) /\ HeldOf(o) /\ e \in Ends /\ o = W!Other(e)
    BY <1>1 DEF WireInv, HeldInv, o
<1>3. /\ UNCHANGED <<held, theirs, wants, told, wanted, chokes, choked, downloads, asked, work, shut,
                     elsewhere, raced>>
      /\ ~shut
    BY DEF W!Making, W!addPeer, W!Snapshot, W!SendBitfield, W!flags
<1>4. /\ \/ sent' = sent /\ stage' = [stage EXCEPT ![e] = "listed"] /\ snap' = snap /\ stage[e] = "none"
         \/ /\ sent' = sent /\ stage' = [stage EXCEPT ![e] = "snapped"] /\ stage[e] = "listed"
            /\ snap' = [snap EXCEPT ![e] = held[e]]
         \/ /\ W!Send(e, W!Msg("bitfield", snap[e])) /\ stage' = [stage EXCEPT ![e] = "up"]
            /\ stage[e] = "snapped" /\ snap' = [snap EXCEPT ![e] = {}]
    BY DEF W!Making, W!addPeer, W!Snapshot, W!SendBitfield
<1>5. /\ held[e] \in SUBSET Parts /\ snap[e] \in SUBSET Parts
      /\ stage \in [Ends -> {"none", "listed", "snapped", "up"}] /\ snap \in [Ends -> SUBSET Parts]
    BY <1>2 DEF WireTyped, WireSets
<1>6. W!Msg("bitfield", snap[e]) \in WireMessage
    BY <1>5 DEF W!Msg, WireMessage
<1>7. SentTyped' /\ sent'[o] = sent[o]
    BY <1>1, <1>2, <1>4, <1>6, SendFacts DEF WireTyped, SentTyped
<1>8. WireTyped'
    <2>1. WireSets'
        BY <1>2, <1>3, <1>4, <1>5 DEF WireTyped, WireSets
    <2>2. WireFlags' /\ WireAsked' /\ WorkTyped'
        BY <1>2, <1>3 DEF WireTyped, WireFlags, WireAsked, WorkTyped
    <2>3. Unknown'
        BY <1>2, <1>3, UnknownFrame DEF WireTyped
    <2>4. QED
        BY <1>7, <2>1, <2>2, <2>3 DEF WireTyped
<1>9. HeldOf(o)'
    BY <1>1, <1>2, <1>3, <1>4, <1>5, <1>7, HeldFrame
<1>10. o \notin raced' => InterestOf(o)'
    BY <1>1, <1>2, <1>3, <1>7, InterestFrame DEF WireInv, InterestInv, WireTyped
<1>11. \A i : Broadcasts(e, i)' <=> Broadcasts(e, i)
    BY <1>3 DEF Broadcasts, Due
<1>12. CASE sent' = sent /\ stage' = [stage EXCEPT ![e] = "listed"] /\ snap' = snap /\ stage[e] = "none"
    <2>1. HeldOf(e)'
        <3>1. stage'[e] = "listed" /\ snap'[e] = snap[e]
            BY <1>5, <1>12
        <3>2. QED
            BY <1>2, <1>3, <1>11, <1>12, <3>1, SentFrame DEF HeldOf
    <2>2. e \notin raced' => InterestOf(e)'
        BY <1>2, <1>3, <1>12, InterestFrame DEF WireInv, InterestInv, WireTyped
    <2>3. QED
        BY <1>2, <1>8, <1>9, <1>10, <2>1, <2>2, BothEnds
<1>13. CASE /\ sent' = sent /\ stage' = [stage EXCEPT ![e] = "snapped"] /\ stage[e] = "listed"
            /\ snap' = [snap EXCEPT ![e] = held[e]]
    <2>1. HeldOf(e)'
        <3>1. stage'[e] = "snapped" /\ snap'[e] = held[e]
            BY <1>5, <1>13
        <3>2. QED
            BY <1>2, <1>3, <1>11, <1>13, <3>1, SentFrame DEF HeldOf
    <2>2. e \notin raced' => InterestOf(e)'
        BY <1>2, <1>3, <1>13, InterestFrame DEF WireInv, InterestInv, WireTyped
    <2>3. QED
        BY <1>2, <1>8, <1>9, <1>10, <2>1, <2>2, BothEnds
<1>14. CASE /\ W!Send(e, W!Msg("bitfield", snap[e])) /\ stage' = [stage EXCEPT ![e] = "up"]
            /\ stage[e] = "snapped" /\ snap' = [snap EXCEPT ![e] = {}]
    <2> DEFINE m == W!Msg("bitfield", snap[e])
    <2>1. m.type = "bitfield" /\ m.arg = snap[e] /\ m \in WireMessage
        BY <1>6 DEF W!Msg
    <2>2. /\ \A i : HaveSent(e, i)' <=> HaveSent(e, i)
          /\ \A i : BitSent(e, i)' <=> BitSent(e, i) \/ i \in snap[e]
          /\ OneBits(e) /\ NoBits(e) => OneBits(e)'
          /\ NoInterest(e)' <=> NoInterest(e)
          /\ \A b : LastTold(e, b) => LastTold(e, b)'
        <3> HIDE DEF m
        <3>1. W!Send(e, m)
            BY <1>14 DEF m
        <3>2. QED
            BY <1>2, <2>1, <3>1, SendFacts DEF WireTyped
    <2>3. HeldOf(e)'
        <3>1. stage'[e] = "up" /\ snap'[e] = {}
            BY <1>5, <1>14
        <3>2. theirs[o] = None /\ NoBits(e)
            BY <1>2, <1>14 DEF HeldOf
        <3>3. QED
            BY <1>2, <1>3, <1>11, <1>14, <2>2, <3>1, <3>2 DEF HeldOf
    <2>4. e \notin raced' => InterestOf(e)'
        <3>1. SUFFICES ASSUME e \notin raced PROVE InterestOf(e)'
            BY <1>3
        <3>2. InterestOf(e) /\ Unknown
            BY <3>1 DEF WireInv, InterestInv, WireTyped
        <3>3. \A g \in W!Runs : /\ At(e, g, {"assign"})' <=> At(e, g, {"assign"})
                                /\ At(e, g, {"compare"})' <=> At(e, g, {"compare"})
                                /\ At(e, g, {"record"})' <=> At(e, g, {"record"})
                                /\ Reads(e, g)' <=> Reads(e, g)
            BY <1>3, WorkFrame
        <3>4. (Calm(e)' <=> Calm(e)) /\ (Want(e)' <=> Want(e))
            BY <1>3, <3>3 DEF Calm, Want
        <3>5. QED
            BY <1>2, <1>3, <2>2, <3>2, <3>3, <3>4, InterestKeeps
    <2>5. QED
        BY <1>2, <1>8, <1>9, <1>10, <2>3, <2>4, BothEnds
<1>15. QED
    BY <1>4, <1>12, <1>13, <1>14

(* A goroutine g of end e goes on, with the steps v left.                  *)
LEMMA WorkEnds ==
    ASSUME WireInv, NEW e \in Ends, NEW g \in W!Runs, NEW v \in Seq(WireStep), Scripted(v),
           work' = [work EXCEPT ![e][g] = v],
           UNCHANGED <<held, stage, snap, theirs, wanted, asked, shut, elsewhere>>,
           raced' = raced \/ raced' = raced \union {e},
           WireFlags', SentTyped', Unknown',
           \A d \in Ends \ {e} : wants'[d] = wants[d] /\ told'[d] = told[d] /\ sent'[d] = sent[d],
           \A i : DueIn(v, i) => Due(e, g, i),
           \A i : Due(e, g, i) => DueIn(v, i) \/ HaveSent(e, i)' \/ stage[e] = "none",
           \A i : HaveSent(e, i) => HaveSent(e, i)',
           \A i : HaveSent(e, i)' => HaveSent(e, i) \/ Due(e, g, i),
           \A i : BitSent(e, i)' <=> BitSent(e, i), NoBits(e)' <=> NoBits(e),
           OneBits(e) => OneBits(e)',
           e \notin raced' => InterestOf(e)'
    PROVE  WireInv'
<1> DEFINE o == W!Other(e)
<1>1. o \in Ends /\ o # e /\ W!Other(o) = e
    BY Others
<1> HIDE DEF o
<1>2. WireTyped /\ HeldOf(e) /\ HeldOf(o) /\ e \in Ends /\ o = W!Other(e)
    BY <1>1 DEF WireInv, HeldInv, o
<1>3. /\ WorkTyped' /\ \A i : Due(e, g, i)' <=> DueIn(v, i)
      /\ \A d \in Ends, f \in W!Runs : d # e \/ f # g => work'[d][f] = work[d][f]
    BY <1>2, WorkChanges DEF WireTyped
<1>4. WireTyped'
    <2>1. WireSets'
        BY <1>2 DEF WireTyped, WireSets
    <2>2. WireAsked'
        BY <1>2 DEF WireTyped, WireAsked
    <2>3. QED
        BY <1>3, <2>1, <2>2 DEF WireTyped
<1>5. \A f \in W!Runs : f # g => \A i : Due(e, f, i)' <=> Due(e, f, i)
    BY <1>2, <1>3, WorkFrame
<1>6. HeldOf(e)'
    <2>1. \A i : Broadcasts(e, i)' => Broadcasts(e, i)
        BY <1>3, <1>5 DEF Broadcasts
    <2>2. ASSUME NEW i, Broadcasts(e, i), stage[e] # "none" PROVE HaveSent(e, i)' \/ Broadcasts(e, i)'
        BY <1>3, <1>5, <2>2 DEF Broadcasts
    <2>3. \A i : HaveSent(e, i)' \/ Broadcasts(e, i)' => HaveSent(e, i) \/ Broadcasts(e, i)
        BY <2>1 DEF Broadcasts
    <2>4. OneBits(e)'
        BY <1>2 DEF HeldOf
    <2>5. QED
        BY <1>2, <2>2, <2>3, <2>4, HeldKeeps
<1>7. HeldOf(o)'
    BY <1>1, <1>2, <1>3, HeldFrame
<1>8. o \notin raced' => InterestOf(o)'
    BY <1>1, <1>2, <1>3, InterestFrame DEF WireInv, InterestInv, WireTyped
<1>9. QED
    BY <1>2, <1>4, <1>6, <1>7, <1>8, BothEnds

(* It was not in checkInterested, and is not.                              *)
LEMMA WorkInterest ==
    ASSUME WireInv, NEW e \in Ends \ raced, NEW g \in W!Runs, NEW v \in Seq(WireStep), Scripted(v),
           work' = [work EXCEPT ![e][g] = v],
           UNCHANGED <<held, theirs, wants, told, wanted>>,
           ~Checks(e, g), ~AtIn(v, {"assign"}), ~AtIn(v, {"compare"}), ~AtIn(v, {"record"}),
           (ReadsIn(v) <=> Reads(e, g)) \/ theirs[e] = None,
           NoInterest(e)' => NoInterest(e), \A b : LastTold(e, b) => LastTold(e, b)'
    PROVE  InterestOf(e)'
<1>1. e \in Ends /\ WireTyped /\ WorkTyped /\ InterestOf(e) /\ Unknown
    BY DEF WireInv, InterestInv, WireTyped
<1>2. /\ Reads(e, g)' <=> ReadsIn(v)
      /\ \A does : At(e, g, does)' <=> AtIn(v, does)
      /\ \A f \in W!Runs : f # g => work'[e][f] = work[e][f]
    <2>1. /\ Reads(e, g)' <=> ReadsIn(v)
          /\ \A does : At(e, g, does)' <=> AtIn(v, does)
          /\ \A d \in Ends, f \in W!Runs : d # e \/ f # g => work'[d][f] = work[d][f]
        BY <1>1, WorkChanges, Zenon
    <2>2. QED
        BY <1>1, <2>1, Zenon
<1>3. \A f \in W!Runs : f # g =>
         /\ Reads(e, f)' <=> Reads(e, f)
         /\ \A does : At(e, f, does)' <=> At(e, f, does)
    BY <1>2, WorkFrame
<1>4. \A f \in W!Runs : /\ At(e, f, {"assign"})' <=> At(e, f, {"assign"})
                        /\ At(e, f, {"assign"}) => work'[e][f] = work[e][f]
                        /\ At(e, f, {"compare"})' <=> At(e, f, {"compare"})
                        /\ At(e, f, {"record"})' <=> At(e, f, {"record"})
    BY <1>2, <1>3 DEF Checks
<1>5. Want(e)' <=> Want(e)
    BY DEF Want
<1>6. Calm(e)' => Calm(e) \/ theirs[e] = None
    BY <1>2, <1>3 DEF Calm
<1>7. QED
    BY <1>1, <1>4, <1>5, <1>6, InterestKeeps

(* What a goroutine that has something to do leaves alone.                 *)
LEMMA WorkingFacts ==
    ASSUME WireInv, NEW e \in Ends, NEW g \in W!Runs, W!Working(e, g)
    PROVE  /\ WireTyped /\ HeldOf(e) /\ (e \notin raced => InterestOf(e)) /\ ~shut
           /\ work[e][g] \in Seq(WireStep) /\ work[e][g] # <<>> /\ Scripted(work[e][g])
           /\ work[e][g][1] \in WireStep
           /\ Tail(work[e][g]) = <<>> \o Tail(work[e][g])
           /\ UNCHANGED <<held, stage, snap, theirs, wanted, asked, shut, elsewhere>>
<1>1. WireTyped /\ HeldOf(e) /\ (e \notin raced => InterestOf(e))
    BY DEF WireInv, HeldInv, InterestInv
<1>2. UNCHANGED <<held, stage, snap, theirs, wanted, asked, shut, elsewhere>>
    BY DEF W!Working, W!Visit, W!ReadBitfields, W!Assign, W!Compare, W!Record, W!Unchoke,
        W!RunDownload, W!SendOne, W!flags
<1>3. ~shut /\ work[e][g] # <<>>
    BY DEF W!Working, W!Visit, W!ReadBitfields, W!Assign, W!Compare, W!Record, W!Unchoke,
        W!RunDownload, W!SendOne, W!Now
<1>4. work[e][g] \in Seq(WireStep) /\ Scripted(work[e][g])
    BY <1>1 DEF WireTyped, WorkTyped
<1> DEFINE w == work[e][g]
<1>5. w[1] \in WireStep /\ Tail(w) = <<>> \o Tail(w)
    <2>1. w \in Seq(WireStep) /\ w # <<>>
        BY <1>3, <1>4
    <2> HIDE DEF w
    <2>2. 1 \in 1 .. Len(w) /\ Tail(w) \in Seq(WireStep)
        BY <2>1
    <2>3. QED
        BY <2>1, <2>2
<1>6. QED
    BY <1>1, <1>2, <1>3, <1>4, <1>5

LEMMA VisitStep ==
    ASSUME WireInv, NEW e \in Ends, NEW g \in W!Runs, W!Visit(e, g)
    PROVE  WireInv'
<1> DEFINE w == work[e][g]
           v == IF stage[e] = "none" THEN <<>> ELSE Tail(w)
<1>1. W!Working(e, g)
    BY DEF W!Working
<1>2. /\ WireTyped /\ HeldOf(e) /\ w \in Seq(WireStep) /\ w # <<>> /\ Scripted(w)
      /\ UNCHANGED <<held, stage, snap, theirs, wanted, asked, shut, elsewhere>>
    BY <1>1, WorkingFacts
<1>3. /\ AtIn(w, {"visit"}) /\ UNCHANGED <<sent, wants, told, chokes, choked, downloads, raced>>
      /\ work' = [work EXCEPT ![e][g] = v]
    <2>1. Tail(w) = <<>> \o Tail(w)
        BY <1>1, WorkingFacts
    <2>2. w # <<>> /\ w[1].do = "visit"
        BY DEF W!Visit, W!Now, W!Doing
    <2>3. work' = [work EXCEPT ![e][g] = v]
        BY <2>1 DEF W!Visit, W!GoOn
    <2>4. QED
        BY <2>2, <2>3 DEF W!Visit, W!flags, AtIn
<1>4. /\ v \in Seq(WireStep) /\ Scripted(v)
      /\ \A i : DueIn(v, i) => DueIn(w, i)
      /\ stage[e] # "none" => (\A i : DueIn(w, i) => DueIn(v, i)) /\ (ReadsIn(v) <=> ReadsIn(w))
      /\ ~AtIn(v, {"assign"}) /\ ~AtIn(v, {"compare", "record"})
    <2>1. CASE stage[e] = "none"
        BY <2>1, NoSteps
    <2>2. CASE stage[e] # "none"
        <3> DEFINE t == Tail(w)
        <3>1. v = t /\ ~AtIn(w, {"read"})
            BY <1>3, <2>2 DEF AtIn
        <3>2. /\ t \in Seq(WireStep) /\ Scripted(t)
              /\ \A i : DueIn(w, i) <=> DueIn(t, i) \/ (AtIn(w, {"have", "visit"}) /\ w[1].arg = i)
              /\ \A i : AtIn(w, {"visit"}) /\ w[1].arg = i => DueIn(t, i)
              /\ ReadsIn(w) <=> ReadsIn(t) \/ AtIn(w, {"read"})
              /\ ~AtIn(t, {"assign"})
              /\ AtIn(w, {"visit", "unchoke", "download", "have", "piece"}) =>
                    ~AtIn(t, {"compare", "record"})
            BY <1>2, DropSteps
        <3>3. AtIn(w, {"visit", "unchoke", "download", "have", "piece"})
            BY <1>3 DEF AtIn
        <3> HIDE DEF t, v, w
        <3>4. QED
            BY <1>3, <2>2, <3>1, <3>2, <3>3
    <2>3. QED
        BY <2>1, <2>2
<1>5. \A i : Due(e, g, i) <=> DueIn(w, i)
    BY DEF Due
<1>6. WireFlags' /\ SentTyped' /\ Unknown'
    <2>1. WireFlags' /\ SentTyped'
        BY <1>2, <1>3 DEF WireTyped, WireFlags, SentTyped
    <2>2. \A d \in Ends, f \in W!Runs : At(d, f, {"assign"})' => work'[d][f] = work[d][f]
        <3>1. /\ \A does : At(e, g, does)' <=> AtIn(v, does)
              /\ \A d \in Ends, f \in W!Runs : d # e \/ f # g => work'[d][f] = work[d][f]
            <4>1. WorkTyped
                BY <1>2 DEF WireTyped
            <4> HIDE DEF v, w
            <4>2. QED
                BY <1>3, <1>4, <4>1, WorkChanges, Zenon
        <3>2. QED
            BY <1>4, <3>1
    <2>3. QED
        BY <1>2, <1>3, <2>1, <2>2, UnknownFrame DEF WireTyped
<1>7. /\ \A i : HaveSent(e, i)' <=> HaveSent(e, i)
      /\ \A i : BitSent(e, i)' <=> BitSent(e, i)
      /\ NoBits(e)' <=> NoBits(e)
      /\ OneBits(e)' <=> OneBits(e)
      /\ NoInterest(e)' <=> NoInterest(e)
      /\ \A b : LastTold(e, b)' <=> LastTold(e, b)
    BY <1>3, SentFrame
<1>8. stage[e] = "none" => theirs[e] = None
    BY <1>2 DEF HeldOf
<1>9. ~Checks(e, g) /\ (Reads(e, g) <=> ReadsIn(w))
    BY <1>3 DEF Checks, At, AtIn, Reads
<1>10. ~AtIn(v, {"compare"}) /\ ~AtIn(v, {"record"})
    BY <1>4 DEF AtIn
<1> HIDE DEF v, w
<1>11. e \notin raced' => InterestOf(e)'
    BY <1>2, <1>3, <1>4, <1>7, <1>8, <1>9, <1>10, WorkInterest
<1>12. QED
    BY <1>2, <1>3, <1>4, <1>5, <1>6, <1>7, <1>11, WorkEnds

LEMMA OtherStep ==
    ASSUME WireInv, NEW e \in Ends, NEW g \in W!Runs,
           W!Unchoke(e, g) \/ W!RunDownload(e, g) \/ W!SendOne(e, g)
    PROVE  WireInv'
<1> DEFINE w == work[e][g]
           v == Tail(w)
<1>1. W!Working(e, g)
    BY DEF W!Working
<1>2. /\ WireTyped /\ WorkTyped /\ HeldOf(e) /\ w \in Seq(WireStep) /\ w # <<>> /\ Scripted(w)
      /\ w[1] \in WireStep
      /\ UNCHANGED <<held, stage, snap, theirs, wanted, asked, shut, elsewhere>>
    BY <1>1, WorkingFacts DEF WireTyped
<1>3. /\ w[1].do \in {"unchoke", "download", "have", "piece"}
      /\ UNCHANGED <<wants, told, choked, raced>>
      /\ work' = [work EXCEPT ![e][g] = v]
      /\ chokes' = chokes \/ chokes' = [chokes EXCEPT ![e] = FALSE]
      /\ downloads' = downloads \/ downloads' = [downloads EXCEPT ![e] = TRUE]
    <2>1. v = <<>> \o v
        BY <1>1, WorkingFacts
    <2>2. CASE W!Unchoke(e, g)
        BY <2>1, <2>2 DEF W!Unchoke, W!Now, W!Doing, W!GoOn
    <2>3. CASE W!RunDownload(e, g)
        BY <2>1, <2>3 DEF W!RunDownload, W!Now, W!Doing, W!GoOn
    <2>4. CASE W!SendOne(e, g)
        BY <2>1, <2>4 DEF W!SendOne, W!Doing, W!GoOn, W!flags
    <2>5. QED
        BY <2>2, <2>3, <2>4
<1>4. \/ sent' = sent /\ w[1].do \in {"unchoke", "download"}
      \/ \E m \in WireMessage :
            /\ W!Send(e, m) /\ m.type \in {"unchoke", "have", "piece"}
            /\ m.type = "have" <=> w[1].do = "have"
            /\ m.type = "have" => m.arg = w[1].arg
    <2>1. CASE W!Unchoke(e, g)
        <3>1. W!Msg("unchoke", None) \in WireMessage /\ W!Msg("unchoke", None).type = "unchoke"
            BY DEF W!Msg, WireMessage
        <3>2. w[1].do = "unchoke" /\ (sent' = sent \/ W!Send(e, W!Msg("unchoke", None)))
            BY <2>1 DEF W!Unchoke, W!Now, W!Doing
        <3>3. QED
            BY <3>1, <3>2
    <2>2. CASE W!RunDownload(e, g)
        BY <2>2 DEF W!RunDownload, W!Now, W!Doing
    <2>3. CASE W!SendOne(e, g)
        <3> DEFINE d == w[1].do
                   i == w[1].arg
        <3>1. d \in {"have", "piece"} /\ W!Send(e, W!Msg(d, i))
            BY <2>3 DEF W!SendOne, W!Doing
        <3>2. i \in Parts
            BY <1>2, <3>1 DEF WireStep
        <3> HIDE DEF d, i
        <3>3. W!Msg(d, i) \in WireMessage /\ W!Msg(d, i).type = d /\ W!Msg(d, i).arg = i
            BY <3>1, <3>2 DEF W!Msg, WireMessage
        <3>4. QED
            BY <3>1, <3>3 DEF d, i
    <2>4. QED
        BY <2>1, <2>2, <2>3
<1>5. /\ v \in Seq(WireStep) /\ Scripted(v)
      /\ \A i : DueIn(w, i) <=> DueIn(v, i) \/ (w[1].do = "have" /\ w[1].arg = i)
      /\ ReadsIn(w) <=> ReadsIn(v)
      /\ ~AtIn(v, {"assign"}) /\ ~AtIn(v, {"compare", "record"})
    <2>1. /\ AtIn(w, {"visit", "unchoke", "download", "have", "piece"}) /\ ~AtIn(w, {"read"})
          /\ AtIn(w, {"have", "visit"}) <=> w[1].do = "have"
        BY <1>2, <1>3 DEF AtIn
    <2>2. /\ v \in Seq(WireStep) /\ Scripted(v)
          /\ \A i : DueIn(w, i) <=> DueIn(v, i) \/ (AtIn(w, {"have", "visit"}) /\ w[1].arg = i)
          /\ ReadsIn(w) <=> ReadsIn(v) \/ AtIn(w, {"read"})
          /\ ~AtIn(v, {"assign"})
          /\ AtIn(w, {"visit", "unchoke", "download", "have", "piece"}) =>
                ~AtIn(v, {"compare", "record"})
        BY <1>2, DropSteps
    <2> HIDE DEF v, w
    <2>3. QED
        BY <2>1, <2>2
<1>6. ~AtIn(v, {"compare"}) /\ ~AtIn(v, {"record"})
    BY <1>5 DEF AtIn
<1>7. ~Checks(e, g) /\ (Reads(e, g) <=> ReadsIn(w)) /\ \A i : Due(e, g, i) <=> DueIn(w, i)
    BY <1>3 DEF Checks, At, AtIn, Reads, Due
<1> HIDE DEF v
<1>8. /\ SentTyped' /\ \A d \in Ends \ {e} : sent'[d] = sent[d]
      /\ \A i : HaveSent(e, i)' <=> HaveSent(e, i) \/ (w[1].do = "have" /\ w[1].arg = i)
      /\ \A i : BitSent(e, i)' <=> BitSent(e, i)
      /\ NoBits(e)' <=> NoBits(e)
      /\ OneBits(e) => OneBits(e)'
      /\ NoInterest(e)' <=> NoInterest(e)
      /\ \A b : LastTold(e, b) => LastTold(e, b)'
    <2>1. CASE sent' = sent /\ w[1].do \in {"unchoke", "download"}
        <3>1. SentTyped' /\ \A d \in Ends \ {e} : sent'[d] = sent[d]
            BY <1>2, <2>1 DEF WireTyped, SentTyped
        <3>2. QED
            BY <2>1, <3>1, SentFrame
    <2>2. ASSUME NEW m \in WireMessage, W!Send(e, m), m.type \in {"unchoke", "have", "piece"},
                 m.type = "have" <=> w[1].do = "have", m.type = "have" => m.arg = w[1].arg
          PROVE  /\ SentTyped' /\ \A d \in Ends \ {e} : sent'[d] = sent[d]
                 /\ \A i : HaveSent(e, i)' <=> HaveSent(e, i) \/ (w[1].do = "have" /\ w[1].arg = i)
                 /\ \A i : BitSent(e, i)' <=> BitSent(e, i)
                 /\ NoBits(e)' <=> NoBits(e)
                 /\ OneBits(e) => OneBits(e)'
                 /\ NoInterest(e)' <=> NoInterest(e)
                 /\ \A b : LastTold(e, b) => LastTold(e, b)'
        <3> HIDE DEF w
        <3>1. SentTyped
            BY <1>2 DEF WireTyped
        <3>2. QED
            BY <2>2, <3>1, SendFacts
    <2>3. QED
        BY <1>4, <2>1, <2>2, Zenon
<1>9. WireFlags' /\ Unknown'
    <2>1. WireFlags'
        BY <1>2, <1>3 DEF WireTyped, WireFlags
    <2>2. \A d \in Ends, f \in W!Runs : At(d, f, {"assign"})' => work'[d][f] = work[d][f]
        <3>1. /\ \A does : At(e, g, does)' <=> AtIn(v, does)
              /\ \A d \in Ends, f \in W!Runs : d # e \/ f # g => work'[d][f] = work[d][f]
            BY <1>2, <1>3, <1>5, WorkChanges, Zenon
        <3>2. QED
            BY <1>5, <3>1
    <2>3. QED
        BY <1>2, <1>3, <2>1, <2>2, UnknownFrame DEF WireTyped
<1> HIDE DEF w
<1>10. e \notin raced' => InterestOf(e)'
    BY <1>2, <1>3, <1>5, <1>6, <1>7, <1>8, WorkInterest
<1>11. QED
    BY <1>2, <1>3, <1>5, <1>7, <1>8, <1>9, <1>10, WorkEnds

(* checkInterested: the bitfields are read, ...                            *)
LEMMA ReadStep ==
    ASSUME WireInv, NEW e \in Ends, NEW g \in W!Runs, W!ReadBitfields(e, g)
    PROVE  WireInv'
<1> DEFINE w == work[e][g]
           b == theirs[e] # None /\ theirs[e] \ held[e] # {}
           v == <<W!Step("assign", b)>> \o Tail(w)
<1>1. W!Working(e, g)
    BY DEF W!Working
<1>2. /\ WireTyped /\ WorkTyped /\ HeldOf(e) /\ w \in Seq(WireStep) /\ w # <<>> /\ Scripted(w)
      /\ UNCHANGED <<held, stage, snap, theirs, wanted, asked, shut, elsewhere>>
    BY <1>1, WorkingFacts DEF WireTyped
<1>3. /\ w[1].do = "read" /\ UNCHANGED <<sent, wants, told, chokes, choked, downloads>>
      /\ work' = [work EXCEPT ![e][g] = v]
    BY DEF W!ReadBitfields, W!Now, W!Doing, W!GoOn, W!flags
<1>4. /\ raced' = raced \/ raced' = raced \union {e}
      /\ e \notin raced' => \A h \in W!Runs : h # g => ~Checks(e, h)
    BY DEF W!ReadBitfields, W!Checking, W!Doing, Checks, At, AtIn
<1>5. b \in BOOLEAN /\ (b <=> Want(e)) /\ (theirs[e] = None => b = FALSE)
    BY DEF Want
<1> HIDE DEF b
<1>6. /\ v \in Seq(WireStep) /\ Scripted(v) /\ v # <<>> /\ v[1] = W!Step("assign", b)
      /\ \A i : DueIn(v, i) <=> DueIn(w, i)
      /\ ReadsIn(v) => ReadsIn(w)
    <2> HIDE DEF w
    <2>1. QED
        BY <1>2, <1>3, <1>5, AssignSteps
<1>7. v[1].do = "assign" /\ v[1].arg = b
    BY <1>6 DEF W!Step
<1>8. AtIn(v, {"assign"}) /\ ~AtIn(v, {"compare"}) /\ ~AtIn(v, {"record"})
    BY <1>6, <1>7 DEF AtIn
<1>9. ~Checks(e, g) /\ \A i : Due(e, g, i) <=> DueIn(w, i)
    BY <1>3 DEF Checks, At, AtIn, Due
<1> HIDE DEF v
<1>10. /\ \A does : At(e, g, does)' <=> AtIn(v, does)
       /\ work'[e][g] = v
       /\ \A d \in Ends, f \in W!Runs : d # e \/ f # g => work'[d][f] = work[d][f]
    BY <1>2, <1>3, <1>6, WorkChanges, Zenon
<1> HIDE DEF w
<1>11. \A f \in W!Runs : f # g => \A does : At(e, f, does)' <=> At(e, f, does)
    BY <1>10, WorkFrame
<1>12. WireFlags' /\ SentTyped' /\ Unknown'
    <2>1. WireFlags' /\ SentTyped'
        BY <1>2, <1>3 DEF WireTyped, WireFlags, SentTyped
    <2>2. ASSUME NEW d \in Ends, theirs'[d] = None
          PROVE  wants'[d] = FALSE /\ \A f \in W!Runs : At(d, f, {"assign"})' => work'[d][f][1].arg = FALSE
        <3>1. /\ wants'[d] = FALSE
              /\ \A f \in W!Runs : At(d, f, {"assign"}) => work[d][f][1].arg = FALSE
            BY <1>2, <1>3, <2>2 DEF WireTyped, Unknown
        <3>2. ASSUME NEW f \in W!Runs, At(d, f, {"assign"})' PROVE work'[d][f][1].arg = FALSE
            <4>1. CASE d = e /\ f = g
                BY <1>2, <1>5, <1>7, <1>10, <2>2, <4>1
            <4>2. CASE d # e \/ f # g
                <5>1. work'[d][f] = work[d][f]
                    BY <1>10, <4>2
                <5>2. At(d, f, {"assign"})
                    BY <3>2, <5>1, WorkFrame
                <5>3. QED
                    BY <3>1, <5>1, <5>2
            <4>3. QED
                BY <4>1, <4>2
        <3>3. QED
            BY <3>1, <3>2
    <2>3. QED
        BY <2>1, <2>2 DEF Unknown
<1>13. /\ \A i : HaveSent(e, i)' <=> HaveSent(e, i)
       /\ \A i : BitSent(e, i)' <=> BitSent(e, i)
       /\ NoBits(e)' <=> NoBits(e)
       /\ OneBits(e)' <=> OneBits(e)
       /\ NoInterest(e)' <=> NoInterest(e)
       /\ \A c : LastTold(e, c)' <=> LastTold(e, c)
    BY <1>3, SentFrame
<1>14. e \notin raced' => InterestOf(e)'
    <2>1. SUFFICES ASSUME e \notin raced' PROVE InterestOf(e)'
        OBVIOUS
    <2>2. InterestOf(e) /\ \A f \in W!Runs : ~Checks(e, f)
        BY <1>4, <1>9, <2>1 DEF WireInv, InterestInv
    <2>3. \A f \in W!Runs : /\ Checks(e, f)' => f = g
                            /\ ~At(e, f, {"record"})' /\ (f # g => ~At(e, f, {"assign"})')
        BY <1>8, <1>10, <1>11, <2>2 DEF Checks
    <2>4. Said(e)' = told[e] /\ Said(e) = told[e]
        BY <1>3, <2>2, <2>3 DEF Said, Checks
    <2>5. told[e] = wants[e]
        BY <2>2 DEF InterestOf, Checks
    <2>6. (NoInterest(e)' => wanted'[W!Other(e)] = Said(e)') /\ \A c : c = Said(e)' => LastTold(e, c)'
        BY <1>2, <1>13, <2>2, <2>4 DEF InterestOf
    <2>7. Want(e)' <=> Want(e)
        BY <1>2 DEF Want
    <2>8. \A f \in W!Runs : At(e, f, {"assign"})' => (work'[e][f][1].arg <=> Want(e)')
        BY <1>5, <1>7, <1>10, <2>3, <2>7
    <2>9. At(e, g, {"assign"})'
        BY <1>8, <1>10
    <2>10. QED
        BY <1>3, <2>3, <2>5, <2>6, <2>8, <2>9 DEF InterestOf
<1>15. QED
    BY <1>2, <1>3, <1>4, <1>6, <1>9, <1>12, <1>13, <1>14, WorkEnds

(* ... the result is stored, ...                                           *)
LEMMA AssignStep ==
    ASSUME WireInv, NEW e \in Ends, NEW g \in W!Runs, W!Assign(e, g)
    PROVE  WireInv'
<1> DEFINE w == work[e][g]
           v == Tail(w)
           b == w[1].arg
<1>1. W!Working(e, g)
    BY DEF W!Working
<1>2. /\ WireTyped /\ WorkTyped /\ HeldOf(e) /\ w \in Seq(WireStep) /\ w # <<>> /\ Scripted(w)
      /\ w[1] \in WireStep /\ v = <<>> \o v
      /\ UNCHANGED <<held, stage, snap, theirs, wanted, asked, shut, elsewhere>>
    BY <1>1, WorkingFacts DEF WireTyped
<1>3. /\ w[1].do = "assign" /\ UNCHANGED <<sent, told, chokes, choked, downloads, raced>>
      /\ wants' = [wants EXCEPT ![e] = b]
      /\ work' = [work EXCEPT ![e][g] = v]
    BY <1>2 DEF W!Assign, W!Now, W!Doing, W!GoOn
<1>4. b \in BOOLEAN
    BY <1>2, <1>3 DEF WireStep
<1>5. /\ v \in Seq(WireStep) /\ Scripted(v)
      /\ \A i : DueIn(w, i) <=> DueIn(v, i) \/ (AtIn(w, {"have", "visit"}) /\ w[1].arg = i)
      /\ ReadsIn(w) <=> ReadsIn(v) \/ AtIn(w, {"read"})
      /\ ~AtIn(v, {"assign"}) /\ (AtIn(w, {"assign"}) => AtIn(v, {"compare"}))
    BY <1>2, DropSteps
<1>6. /\ AtIn(w, {"assign"}) /\ ~AtIn(w, {"have", "visit"}) /\ ~AtIn(w, {"read"})
      /\ AtIn(v, {"compare"}) => ~AtIn(v, {"record"})
    BY <1>2, <1>3 DEF AtIn
<1>7. /\ At(e, g, {"assign"}) /\ Checks(e, g) /\ (Reads(e, g) <=> ReadsIn(w))
      /\ \A i : Due(e, g, i) <=> DueIn(w, i)
    BY <1>6 DEF Checks, At, Reads, Due
<1> HIDE DEF v
<1>8. /\ \A does : At(e, g, does)' <=> AtIn(v, does)
      /\ Reads(e, g)' <=> ReadsIn(v)
      /\ \A d \in Ends, f \in W!Runs : d # e \/ f # g => work'[d][f] = work[d][f]
    BY <1>2, <1>3, <1>5, WorkChanges, Zenon
<1>9. wants'[e] = b /\ \A d \in Ends \ {e} : wants'[d] = wants[d]
    BY <1>2, <1>3 DEF WireTyped, WireFlags
<1>10. theirs[e] = None => b = FALSE
    BY <1>2, <1>7 DEF WireTyped, Unknown
<1>11. InterestOf(e) => (Calm(e) => (b <=> Want(e)))
    BY <1>7 DEF InterestOf
<1>12. wants' \in [Ends -> BOOLEAN]
    BY <1>2, <1>3, <1>4 DEF WireTyped, WireFlags
<1> HIDE DEF w, b
<1>13. \A f \in W!Runs : f # g =>
          (Reads(e, f)' <=> Reads(e, f)) /\ \A does : At(e, f, does)' <=> At(e, f, does)
    BY <1>8, WorkFrame
<1>14. WireFlags' /\ SentTyped' /\ Unknown'
    <2>1. WireFlags' /\ SentTyped'
        BY <1>2, <1>3, <1>12 DEF WireTyped, WireFlags, SentTyped
    <2>2. ASSUME NEW d \in Ends, theirs'[d] = None
          PROVE  wants'[d] = FALSE /\ \A f \in W!Runs : At(d, f, {"assign"})' => work'[d][f][1].arg = FALSE
        <3>1. /\ wants[d] = FALSE
              /\ \A f \in W!Runs : At(d, f, {"assign"}) => work[d][f][1].arg = FALSE
            BY <1>2, <2>2 DEF WireTyped, Unknown
        <3>2. wants'[d] = FALSE
            BY <1>2, <1>9, <1>10, <2>2, <3>1
        <3>3. ASSUME NEW f \in W!Runs, At(d, f, {"assign"})' PROVE work'[d][f][1].arg = FALSE
            <4>1. d # e \/ f # g
                BY <1>5, <1>8, <3>3
            <4>2. work'[d][f] = work[d][f]
                BY <1>8, <4>1
            <4>3. At(d, f, {"assign"})
                BY <3>3, <4>2, WorkFrame
            <4>4. QED
                BY <3>1, <4>2, <4>3
        <3>4. QED
            BY <3>2, <3>3
    <2>3. QED
        BY <2>1, <2>2 DEF Unknown
<1>15. /\ \A i : HaveSent(e, i)' <=> HaveSent(e, i)
       /\ \A i : BitSent(e, i)' <=> BitSent(e, i)
       /\ NoBits(e)' <=> NoBits(e)
       /\ OneBits(e)' <=> OneBits(e)
       /\ NoInterest(e)' <=> NoInterest(e)
       /\ \A c : LastTold(e, c)' <=> LastTold(e, c)
    BY <1>3, SentFrame
<1>16. e \notin raced' => InterestOf(e)'
    <2>1. SUFFICES ASSUME e \notin raced' PROVE InterestOf(e)'
        OBVIOUS
    <2>2. InterestOf(e)
        BY <1>3, <2>1 DEF WireInv, InterestInv
    <2>3. \A f \in W!Runs : f # g => ~Checks(e, f)
        BY <1>7, <2>2 DEF InterestOf
    <2>4. \A f \in W!Runs : /\ Checks(e, f)' => f = g
                            /\ ~At(e, f, {"record"})' /\ ~At(e, f, {"assign"})'
        BY <1>5, <1>6, <1>8, <1>13, <2>3 DEF Checks
    <2>5. \A f \in W!Runs : ~At(e, f, {"record"})
        BY <1>6, <1>7, <2>3 DEF Checks, At, AtIn
    <2>6. Said(e)' = told[e] /\ Said(e) = told[e]
        BY <1>3, <2>4, <2>5 DEF Said
    <2>7. (NoInterest(e)' => wanted'[W!Other(e)] = Said(e)') /\ \A c : c = Said(e)' => LastTold(e, c)'
        BY <1>2, <1>15, <2>2, <2>6 DEF InterestOf
    <2>8. (Want(e)' <=> Want(e)) /\ (Calm(e)' <=> Calm(e))
        BY <1>2, <1>5, <1>6, <1>7, <1>8, <1>13 DEF Want, Calm
    <2>9. At(e, g, {"compare"})'
        BY <1>5, <1>6, <1>8
    <2>10. Calm(e)' => (wants'[e] <=> Want(e)')
        BY <1>9, <1>11, <2>2, <2>8
    <2>11. QED
        BY <2>4, <2>7, <2>9, <2>10 DEF InterestOf
<1>17. QED
    BY <1>2, <1>3, <1>5, <1>6, <1>7, <1>9, <1>14, <1>15, <1>16, WorkEnds

(* ... compared with what was sent last, and sent if it is different, ...  *)
LEMMA CompareStep ==
    ASSUME WireInv, NEW e \in Ends, NEW g \in W!Runs, W!Compare(e, g)
    PROVE  WireInv'
<1> DEFINE w == work[e][g]
           t == Tail(w)
           u == Tail(t)
           m == W!Msg("interest", wants[e])
<1>1. W!Working(e, g)
    BY DEF W!Working
<1>2. /\ WireTyped /\ WorkTyped /\ SentTyped /\ HeldOf(e) /\ w \in Seq(WireStep) /\ w # <<>>
      /\ Scripted(w) /\ t = <<>> \o t
      /\ UNCHANGED <<held, stage, snap, theirs, wanted, asked, shut, elsewhere>>
    BY <1>1, WorkingFacts DEF WireTyped
<1>3. /\ w[1].do = "compare" /\ UNCHANGED <<wants, told, chokes, choked, downloads, raced>>
      /\ \/ wants[e] = told[e] /\ work' = [work EXCEPT ![e][g] = u] /\ sent' = sent
         \/ wants[e] # told[e] /\ work' = [work EXCEPT ![e][g] = t] /\ W!Send(e, m)
    BY <1>2 DEF W!Compare, W!Now, W!Doing, W!GoOn, W!flags
<1>4. wants[e] \in BOOLEAN
    BY <1>2 DEF WireTyped, WireFlags
<1>5. m \in WireMessage /\ m.type = "interest" /\ m.arg = wants[e]
    BY <1>4 DEF W!Msg, WireMessage
<1> HIDE DEF m
<1>6. /\ t \in Seq(WireStep) /\ Scripted(t)
      /\ \A i : DueIn(w, i) <=> DueIn(t, i) \/ (AtIn(w, {"have", "visit"}) /\ w[1].arg = i)
      /\ ReadsIn(w) <=> ReadsIn(t) \/ AtIn(w, {"read"})
      /\ AtIn(w, {"compare"}) => AtIn(t, {"record"})
    BY <1>2, DropSteps
<1>7. /\ AtIn(w, {"compare"}) /\ ~AtIn(w, {"have", "visit"}) /\ ~AtIn(w, {"read"})
      /\ ~AtIn(w, {"assign"}) /\ ~AtIn(w, {"record"})
    BY <1>2, <1>3 DEF AtIn
<1>8. /\ At(e, g, {"compare"}) /\ Checks(e, g) /\ ~At(e, g, {"assign"}) /\ ~At(e, g, {"record"})
      /\ Reads(e, g) <=> ReadsIn(w)
      /\ \A i : Due(e, g, i) <=> DueIn(w, i)
    BY <1>7 DEF Checks, At, Reads, Due
<1> HIDE DEF t, w
<1>9. /\ t # <<>> /\ AtIn(t, {"record"}) /\ ~AtIn(t, {"have", "visit"}) /\ ~AtIn(t, {"read"})
      /\ ~AtIn(t, {"assign"}) /\ ~AtIn(t, {"compare"})
    BY <1>6, <1>7 DEF AtIn
<1>10. /\ u \in Seq(WireStep) /\ Scripted(u)
       /\ \A i : DueIn(t, i) <=> DueIn(u, i) \/ (AtIn(t, {"have", "visit"}) /\ t[1].arg = i)
       /\ ReadsIn(t) <=> ReadsIn(u) \/ AtIn(t, {"read"})
       /\ ~AtIn(u, {"assign"})
    BY <1>6, <1>9, DropSteps
<1> HIDE DEF u
<1>11. /\ WireFlags'
       /\ \A d \in Ends \ {e} : wants'[d] = wants[d] /\ told'[d] = told[d]
    BY <1>2, <1>3 DEF WireTyped, WireFlags
(* The steps v that are left are t, or u.                                  *)
<1>12. ASSUME NEW v \in {t, u}, work' = [work EXCEPT ![e][g] = v]
       PROVE  /\ Unknown' /\ v \in Seq(WireStep) /\ Scripted(v)
              /\ (Calm(e)' <=> Calm(e)) /\ (Want(e)' <=> Want(e))
              /\ \A i : Due(e, g, i) <=> DueIn(v, i)
              /\ \A does : At(e, g, does)' <=> AtIn(v, does)
              /\ \A f \in W!Runs : f # g => \A does : At(e, f, does)' <=> At(e, f, does)
              /\ \A f \in W!Runs : At(e, f, {"assign"})' <=> At(e, f, {"assign"})
              /\ \A f \in W!Runs : At(e, f, {"assign"})' => work'[e][f] = work[e][f]
              /\ \A f \in W!Runs : f # g => (Checks(e, f)' <=> Checks(e, f))
    <2>1. /\ v \in Seq(WireStep) /\ Scripted(v) /\ ~AtIn(v, {"assign"})
          /\ ReadsIn(v) <=> ReadsIn(w)
          /\ \A i : DueIn(v, i) <=> DueIn(w, i)
        BY <1>6, <1>7, <1>9, <1>10
    <2>2. /\ \A does : At(e, g, does)' <=> AtIn(v, does)
          /\ Reads(e, g)' <=> ReadsIn(v)
          /\ \A d \in Ends, f \in W!Runs : d # e \/ f # g => work'[d][f] = work[d][f]
        BY <1>2, <1>12, <2>1, WorkChanges, Zenon
    <2>3. \A d \in Ends, f \in W!Runs : At(d, f, {"assign"})' => work'[d][f] = work[d][f]
        BY <2>1, <2>2
    <2>4. Unknown'
        BY <1>2, <1>3, <2>3, UnknownFrame DEF WireTyped
    <2>5. \A f \in W!Runs : f # g =>
             (Reads(e, f)' <=> Reads(e, f)) /\ \A does : At(e, f, does)' <=> At(e, f, does)
        BY <2>2, WorkFrame
    <2>6. (Calm(e)' <=> Calm(e)) /\ (Want(e)' <=> Want(e))
        BY <1>2, <1>8, <2>1, <2>2, <2>5 DEF Calm, Want
    <2>7. \A f \in W!Runs : At(e, f, {"assign"})' <=> At(e, f, {"assign"})
        BY <1>8, <2>1, <2>2, <2>5
    <2>8. \A f \in W!Runs : f # g => (Checks(e, f)' <=> Checks(e, f))
        BY <2>5 DEF Checks
    <2>9. QED
        BY <1>8, <2>1, <2>2, <2>3, <2>4, <2>5, <2>6, <2>7, <2>8
<1>13. ASSUME e \notin raced
       PROVE  /\ InterestOf(e) /\ \A f \in W!Runs : f # g => ~Checks(e, f)
              /\ Said(e) = told[e]
    <2>1. InterestOf(e)
        BY <1>13 DEF WireInv, InterestInv
    <2>2. \A f \in W!Runs : f # g => ~Checks(e, f)
        BY <1>8, <2>1 DEF InterestOf
    <2>3. Said(e) = told[e]
        BY <1>8, <2>2 DEF Said, Checks
    <2>4. QED
        BY <2>1, <2>2, <2>3
<1>14. CASE wants[e] = told[e] /\ work' = [work EXCEPT ![e][g] = u] /\ sent' = sent
    <2>1. /\ \A i : HaveSent(e, i)' <=> HaveSent(e, i)
          /\ \A i : BitSent(e, i)' <=> BitSent(e, i)
          /\ NoBits(e)' <=> NoBits(e)
          /\ OneBits(e)' <=> OneBits(e)
          /\ NoInterest(e)' <=> NoInterest(e)
          /\ \A c : LastTold(e, c)' <=> LastTold(e, c)
        BY <1>14, SentFrame
    <2>2. e \notin raced' => InterestOf(e)'
        <3>1. SUFFICES ASSUME e \notin raced' PROVE InterestOf(e)'
            OBVIOUS
        <3>2. /\ InterestOf(e) /\ \A f \in W!Runs : f # g => ~Checks(e, f)
              /\ Said(e) = told[e]
            BY <1>3, <1>13, <3>1
        <3>3. \A f \in W!Runs : Checks(e, f)' => f = g
            BY <1>12, <1>14, <3>2
        <3>4. Said(e)' = told[e]
            BY <1>3, <1>14 DEF Said
        <3>5. (NoInterest(e)' => wanted'[W!Other(e)] = Said(e)') /\ \A c : c = Said(e)' => LastTold(e, c)'
            BY <1>2, <2>1, <3>2, <3>4 DEF InterestOf
        <3>6. Calm(e)' => /\ \A f \in W!Runs : At(e, f, {"assign"})' => (work'[e][f][1].arg <=> Want(e)')
                          /\ (\A f \in W!Runs : ~At(e, f, {"assign"})') => (wants'[e] <=> Want(e)')
            BY <1>3, <1>12, <1>14, <3>2 DEF InterestOf
        <3>7. QED
            BY <1>3, <1>14, <3>3, <3>5, <3>6 DEF InterestOf
    <2>3. SentTyped' /\ \A d \in Ends \ {e} : sent'[d] = sent[d]
        BY <1>2, <1>14 DEF SentTyped
    <2>4. QED
        BY <1>2, <1>3, <1>11, <1>12, <1>14, <2>1, <2>2, <2>3, WorkEnds
<1>15. CASE wants[e] # told[e] /\ work' = [work EXCEPT ![e][g] = t] /\ W!Send(e, m)
    <2>1. /\ SentTyped' /\ \A d \in Ends \ {e} : sent'[d] = sent[d]
          /\ \A i : HaveSent(e, i)' <=> HaveSent(e, i)
          /\ \A i : BitSent(e, i)' <=> BitSent(e, i)
          /\ NoBits(e)' <=> NoBits(e)
          /\ OneBits(e) => OneBits(e)'
          /\ ~NoInterest(e)' /\ \A c : c = wants[e] => LastTold(e, c)'
        <3>1. PICK x \in WireMessage : W!Send(e, x) /\ x.type = "interest" /\ x.arg = wants[e]
            BY <1>5, <1>15, Zenon
        <3>2. /\ SentTyped' /\ \A d \in Ends \ {e} : sent'[d] = sent[d]
              /\ \A i : HaveSent(e, i)' <=> HaveSent(e, i) \/ (x.type = "have" /\ x.arg = i)
              /\ \A i : BitSent(e, i)' <=> BitSent(e, i) \/ (x.type = "bitfield" /\ i \in x.arg)
              /\ NoBits(e)' <=> NoBits(e) /\ x.type # "bitfield"
              /\ OneBits(e) /\ (NoBits(e) \/ x.type # "bitfield") => OneBits(e)'
              /\ NoInterest(e)' <=> NoInterest(e) /\ x.type # "interest"
              /\ x.type = "interest" => LastTold(e, x.arg)'
            BY <1>2, <3>1, SendFacts
        <3>3. QED
            BY <3>1, <3>2
    <2>2. e \notin raced' => InterestOf(e)'
        <3>1. SUFFICES ASSUME e \notin raced' PROVE InterestOf(e)'
            OBVIOUS
        <3>2. InterestOf(e) /\ \A f \in W!Runs : f # g => ~Checks(e, f)
            BY <1>3, <1>13, <3>1
        <3>3. \A f \in W!Runs : Checks(e, f)' => f = g
            BY <1>12, <1>15, <3>2
        <3>4. At(e, g, {"record"})' /\ Said(e)' = wants[e]
            BY <1>3, <1>9, <1>12, <1>15 DEF Said
        <3>5. \A c : c = Said(e)' => LastTold(e, c)'
            BY <2>1, <3>4
        <3>6. Calm(e)' => /\ \A f \in W!Runs : At(e, f, {"assign"})' => (work'[e][f][1].arg <=> Want(e)')
                          /\ (\A f \in W!Runs : ~At(e, f, {"assign"})') => (wants'[e] <=> Want(e)')
            BY <1>3, <1>12, <1>15, <3>2 DEF InterestOf
        <3>7. QED
            BY <2>1, <3>3, <3>4, <3>5, <3>6 DEF InterestOf
    <2>3. QED
        BY <1>2, <1>3, <1>11, <1>12, <1>15, <2>1, <2>2, WorkEnds
<1>16. QED
    BY <1>3, <1>14, <1>15

(* ... and recorded as sent.                                               *)
LEMMA RecordStep ==
    ASSUME WireInv, NEW e \in Ends, NEW g \in W!Runs, W!Record(e, g)
    PROVE  WireInv'
<1> DEFINE w == work[e][g]
           v == Tail(w)
<1>1. W!Working(e, g)
    BY DEF W!Working
<1>2. /\ WireTyped /\ WorkTyped /\ HeldOf(e) /\ w \in Seq(WireStep) /\ w # <<>> /\ Scripted(w)
      /\ v = <<>> \o v
      /\ UNCHANGED <<held, stage, snap, theirs, wanted, asked, shut, elsewhere>>
    BY <1>1, WorkingFacts DEF WireTyped
<1>3. /\ w[1].do = "record" /\ UNCHANGED <<sent, wants, chokes, choked, downloads, raced>>
      /\ told' = [told EXCEPT ![e] = wants[e]]
      /\ work' = [work EXCEPT ![e][g] = v]
    BY <1>2 DEF W!Record, W!Now, W!Doing, W!GoOn
<1>4. /\ told'[e] = wants[e] /\ (\A d \in Ends \ {e} : told'[d] = told[d])
      /\ told' \in [Ends -> BOOLEAN]
    BY <1>2, <1>3 DEF WireTyped, WireFlags
<1>5. /\ v \in Seq(WireStep) /\ Scripted(v)
      /\ \A i : DueIn(w, i) <=> DueIn(v, i) \/ (AtIn(w, {"have", "visit"}) /\ w[1].arg = i)
      /\ ReadsIn(w) <=> ReadsIn(v) \/ AtIn(w, {"read"})
      /\ ~AtIn(v, {"assign"})
    BY <1>2, DropSteps
<1>6. /\ AtIn(w, {"record"}) /\ ~AtIn(w, {"have", "visit"}) /\ ~AtIn(w, {"read"})
      /\ ~AtIn(w, {"assign"})
    BY <1>2, <1>3 DEF AtIn
<1>7. /\ At(e, g, {"record"}) /\ Checks(e, g) /\ ~At(e, g, {"assign"})
      /\ Reads(e, g) <=> ReadsIn(w)
      /\ \A i : Due(e, g, i) <=> DueIn(w, i)
    BY <1>6 DEF Checks, At, Reads, Due
<1> HIDE DEF v
<1>8. /\ \A does : At(e, g, does)' <=> AtIn(v, does)
      /\ Reads(e, g)' <=> ReadsIn(v)
      /\ \A d \in Ends, f \in W!Runs : d # e \/ f # g => work'[d][f] = work[d][f]
    BY <1>2, <1>3, <1>5, WorkChanges, Zenon
<1> HIDE DEF w
<1>9. \A f \in W!Runs : f # g =>
          (Reads(e, f)' <=> Reads(e, f)) /\ \A does : At(e, f, does)' <=> At(e, f, does)
    BY <1>8, WorkFrame
<1>10. WireFlags' /\ SentTyped' /\ Unknown'
    <2>1. WireFlags' /\ SentTyped'
        BY <1>2, <1>3, <1>4 DEF WireTyped, WireFlags, SentTyped
    <2>2. \A d \in Ends, f \in W!Runs : At(d, f, {"assign"})' => work'[d][f] = work[d][f]
        BY <1>5, <1>8
    <2>3. QED
        BY <1>2, <1>3, <2>1, <2>2, UnknownFrame DEF WireTyped
<1>11. /\ \A i : HaveSent(e, i)' <=> HaveSent(e, i)
       /\ \A i : BitSent(e, i)' <=> BitSent(e, i)
       /\ NoBits(e)' <=> NoBits(e)
       /\ OneBits(e)' <=> OneBits(e)
       /\ NoInterest(e)' <=> NoInterest(e)
       /\ \A c : LastTold(e, c)' <=> LastTold(e, c)
    BY <1>3, SentFrame
<1>12. e \notin raced' => InterestOf(e)'
    <2>1. SUFFICES ASSUME e \notin raced' PROVE InterestOf(e)'
        OBVIOUS
    <2>2. InterestOf(e)
        BY <1>3, <2>1 DEF WireInv, InterestInv
    <2>3. \A f \in W!Runs : f # g => ~Checks(e, f)
        BY <1>7, <2>2 DEF InterestOf
    <2>4. \A f \in W!Runs : Checks(e, f)' => f = g
        BY <1>9, <2>3 DEF Checks
    <2>5. Said(e) = wants[e] /\ Said(e)' = wants[e]
        BY <1>3, <1>4, <1>7 DEF Said
    <2>6. (NoInterest(e)' => wanted'[W!Other(e)] = Said(e)') /\ \A c : c = Said(e)' => LastTold(e, c)'
        BY <1>2, <1>11, <2>2, <2>5 DEF InterestOf
    <2>7. (Want(e)' <=> Want(e)) /\ (Calm(e)' <=> Calm(e))
        BY <1>2, <1>5, <1>6, <1>7, <1>8, <1>9 DEF Want, Calm
    <2>8. \A f \in W!Runs : ~At(e, f, {"assign"})' /\ ~At(e, f, {"assign"})
        BY <1>5, <1>7, <1>8, <1>9, <2>3 DEF Checks
    <2>9. Calm(e)' => (wants'[e] <=> Want(e)')
        BY <1>3, <2>2, <2>7, <2>8 DEF InterestOf
    <2>10. QED
        BY <1>3, <1>4, <2>4, <2>6, <2>8, <2>9 DEF InterestOf
<1>13. QED
    BY <1>2, <1>3, <1>4, <1>5, <1>6, <1>7, <1>10, <1>11, <1>12, WorkEnds

(* A goroutine g of end e that had nothing to do starts on v.              *)
LEMMA StartFacts ==
    ASSUME WireInv, NEW e \in Ends, NEW g \in W!Runs, work[e][g] = <<>>,
           NEW v \in Seq(WireStep), Scripted(v), work' = [work EXCEPT ![e][g] = v],
           ~AtIn(v, {"assign", "compare", "record"})
    PROVE  /\ WorkTyped'
           /\ \A i : Broadcasts(e, i)' <=> Broadcasts(e, i) \/ DueIn(v, i)
           /\ Calm(e)' <=> Calm(e) /\ ~ReadsIn(v)
           /\ \A f \in W!Runs : /\ At(e, f, {"assign"})' <=> At(e, f, {"assign"})
                                /\ At(e, f, {"assign"}) => work'[e][f] = work[e][f]
                                /\ At(e, f, {"compare"})' <=> At(e, f, {"compare"})
                                /\ At(e, f, {"record"})' <=> At(e, f, {"record"})
           /\ \A d \in Ends \ {e} : \A f \in W!Runs : work'[d][f] = work[d][f]
           /\ \A d \in Ends, f \in W!Runs : At(d, f, {"assign"})' => work'[d][f] = work[d][f]
<1>1. WorkTyped
    BY DEF WireInv, WireTyped
<1>2. /\ WorkTyped' /\ work'[e][g] = v
      /\ \A d \in Ends, f \in W!Runs : d # e \/ f # g => work'[d][f] = work[d][f]
      /\ \A i : Due(e, g, i)' <=> DueIn(v, i)
      /\ Reads(e, g)' <=> ReadsIn(v)
      /\ \A does : At(e, g, does)' <=> AtIn(v, does)
    BY <1>1, WorkChanges, Zenon
<1>3. (\A i : ~Due(e, g, i)) /\ ~Reads(e, g) /\ \A does : ~At(e, g, does)
    BY NoSteps DEF Due, Reads, At
<1>4. ~AtIn(v, {"assign"}) /\ ~AtIn(v, {"compare"}) /\ ~AtIn(v, {"record"})
    BY DEF AtIn
<1>5. \A f \in W!Runs : f # g =>
         /\ \A i : Due(e, f, i)' <=> Due(e, f, i)
         /\ Reads(e, f)' <=> Reads(e, f)
         /\ \A does : At(e, f, does)' <=> At(e, f, does)
    BY <1>2, WorkFrame
<1>6. \A i : Broadcasts(e, i)' <=> Broadcasts(e, i) \/ DueIn(v, i)
    BY <1>2, <1>3, <1>5 DEF Broadcasts
<1>7. Calm(e)' <=> Calm(e) /\ ~ReadsIn(v)
    BY <1>2, <1>3, <1>5 DEF Calm
<1>8. \A f \in W!Runs : /\ At(e, f, {"assign"})' <=> At(e, f, {"assign"})
                        /\ At(e, f, {"assign"}) => work'[e][f] = work[e][f]
                        /\ At(e, f, {"compare"})' <=> At(e, f, {"compare"})
                        /\ At(e, f, {"record"})' <=> At(e, f, {"record"})
    BY <1>2, <1>3, <1>4, <1>5
<1>9. \A d \in Ends, f \in W!Runs : At(d, f, {"assign"})' => work'[d][f] = work[d][f]
    BY <1>2, <1>4
<1>10. QED
    BY <1>2, <1>6, <1>7, <1>8, <1>9

LEMMA StartInterest ==
    ASSUME WireInv, NEW e \in Ends \ raced, NEW g \in W!Runs, work[e][g] = <<>>,
           NEW v \in Seq(WireStep), Scripted(v), work' = [work EXCEPT ![e][g] = v],
           ~AtIn(v, {"assign", "compare", "record"}),
           wants'[e] = wants[e], told'[e] = told[e], wanted'[W!Other(e)] = wanted[W!Other(e)],
           sent'[e] = sent[e],
           ReadsIn(v) \/ (theirs'[e] = theirs[e] /\ held'[e] = held[e])
    PROVE  InterestOf(e)'
<1>1. InterestOf(e) /\ Unknown
    BY DEF WireInv, InterestInv, WireTyped
<1>2. /\ Calm(e)' <=> Calm(e) /\ ~ReadsIn(v)
      /\ \A f \in W!Runs : /\ At(e, f, {"assign"})' <=> At(e, f, {"assign"})
                           /\ At(e, f, {"assign"}) => work'[e][f] = work[e][f]
                           /\ At(e, f, {"compare"})' <=> At(e, f, {"compare"})
                           /\ At(e, f, {"record"})' <=> At(e, f, {"record"})
    <2>1. e \in Ends
        OBVIOUS
    <2>2. QED
        BY <2>1, StartFacts
<1>3. ~ReadsIn(v) => (Want(e)' <=> Want(e))
    BY DEF Want
<1>4. NoInterest(e)' => NoInterest(e)
    BY SentFrame
<1>5. \A b : LastTold(e, b) => LastTold(e, b)'
    BY SentFrame
<1>6. QED
    BY <1>1, <1>2, <1>3, <1>4, <1>5, InterestKeeps

(* The first message m of end o is taken, and it is none that matters.     *)
LEMMA TakeHeld ==
    ASSUME WireInv, NEW o \in Ends, sent[o] # <<>>, sent' = [sent EXCEPT ![o] = Tail(@)],
           Head(sent[o]).type \notin {"bitfield", "have"},
           held'[o] = held[o], snap'[o] = snap[o], stage'[o] = stage[o], theirs'[o] = theirs[o],
           theirs'[W!Other(o)] = theirs[W!Other(o)], shut' = shut,
           \A f \in W!Runs : work'[o][f] = work[o][f]
    PROVE  HeldOf(o)'
<1>1. SentTyped /\ HeldOf(o)
    BY DEF WireInv, WireTyped, HeldInv
<1>2. PICK h : h = Head(sent[o])
    OBVIOUS
<1>3. /\ \A i : HaveSent(o, i) <=> HaveSent(o, i)'
      /\ \A i : BitSent(o, i) <=> BitSent(o, i)'
      /\ NoBits(o) <=> NoBits(o)'
      /\ OneBits(o) => OneBits(o)'
    BY <1>1, <1>2, TakeFacts
<1>4. \A i : Broadcasts(o, i)' <=> Broadcasts(o, i)
    BY WorkFrame DEF Broadcasts
<1>5. OneBits(o)'
    BY <1>1, <1>3 DEF HeldOf
<1>6. QED
    BY <1>1, <1>3, <1>4, <1>5, HeldKeeps

LEMMA TakeTold ==
    ASSUME SentTyped, NEW e \in Ends, sent[e] # <<>>, sent' = [sent EXCEPT ![e] = Tail(@)],
           NEW h, h = Head(sent[e]), NEW b, LastTold(e, b), h.type = "interest", NoInterest(e)'
    PROVE  h.arg = b
BY TakeFacts

LEMMA TakeInterest ==
    ASSUME WireInv, NEW o \in Ends \ raced, sent[o] # <<>>, sent' = [sent EXCEPT ![o] = Tail(@)],
           held'[o] = held[o], theirs'[o] = theirs[o], wants'[o] = wants[o], told'[o] = told[o],
           \/ Head(sent[o]).type # "interest" /\ wanted'[W!Other(o)] = wanted[W!Other(o)]
           \/ Head(sent[o]).type = "interest" /\ wanted'[W!Other(o)] = Head(sent[o]).arg,
           \A f \in W!Runs : work'[o][f] = work[o][f]
    PROVE  InterestOf(o)'
<1>1. SentTyped /\ InterestOf(o) /\ Unknown /\ o \in Ends
    BY DEF WireInv, WireTyped, InterestInv
<1>2. PICK h : h = Head(sent[o])
    OBVIOUS
<1>3. /\ NoInterest(o) <=> NoInterest(o)' /\ h.type # "interest"
      /\ \A b : LastTold(o, b) =>
            LastTold(o, b)' /\ (h.type = "interest" /\ NoInterest(o)' => h.arg = b)
    <2>1. NoInterest(o) <=> NoInterest(o)' /\ h.type # "interest"
        BY <1>1, <1>2, TakeFacts
    <2>3. \A b : LastTold(o, b) => LastTold(o, b)'
        BY <1>1, <1>2, TakeFacts
    <2>4. \A b : LastTold(o, b) /\ h.type = "interest" /\ NoInterest(o)' => h.arg = b
        BY <1>1, <1>2, TakeTold
    <2>2. QED
        BY <2>1, <2>3, <2>4, Zenon
<1>4. \A f \in W!Runs : /\ Reads(o, f)' <=> Reads(o, f)
                        /\ At(o, f, {"assign"})' <=> At(o, f, {"assign"})
                        /\ At(o, f, {"compare"})' <=> At(o, f, {"compare"})
                        /\ At(o, f, {"record"})' <=> At(o, f, {"record"})
    BY WorkFrame
<1>5. (Calm(o)' <=> Calm(o)) /\ (Want(o)' <=> Want(o))
    BY <1>4 DEF Calm, Want
<1>6. Said(o)' = Said(o) /\ \A f \in W!Runs : Checks(o, f)' <=> Checks(o, f)
    BY <1>4 DEF Said, Checks
<1>7. NoInterest(o)' => wanted'[W!Other(o)] = Said(o)'
    BY <1>1, <1>2, <1>3, <1>6 DEF InterestOf
<1>8. \A b : b = Said(o)' => LastTold(o, b)'
    BY <1>1, <1>3, <1>6 DEF InterestOf
<1>9. Calm(o)' => /\ \A f \in W!Runs : At(o, f, {"assign"})' => (work'[o][f][1].arg <=> Want(o)')
                  /\ (\A f \in W!Runs : ~At(o, f, {"assign"})') => (wants'[o] <=> Want(o)')
    BY <1>1, <1>4, <1>5 DEF InterestOf
<1>10. QED
    BY <1>1, <1>4, <1>6, <1>7, <1>8, <1>9 DEF InterestOf

(* It starts while the pieces H are completed, which it will broadcast.    *)
LEMMA StartHeld ==
    ASSUME WireInv, NEW e \in Ends, NEW g \in W!Runs, work[e][g] = <<>>,
           NEW v \in Seq(WireStep), Scripted(v), work' = [work EXCEPT ![e][g] = v],
           ~AtIn(v, {"assign", "compare", "record"}),
           NEW H, \A i : DueIn(v, i) <=> i \in H, held'[e] = held[e] \union H,
           snap'[e] = snap[e], stage'[e] = stage[e], sent'[e] = sent[e], shut => shut',
           theirs'[W!Other(e)] = theirs[W!Other(e)], theirs'[e] = theirs[e] \/ stage[e] # "none"
    PROVE  HeldOf(e)'
<1>1. HeldOf(e)
    BY DEF WireInv, HeldInv
<1>2. \A i : Broadcasts(e, i)' <=> Broadcasts(e, i) \/ i \in H
    <2>1. \A i : Broadcasts(e, i)' <=> Broadcasts(e, i) \/ DueIn(v, i)
        BY StartFacts
    <2>2. QED
        BY <2>1
<1>3. /\ \A i : HaveSent(e, i)' <=> HaveSent(e, i)
      /\ \A i : BitSent(e, i)' <=> BitSent(e, i)
      /\ NoBits(e)' <=> NoBits(e)
      /\ OneBits(e)' <=> OneBits(e)
    BY SentFrame
<1>4. PICK o : o = W!Other(e)
    OBVIOUS
<1>5. QED
    BY <1>1, <1>2, <1>3, <1>4 DEF HeldOf

(* Message h of the other end o has come.                                  *)
LEMMA ReceiveFacts ==
    ASSUME WireInv, NEW e \in Ends, NEW type, W!Receives(e, type), NEW o, o = W!Other(e),
           NEW h, h = Head(sent[o])
    PROVE  /\ o \in Ends /\ o # e /\ W!Other(o) = e
           /\ WireTyped /\ HeldOf(e) /\ HeldOf(o)
           /\ ~shut /\ stage[e] # "none" /\ work[e]["run"] = <<>> /\ "run" \in W!Runs
           /\ sent[o] # <<>> /\ sent' = [sent EXCEPT ![o] = Tail(@)] /\ sent'[e] = sent[e]
           /\ SentTyped' /\ h \in WireMessage /\ h.type = type
           /\ \A i : HaveSent(o, i) <=> HaveSent(o, i)' \/ (h.type = "have" /\ h.arg = i)
           /\ \A i : BitSent(o, i) <=> BitSent(o, i)' \/ (h.type = "bitfield" /\ i \in h.arg)
           /\ NoBits(o) <=> NoBits(o)' /\ h.type # "bitfield"
           /\ OneBits(o) => OneBits(o)' /\ (h.type = "bitfield" => NoBits(o)')
<1>1. o \in Ends /\ o # e /\ W!Other(o) = e
    BY Others
<1>2. WireTyped /\ HeldOf(e) /\ HeldOf(o) /\ SentTyped
    BY <1>1 DEF WireInv, HeldInv, WireTyped
<1>3. /\ ~shut /\ stage[e] # "none" /\ work[e]["run"] = <<>> /\ "run" \in W!Runs
      /\ sent[o] # <<>> /\ sent' = [sent EXCEPT ![o] = Tail(@)] /\ h.type = type
    BY DEF W!Receives, W!Runs
<1>4. /\ SentTyped' /\ \A d \in Ends \ {o} : sent'[d] = sent[d]
      /\ h \in WireMessage
      /\ \A i : HaveSent(o, i) <=> HaveSent(o, i)' \/ (h.type = "have" /\ h.arg = i)
      /\ \A i : BitSent(o, i) <=> BitSent(o, i)' \/ (h.type = "bitfield" /\ i \in h.arg)
      /\ NoBits(o) <=> NoBits(o)' /\ h.type # "bitfield"
      /\ OneBits(o) => OneBits(o)' /\ (h.type = "bitfield" => NoBits(o)')
    BY <1>1, <1>2, <1>3, TakeFacts
<1>5. QED
    BY <1>1, <1>2, <1>3, <1>4

(* End e goes on with v after a message that is not about pieces held.     *)
LEMMA ReceiveEnds ==
    ASSUME WireInv, NEW e \in Ends, NEW type, W!Receives(e, type), NEW o, o = W!Other(e),
           NEW v \in Seq(WireStep), Scripted(v), work' = [work EXCEPT ![e]["run"] = v],
           ~AtIn(v, {"assign", "compare", "record"}), type # "interest",
           UNCHANGED <<stage, snap, wants, told, wanted, shut, elsewhere, raced>>,
           WireFlags', WireSets', WireAsked', held'[o] = held[o],
           theirs'[o] = theirs[o], theirs'[e] = theirs[e] \/ theirs'[e] # None,
           NEW H, \A i : DueIn(v, i) <=> i \in H, held'[e] = held[e] \union H,
           ReadsIn(v) \/ (theirs'[e] = theirs[e] /\ held'[e] = held[e]),
           HeldOf(o)'
    PROVE  WireInv'
<1>1. PICK h : h = Head(sent[o])
    OBVIOUS
<1>2. /\ o \in Ends /\ o # e /\ W!Other(o) = e /\ WireTyped
      /\ stage[e] # "none" /\ work[e]["run"] = <<>> /\ "run" \in W!Runs
      /\ sent[o] # <<>> /\ sent' = [sent EXCEPT ![o] = Tail(@)] /\ sent'[e] = sent[e]
      /\ SentTyped' /\ h.type = type
    BY <1>1, ReceiveFacts
<1>3. /\ WorkTyped'
      /\ \A d \in Ends \ {e} : \A f \in W!Runs : work'[d][f] = work[d][f]
      /\ \A d \in Ends, f \in W!Runs : At(d, f, {"assign"})' => work'[d][f] = work[d][f]
    BY <1>2, StartFacts
<1>4. Unknown'
    <2>1. \A d \in Ends : d = e \/ d = o
        BY Others
    <2>2. QED
        BY <1>2, <1>3, <2>1, UnknownFrame DEF WireTyped
<1>5. HeldOf(e)'
    BY <1>2, StartHeld
<1>6. e \notin raced' => InterestOf(e)'
    BY <1>2, StartInterest
<1>7. o \notin raced' => InterestOf(o)'
    <2>1. SUFFICES ASSUME o \notin raced PROVE InterestOf(o)'
        OBVIOUS
    <2>2. theirs'[o] = theirs[o] /\ wants'[o] = wants[o] /\ told'[o] = told[o]
        OBVIOUS
    <2>3. Head(sent[o]).type # "interest" /\ wanted'[W!Other(o)] = wanted[W!Other(o)]
        BY <1>1, <1>2
    <2>4. o \in Ends \ raced /\ \A f \in W!Runs : work'[o][f] = work[o][f]
        BY <1>2, <1>3, <2>1
    <2>5. QED
        BY <1>2, <2>2, <2>3, <2>4, TakeInterest, Zenon
<1>8. QED
    BY <1>2, <1>3, <1>4, <1>5, <1>6, <1>7, BothEnds DEF WireTyped

(* End e has nothing more to do.                                           *)
LEMMA ReceiveIdle ==
    ASSUME WireInv, NEW e \in Ends, NEW type, W!Receives(e, type), NEW o, o = W!Other(e),
           NEW h, h = Head(sent[o]), shut' \in BOOLEAN,
           UNCHANGED <<held, stage, snap, theirs, wants, told, chokes, choked, downloads, asked, work,
                       elsewhere, raced>>,
           \/ type # "interest" /\ wanted' = wanted
           \/ type = "interest" /\ wanted' = [wanted EXCEPT ![e] = h.arg],
           HeldOf(o)'
    PROVE  WireInv'
<1>1. /\ o \in Ends /\ o # e /\ W!Other(o) = e /\ WireTyped /\ ~shut /\ HeldOf(e)
      /\ sent[o] # <<>> /\ sent' = [sent EXCEPT ![o] = Tail(@)] /\ sent'[e] = sent[e]
      /\ SentTyped' /\ h.type = type /\ h \in WireMessage
    BY ReceiveFacts
<1>2. WireTyped'
    <2>1. type = "interest" => h.arg \in BOOLEAN
        BY <1>1, Zenon DEF WireMessage
    <2>2. wanted' \in [Ends -> BOOLEAN]
        BY <1>1, <2>1 DEF WireTyped, WireFlags
    <2>3. WireFlags'
        BY <1>1, <2>2 DEF WireTyped, WireFlags
    <2>4. WireSets' /\ WireAsked' /\ WorkTyped'
        BY <1>1 DEF WireTyped, WireSets, WireAsked, WorkTyped
    <2>5. Unknown'
        BY <1>1, UnknownFrame DEF WireTyped
    <2>6. QED
        BY <1>1, <2>3, <2>4, <2>5 DEF WireTyped
<1>3. HeldOf(e)'
    BY <1>1, HeldFrame
<1>4. wanted'[o] = wanted[o] /\ (type = "interest" => wanted'[e] = h.arg)
    BY <1>1 DEF WireTyped, WireFlags
<1>5. e \notin raced' => InterestOf(e)'
    BY <1>1, <1>4, InterestFrame DEF WireInv, InterestInv, WireTyped
<1>6. o \notin raced' => InterestOf(o)'
    <2>1. SUFFICES ASSUME o \notin raced PROVE InterestOf(o)'
        OBVIOUS
    <2>2. held'[o] = held[o] /\ theirs'[o] = theirs[o] /\ wants'[o] = wants[o] /\ told'[o] = told[o]
        OBVIOUS
    <2>3. \/ Head(sent[o]).type # "interest" /\ wanted'[W!Other(o)] = wanted[W!Other(o)]
          \/ Head(sent[o]).type = "interest" /\ wanted'[W!Other(o)] = Head(sent[o]).arg
        BY <1>1, <1>4
    <2>4. o \in Ends \ raced /\ \A f \in W!Runs : work'[o][f] = work[o][f]
        BY <1>1, <2>1
    <2>5. QED
        BY <1>1, <2>2, <2>3, <2>4, TakeInterest, Zenon
<1>7. QED
    BY <1>1, <1>2, <1>3, <1>5, <1>6, BothEnds

LEMMA ReceiveBitfieldStep ==
    ASSUME WireInv, NEW e \in Ends, W!ReceiveBitfield(e)
    PROVE  WireInv'
<1>1. PICK o : o = W!Other(e)
    OBVIOUS
<1>2. PICK h : h = Head(sent[o])
    OBVIOUS
<1>3. PICK v : v = W!checkInterested \o
                     (IF theirs[e] = None THEN <<W!Step("unchoke", None), W!Step("download", None)>>
                      ELSE <<>>)
    OBVIOUS
<1>4. /\ W!Receives(e, "bitfield") /\ work' = [work EXCEPT ![e]["run"] = v]
      /\ theirs' = [theirs EXCEPT ![e] = h.arg]
      /\ UNCHANGED <<held, stage, snap, wants, told, wanted, chokes, choked, downloads, asked, shut,
                     elsewhere, raced>>
    BY <1>1, <1>2, <1>3 DEF W!ReceiveBitfield, W!Then, W!Arg
<1>5. /\ o \in Ends /\ o # e /\ W!Other(o) = e /\ WireTyped /\ HeldOf(o)
      /\ work[e]["run"] = <<>> /\ "run" \in W!Runs
      /\ h \in WireMessage /\ h.type = "bitfield"
      /\ \A i : HaveSent(o, i) <=> HaveSent(o, i)' \/ (h.type = "have" /\ h.arg = i)
      /\ \A i : BitSent(o, i) <=> BitSent(o, i)' \/ (h.type = "bitfield" /\ i \in h.arg)
      /\ NoBits(o) <=> NoBits(o)' /\ h.type # "bitfield"
      /\ OneBits(o) => OneBits(o)' /\ (h.type = "bitfield" => NoBits(o)')
    BY <1>1, <1>2, <1>4, ReceiveFacts
<1>6. h.arg \in SUBSET Parts /\ h.arg # None
    <2>1. h.arg \in SUBSET Parts
        BY <1>5, Zenon DEF WireMessage
    <2>2. QED
        BY <2>1, WireAssumption
<1>7. /\ v \in Seq(WireStep) /\ Scripted(v) /\ \A j : ~DueIn(v, j)
      /\ ReadsIn(v) /\ ~AtIn(v, {"assign", "compare", "record"})
    BY <1>3, CheckSteps
<1>8. WireFlags' /\ WireSets' /\ WireAsked' /\ theirs'[e] = h.arg /\ theirs'[o] = theirs[o]
    <2>1. theirs'[e] = h.arg /\ theirs'[o] = theirs[o] /\ WireSets'
        BY <1>4, <1>5, <1>6 DEF WireTyped, WireSets
    <2>2. WireFlags' /\ WireAsked'
        BY <1>4, <1>5 DEF WireTyped, WireFlags, WireAsked
    <2>3. QED
        BY <2>1, <2>2
<1>9. HeldOf(o)'
    <2>1. \A i : Broadcasts(o, i)' <=> Broadcasts(o, i)
        <3>1. \A f \in W!Runs : work'[o][f] = work[o][f]
            BY <1>4, <1>5, <1>7, StartFacts
        <3>2. QED
            BY <3>1, WorkFrame DEF Broadcasts
    <2>2. ~NoBits(o) /\ OneBits(o)
        BY <1>5 DEF HeldOf
    <2>3. /\ stage[o] = "up" /\ theirs[e] = None /\ NoBits(o)' /\ OneBits(o)'
          /\ \A i \in h.arg : i \in held[o]
        BY <1>5, <2>2 DEF HeldOf
    <2>4. QED
        BY <1>4, <1>5, <1>6, <1>8, <2>1, <2>3 DEF HeldOf
<1>10. PICK H : H = {}
    OBVIOUS
<1>11. held'[e] = held[e] \union H /\ \A i : DueIn(v, i) <=> i \in H
    BY <1>4, <1>7, <1>10
<1>12. /\ UNCHANGED <<stage, snap, wants, told, wanted, shut, elsewhere, raced>>
       /\ "bitfield" # "interest" /\ held'[o] = held[o]
       /\ theirs'[e] = theirs[e] \/ theirs'[e] # None
       /\ ReadsIn(v) \/ (theirs'[e] = theirs[e] /\ held'[e] = held[e])
    BY <1>4, <1>6, <1>7, <1>8
<1>13. QED
    BY <1>1, <1>4, <1>7, <1>8, <1>9, <1>11, <1>12, ReceiveEnds, Zenon

LEMMA ReceiveHaveStep ==
    ASSUME WireInv, NEW e \in Ends, W!ReceiveHave(e)
    PROVE  WireInv'
<1>1. PICK o : o = W!Other(e)
    OBVIOUS
<1>2. PICK h : h = Head(sent[o])
    OBVIOUS
<1>3. /\ W!Receives(e, "have")
      /\ UNCHANGED <<held, stage, snap, wants, told, wanted, chokes, choked, downloads, asked,
                     elsewhere, raced>>
    BY DEF W!ReceiveHave
<1>4. /\ o \in Ends /\ o # e /\ W!Other(o) = e /\ WireTyped /\ HeldOf(o)
      /\ work[e]["run"] = <<>> /\ "run" \in W!Runs
      /\ h \in WireMessage /\ h.type = "have"
      /\ \A i : HaveSent(o, i) <=> HaveSent(o, i)' \/ (h.type = "have" /\ h.arg = i)
      /\ \A i : BitSent(o, i) <=> BitSent(o, i)' \/ (h.type = "bitfield" /\ i \in h.arg)
      /\ NoBits(o) <=> NoBits(o)' /\ h.type # "bitfield"
      /\ OneBits(o) => OneBits(o)' /\ (h.type = "bitfield" => NoBits(o)')
    BY <1>1, <1>2, <1>3, ReceiveFacts
<1>5. h.arg \in Parts
    BY <1>4, Zenon DEF WireMessage
<1>6. OneBits(o)' /\ h.arg \in held[o]
    BY <1>4 DEF HeldOf
<1>7. CASE theirs[e] = None
    <2>1. shut' = TRUE /\ UNCHANGED <<theirs, work>>
        BY <1>7 DEF W!ReceiveHave
    <2>2. \A i : Broadcasts(o, i)' <=> Broadcasts(o, i)
        BY <2>1, WorkFrame DEF Broadcasts
    <2>3. HeldOf(o)'
        BY <1>3, <1>4, <1>6, <2>1, <2>2 DEF HeldOf
    <2>4. QED
        BY <1>1, <1>2, <1>3, <2>1, <2>3, ReceiveIdle
<1>8. CASE theirs[e] # None
    <2>1. PICK v : v = W!checkInterested
        OBVIOUS
    <2>2. /\ theirs' = [theirs EXCEPT ![e] = @ \union {h.arg}]
          /\ work' = [work EXCEPT ![e]["run"] = v] /\ shut' = shut
        BY <1>1, <1>2, <1>8, <2>1 DEF W!ReceiveHave, W!Then, W!Arg
    <2>3. /\ v \in Seq(WireStep) /\ Scripted(v) /\ \A j : ~DueIn(v, j)
          /\ ReadsIn(v) /\ ~AtIn(v, {"assign", "compare", "record"})
        BY <2>1, CheckSteps
    <2>4. /\ WireFlags' /\ WireSets' /\ WireAsked'
          /\ theirs'[e] = theirs[e] \union {h.arg} /\ theirs'[e] # None /\ theirs'[o] = theirs[o]
        <3>1. theirs[e] \union {h.arg} \in SUBSET Parts /\ theirs \in [Ends -> {None} \union SUBSET Parts]
            BY <1>4, <1>5, <1>8 DEF WireTyped, WireSets
        <3>2. theirs'[e] = theirs[e] \union {h.arg} /\ theirs'[o] = theirs[o] /\ theirs'[e] # None
            BY <1>4, <2>2, <3>1, WireAssumption
        <3>3. theirs' \in [Ends -> {None} \union SUBSET Parts]
            BY <2>2, <3>1
        <3>4. WireSets'
            BY <1>3, <1>4, <3>3 DEF WireTyped, WireSets
        <3>5. WireFlags' /\ WireAsked'
            BY <1>3, <1>4, <2>2 DEF WireTyped, WireFlags, WireAsked
        <3>6. QED
            BY <3>2, <3>4, <3>5
    <2>5. HeldOf(o)'
        <3>1. \A i : Broadcasts(o, i)' <=> Broadcasts(o, i)
            <4>1. \A f \in W!Runs : work'[o][f] = work[o][f]
                BY <1>4, <2>2, <2>3, StartFacts
            <4>2. QED
                BY <4>1, WorkFrame DEF Broadcasts
        <3>2. \A i : BitSent(o, i) <=> BitSent(o, i)'
            BY <1>4
        <3>3. theirs[e] \subseteq held[o] /\ stage[o] = "up" /\ NoBits(o)'
            BY <1>4, <1>8 DEF HeldOf
        <3>4. QED
            BY <1>3, <1>4, <1>6, <2>2, <2>4, <3>1, <3>2, <3>3 DEF HeldOf
    <2>6. PICK H : H = {}
        OBVIOUS
    <2>7. held'[e] = held[e] \union H /\ (\A i : DueIn(v, i) <=> i \in H) /\ held'[o] = held[o]
        BY <1>3, <2>3, <2>6
    <2>8. /\ UNCHANGED <<stage, snap, wants, told, wanted, shut, elsewhere, raced>>
          /\ "have" # "interest"
          /\ theirs'[e] = theirs[e] \/ theirs'[e] # None
          /\ ReadsIn(v) \/ (theirs'[e] = theirs[e] /\ held'[e] = held[e])
        BY <1>3, <2>2, <2>3, <2>4
    <2>9. /\ W!Receives(e, "have") /\ work' = [work EXCEPT ![e]["run"] = v]
          /\ WireFlags' /\ WireSets' /\ WireAsked' /\ theirs'[o] = theirs[o]
        BY <1>3, <2>2, <2>4
    <2>10. QED
        BY <1>1, <2>3, <2>5, <2>7, <2>8, <2>9, ReceiveEnds, Zenon
<1>9. QED
    BY <1>7, <1>8

LEMMA ReceiveOtherStep ==
    ASSUME WireInv, NEW e \in Ends, W!ReceiveUnchoke(e) \/ W!ReceiveRequest(e)
    PROVE  WireInv'
<1>1. PICK o : o = W!Other(e)
    OBVIOUS
<1>2. PICK h : h = Head(sent[o])
    OBVIOUS
<1>3. PICK type : /\ type \in {"unchoke", "request"} /\ W!Receives(e, type)
                  /\ type = "unchoke" => W!ReceiveUnchoke(e)
                  /\ type = "request" => W!ReceiveRequest(e)
    <2>1. CASE W!ReceiveUnchoke(e)
        <3>1. W!Receives(e, "unchoke") /\ "unchoke" # "request"
            BY <2>1 DEF W!ReceiveUnchoke
        <3>2. QED
            BY <2>1, <3>1
    <2>2. CASE W!ReceiveRequest(e)
        <3>1. W!Receives(e, "request") /\ "unchoke" # "request"
            BY <2>2 DEF W!ReceiveRequest
        <3>2. QED
            BY <2>2, <3>1
    <2>3. QED
        BY <2>1, <2>2
<1>4. /\ o \in Ends /\ o # e /\ W!Other(o) = e /\ WireTyped
      /\ work[e]["run"] = <<>> /\ "run" \in W!Runs
      /\ sent[o] # <<>> /\ sent' = [sent EXCEPT ![o] = Tail(@)]
      /\ h \in WireMessage /\ h.type = type
    BY <1>1, <1>2, <1>3, ReceiveFacts
<1>5. PICK v : v = IF type = "unchoke" THEN W!checkInterested ELSE <<W!Step("piece", h.arg)>>
    OBVIOUS
<1>6. /\ UNCHANGED <<held, stage, snap, theirs, wants, told, wanted, chokes, downloads, asked, shut,
                     elsewhere, raced>>
      /\ choked' = choked \/ choked' = [choked EXCEPT ![e] = FALSE]
      /\ work' = [work EXCEPT ![e]["run"] = v]
    BY <1>1, <1>2, <1>3, <1>5 DEF W!ReceiveUnchoke, W!ReceiveRequest, W!Then, W!Arg, W!flags
<1>7. /\ v \in Seq(WireStep) /\ Scripted(v) /\ \A j : ~DueIn(v, j)
      /\ ~AtIn(v, {"assign", "compare", "record"})
    <2>1. CASE type = "unchoke"
        BY <1>5, <2>1, CheckSteps
    <2>2. CASE type = "request"
        <3>1. h.arg \in Parts
            BY <1>4, <2>2, Zenon DEF WireMessage
        <3>2. v = <<W!Step("piece", h.arg)>>
            BY <1>5, <2>2
        <3>3. QED
            BY <3>1, <3>2, PieceSteps
    <2>3. QED
        BY <1>3, <2>1, <2>2
<1>8. WireFlags' /\ WireSets' /\ WireAsked'
    <2>1. WireFlags'
        BY <1>4, <1>6 DEF WireTyped, WireFlags
    <2>2. WireSets' /\ WireAsked'
        BY <1>4, <1>6 DEF WireTyped, WireSets, WireAsked
    <2>3. QED
        BY <2>1, <2>2
<1>9. HeldOf(o)'
    <2>1. \A f \in W!Runs : work'[o][f] = work[o][f]
        BY <1>4, <1>6, <1>7, StartFacts
    <2>2. Head(sent[o]).type \notin {"bitfield", "have"}
        BY <1>2, <1>3, <1>4
    <2>3. /\ held'[o] = held[o] /\ snap'[o] = snap[o] /\ stage'[o] = stage[o] /\ theirs'[o] = theirs[o]
          /\ theirs'[W!Other(o)] = theirs[W!Other(o)] /\ shut' = shut
        BY <1>6
    <2>4. QED
        BY <1>4, <2>1, <2>2, <2>3, TakeHeld
<1>10. PICK H : H = {}
    OBVIOUS
<1>11. held'[e] = held[e] \union H /\ \A i : DueIn(v, i) <=> i \in H
    BY <1>6, <1>7, <1>10
<1>12. /\ UNCHANGED <<stage, snap, wants, told, wanted, shut, elsewhere, raced>>
       /\ type # "interest" /\ held'[o] = held[o] /\ theirs'[o] = theirs[o]
       /\ theirs'[e] = theirs[e] \/ theirs'[e] # None
       /\ ReadsIn(v) \/ (theirs'[e] = theirs[e] /\ held'[e] = held[e])
       /\ W!Receives(e, type) /\ work' = [work EXCEPT ![e]["run"] = v]
    BY <1>3, <1>6
<1>13. QED
    BY <1>1, <1>7, <1>8, <1>9, <1>11, <1>12, ReceiveEnds, Zenon

LEMMA ReceiveInterestStep ==
    ASSUME WireInv, NEW e \in Ends, W!ReceiveInterest(e)
    PROVE  WireInv'
<1>1. PICK o : o = W!Other(e)
    OBVIOUS
<1>2. PICK h : h = Head(sent[o])
    OBVIOUS
<1>3. /\ W!Receives(e, "interest") /\ wanted' = [wanted EXCEPT ![e] = h.arg]
      /\ UNCHANGED <<held, stage, snap, theirs, wants, told, chokes, choked, downloads, asked, work,
                     shut, elsewhere, raced>>
    BY <1>1, <1>2 DEF W!ReceiveInterest, W!Arg
<1>4. /\ o \in Ends /\ sent[o] # <<>> /\ sent' = [sent EXCEPT ![o] = Tail(@)]
      /\ h.type = "interest" /\ WireTyped
    BY <1>1, <1>2, <1>3, ReceiveFacts
<1>5. HeldOf(o)'
    <2>1. Head(sent[o]).type \notin {"bitfield", "have"}
        BY <1>2, <1>4
    <2>2. QED
        BY <1>3, <1>4, <2>1, TakeHeld
<1>6. shut' \in BOOLEAN
    BY <1>3, <1>4 DEF WireTyped, WireFlags
<1>7. QED
    BY <1>1, <1>2, <1>3, <1>5, <1>6, ReceiveIdle

LEMMA ReceivePieceStep ==
    ASSUME WireInv, NEW e \in Ends, W!ReceivePiece(e)
    PROVE  WireInv'
<1>1. PICK o : o = W!Other(e)
    OBVIOUS
<1>2. PICK h : h = Head(sent[o])
    OBVIOUS
<1>3. /\ W!Receives(e, "piece")
      /\ UNCHANGED <<stage, snap, shut, elsewhere, raced, theirs, wants, told, wanted, chokes, choked,
                     downloads>>
    BY DEF W!ReceivePiece, W!flags
<1>4. /\ o \in Ends /\ o # e /\ W!Other(o) = e /\ WireTyped
      /\ work[e]["run"] = <<>> /\ "run" \in W!Runs
      /\ sent[o] # <<>> /\ sent' = [sent EXCEPT ![o] = Tail(@)]
      /\ h \in WireMessage /\ h.type = "piece"
    BY <1>1, <1>2, <1>3, ReceiveFacts
<1>5. h.arg \in Parts
    BY <1>4, Zenon DEF WireMessage
<1>6. Head(sent[o]).type \notin {"bitfield", "have"}
    BY <1>2, <1>4
<1>7. CASE h.arg \notin asked[e]
    <2>1. UNCHANGED <<asked, held, work>>
        BY <1>1, <1>2, <1>7 DEF W!ReceivePiece, W!Arg
    <2>2. HeldOf(o)'
        BY <1>3, <1>4, <1>6, <2>1, TakeHeld
    <2>3. shut' \in BOOLEAN
        BY <1>3, <1>4 DEF WireTyped, WireFlags
    <2>4. QED
        BY <1>1, <1>2, <1>3, <2>1, <2>2, <2>3, ReceiveIdle
<1>8. CASE h.arg \in asked[e]
    <2>1. PICK v : v = W!broadcastHave(h.arg)
        OBVIOUS
    <2>2. PICK H : H = {h.arg}
        OBVIOUS
    <2>3. /\ asked' = [asked EXCEPT ![e] = @ \ H] /\ held' = [held EXCEPT ![e] = @ \union H]
          /\ work' = [work EXCEPT ![e]["run"] = v]
        BY <1>1, <1>2, <1>8, <2>1, <2>2 DEF W!ReceivePiece, W!Arg, W!Then
    <2>4. /\ v \in Seq(WireStep) /\ Scripted(v) /\ (\A j : DueIn(v, j) <=> j \in H)
          /\ ReadsIn(v) /\ ~AtIn(v, {"assign", "compare", "record"})
        BY <1>5, <2>1, <2>2, HaveSteps
    <2>5. WireSets' /\ held'[e] = held[e] \union H /\ held'[o] = held[o]
        <3>1. held \in [Ends -> SUBSET Parts]
            BY <1>4 DEF WireTyped, WireSets
        <3>2. held' \in [Ends -> SUBSET Parts] /\ held'[e] = held[e] \union H /\ held'[o] = held[o]
            BY <1>4, <1>5, <2>2, <2>3, <3>1
        <3>3. QED
            BY <1>3, <1>4, <3>2 DEF WireTyped, WireSets
    <2>6. WireAsked'
        <3>1. asked \in [Ends -> SUBSET Parts]
            BY <1>4 DEF WireTyped, WireAsked
        <3>2. /\ asked' \in [Ends -> SUBSET Parts] /\ asked'[e] = asked[e] \ H
              /\ \A d \in Ends : d # e => asked'[d] = asked[d]
            BY <2>3, <3>1
        <3>3. /\ IsFiniteSet(asked[e]) /\ Cardinality(asked[e]) <= MaxRequests
              /\ \A d \in Ends : IsFiniteSet(asked[d]) /\ Cardinality(asked[d]) <= MaxRequests
            BY <1>4 DEF WireTyped, WireAsked
        <3>4. asked[e] \ H \subseteq asked[e]
            OBVIOUS
        <3>5. IsFiniteSet(asked[e] \ H) /\ Cardinality(asked[e] \ H) <= Cardinality(asked[e])
            BY <3>3, <3>4, FS_Subset
        <3>6. Cardinality(asked[e] \ H) \in Nat /\ Cardinality(asked[e]) \in Nat
            BY <3>3, <3>5, FS_CardinalityType
        <3>7. IsFiniteSet(asked'[e]) /\ Cardinality(asked'[e]) <= MaxRequests
            BY <3>2, <3>3, <3>5, <3>6, WireAssumption
        <3>8. QED
            BY <3>2, <3>3, <3>7 DEF WireAsked
    <2>7. WireFlags'
        BY <1>3, <1>4 DEF WireTyped, WireFlags
    <2>8. HeldOf(o)'
        <3>1. \A f \in W!Runs : work'[o][f] = work[o][f]
            BY <1>4, <2>3, <2>4, StartFacts
        <3>2. /\ snap'[o] = snap[o] /\ stage'[o] = stage[o] /\ theirs'[o] = theirs[o]
              /\ theirs'[W!Other(o)] = theirs[W!Other(o)] /\ shut' = shut
            BY <1>3
        <3>3. QED
            BY <1>4, <1>6, <2>5, <3>1, <3>2, TakeHeld
    <2>9. /\ UNCHANGED <<stage, snap, wants, told, wanted, shut, elsewhere, raced>>
          /\ "piece" # "interest" /\ theirs'[o] = theirs[o]
          /\ theirs'[e] = theirs[e] \/ theirs'[e] # None
          /\ ReadsIn(v) \/ (theirs'[e] = theirs[e] /\ held'[e] = held[e])
          /\ W!Receives(e, "piece") /\ work' = [work EXCEPT ![e]["run"] = v]
        BY <1>3, <2>3, <2>4
    <2>10. QED
        BY <1>1, <2>4, <2>5, <2>6, <2>7, <2>8, <2>9, ReceiveEnds, Zenon
<1>9. QED
    BY <1>7, <1>8

LEMMA ElsewhereStep ==
    ASSUME WireInv, NEW e \in Ends, NEW i \in Parts, W!Elsewhere(e, i)
    PROVE  WireInv'
<1>1. PICK o : o = W!Other(e)
    OBVIOUS
<1>2. o \in Ends /\ o # e /\ W!Other(o) = e /\ WireTyped /\ HeldOf(o)
    BY <1>1, Others DEF WireInv, HeldInv
<1>3. PICK v : v = W!broadcastHave(i)
    OBVIOUS
<1>4. PICK H : H = {i}
    OBVIOUS
<1>5. /\ work[e]["other"] = <<>> /\ "other" \in W!Runs
      /\ elsewhere < MaxElsewhere /\ elsewhere' = elsewhere + 1
      /\ held' = [held EXCEPT ![e] = @ \union H] /\ work' = [work EXCEPT ![e]["other"] = v]
      /\ UNCHANGED <<stage, snap, asked, sent, shut, raced, theirs, wants, told, wanted, chokes,
                     choked, downloads>>
    BY <1>3, <1>4 DEF W!Elsewhere, W!flags, W!Runs
<1>6. /\ v \in Seq(WireStep) /\ Scripted(v) /\ (\A j : DueIn(v, j) <=> j \in H)
      /\ ReadsIn(v) /\ ~AtIn(v, {"assign", "compare", "record"})
    BY <1>3, <1>4, HaveSteps
<1>7. /\ WorkTyped'
      /\ \A d \in Ends \ {e} : \A f \in W!Runs : work'[d][f] = work[d][f]
      /\ \A d \in Ends, f \in W!Runs : At(d, f, {"assign"})' => work'[d][f] = work[d][f]
    BY <1>5, <1>6, StartFacts
<1>8. held' \in [Ends -> SUBSET Parts] /\ held'[e] = held[e] \union H /\ held'[o] = held[o]
    <2>1. held \in [Ends -> SUBSET Parts] /\ H \subseteq Parts
        BY <1>2, <1>4 DEF WireTyped, WireSets
    <2>2. QED
        BY <1>2, <1>5, <2>1
<1>9. WireTyped'
    <2>1. elsewhere' \in 0 .. MaxElsewhere
        BY <1>2, <1>5, WireAssumption DEF WireTyped, WireSets
    <2>2. WireSets'
        BY <1>2, <1>5, <1>8, <2>1 DEF WireTyped, WireSets
    <2>3. WireFlags' /\ WireAsked' /\ SentTyped'
        BY <1>2, <1>5 DEF WireTyped, WireFlags, WireAsked, SentTyped
    <2>4. Unknown'
        BY <1>2, <1>5, <1>7, UnknownFrame DEF WireTyped
    <2>5. QED
        BY <1>7, <2>2, <2>3, <2>4 DEF WireTyped
<1>10. HeldOf(e)'
    BY <1>5, <1>6, <1>8, StartHeld
<1>11. HeldOf(o)'
    BY <1>2, <1>5, <1>7, <1>8, HeldFrame
<1>12. e \notin raced' => InterestOf(e)'
    BY <1>5, <1>6, StartInterest
<1>13. o \notin raced' => InterestOf(o)'
    BY <1>2, <1>5, <1>7, <1>8, InterestFrame DEF WireInv, InterestInv, WireTyped
<1>14. QED
    BY <1>1, <1>2, <1>9, <1>10, <1>11, <1>12, <1>13, BothEnds

(* Where the last request was for.                                         *)
LastTyped == last \in [Ends -> {None} \union Parts]

(* What the tick asks for is known of the other end, or was asked before.  *)
LEMMA TickPicks ==
    ASSUME WireInv, LastTyped, NEW e \in Ends, W!tickDownload(e)
    PROVE  \E i \in Parts \ asked[e] :
              /\ theirs[e] # None /\ (i \in theirs[e] \/ (i = last[e] /\ i # None))
              /\ asked' = [asked EXCEPT ![e] = @ \union {i}]
              /\ last' = [last EXCEPT ![e] = i]
              /\ W!Send(e, W!Msg("request", i))
<1>1. wants[e]
    BY DEF W!tickDownload
<1>2. theirs[e] \in SUBSET Parts /\ theirs[e] # None
    BY <1>1 DEF WireInv, WireTyped, WireSets, Unknown
<1>3. PICK i \in IF last[e] \in {None} \union asked[e] THEN theirs[e] \ (held[e] \union asked[e])
                 ELSE {last[e]} :
         /\ asked' = [asked EXCEPT ![e] = @ \union {i}]
         /\ last' = [last EXCEPT ![e] = i]
         /\ W!Send(e, W!Msg("request", i))
    BY DEF W!tickDownload
<1>4. i \in Parts \ asked[e] /\ (i \in theirs[e] \/ (i = last[e] /\ i # None))
    <2>1. CASE last[e] \in {None} \union asked[e]
        BY <1>2, <1>3, <2>1
    <2>2. CASE last[e] \notin {None} \union asked[e]
        BY <1>3, <2>2 DEF LastTyped
    <2>3. QED
        BY <2>1, <2>2
<1>5. QED
    BY <1>2, <1>3, <1>4

LEMMA TickStep ==
    ASSUME WireInv, LastTyped, NEW e \in Ends, W!tickDownload(e)
    PROVE  WireInv'
<1>1. PICK o : o = W!Other(e)
    OBVIOUS
<1>2. o \in Ends /\ o # e /\ W!Other(o) = e /\ WireTyped /\ HeldOf(e) /\ HeldOf(o)
    BY <1>1, Others DEF WireInv, HeldInv
<1>3. /\ wants[e] /\ W!Cardinality(asked[e]) < MaxRequests
      /\ UNCHANGED <<held, stage, snap, work, shut, elsewhere, raced, theirs, wants, told, wanted,
                     chokes, choked, downloads>>
    BY DEF W!tickDownload, W!flags
<1>4. PICK i \in Parts \ asked[e] :
         asked' = [asked EXCEPT ![e] = @ \union {i}] /\ W!Send(e, W!Msg("request", i))
    BY TickPicks
<1>5. PICK m : m = W!Msg("request", i)
    OBVIOUS
<1>6. i \in Parts
    OBVIOUS
<1>7. m \in WireMessage /\ m.type = "request" /\ W!Send(e, m)
    BY <1>4, <1>5, <1>6 DEF W!Msg, WireMessage
<1>8. /\ SentTyped' /\ (\A d \in Ends \ {e} : sent'[d] = sent[d])
      /\ \A j : HaveSent(e, j)' <=> HaveSent(e, j)
      /\ \A j : BitSent(e, j)' <=> BitSent(e, j)
      /\ NoBits(e)' <=> NoBits(e)
      /\ OneBits(e) => OneBits(e)'
      /\ NoInterest(e)' <=> NoInterest(e)
      /\ \A b : LastTold(e, b) => LastTold(e, b)'
    BY <1>2, <1>7, SendFacts DEF WireTyped
<1>9. WireAsked'
    <2>1. /\ asked \in [Ends -> SUBSET Parts] /\ IsFiniteSet(asked[e])
          /\ \A d \in Ends : IsFiniteSet(asked[d]) /\ Cardinality(asked[d]) <= MaxRequests
        BY <1>2 DEF WireTyped, WireAsked
    <2>2. /\ asked' \in [Ends -> SUBSET Parts] /\ asked'[e] = asked[e] \union {i}
          /\ \A d \in Ends : d # e => asked'[d] = asked[d]
        BY <1>4, <1>6, <2>1
    <2>3. W!Cardinality(asked[e]) = Cardinality(asked[e])
        BY Zenon DEF W!Cardinality, Cardinality
    <2>4. /\ IsFiniteSet(asked[e] \union {i})
          /\ Cardinality(asked[e] \union {i}) = Cardinality(asked[e]) + 1
        BY <1>4, <2>1, FS_AddElement
    <2>5. Cardinality(asked[e]) \in Nat
        BY <2>1, FS_CardinalityType
    <2>6. Cardinality(asked[e]) + 1 <= MaxRequests
        BY <1>3, <2>3, <2>5, WireAssumption
    <2>7. QED
        BY <2>1, <2>2, <2>4, <2>6 DEF WireAsked
<1>10. WireTyped'
    <2>1. WireFlags' /\ WireSets' /\ WorkTyped'
        BY <1>2, <1>3 DEF WireTyped, WireFlags, WireSets, WorkTyped
    <2>2. Unknown'
        BY <1>2, <1>3, UnknownFrame DEF WireTyped
    <2>3. QED
        BY <1>8, <1>9, <2>1, <2>2 DEF WireTyped
<1>11. HeldOf(e)'
    <2>1. \A j : Broadcasts(e, j)' <=> Broadcasts(e, j)
        BY <1>3, WorkFrame DEF Broadcasts
    <2>2. OneBits(e)'
        BY <1>2, <1>8 DEF HeldOf
    <2>3. QED
        BY <1>1, <1>2, <1>3, <1>8, <2>1, <2>2, HeldKeeps
<1>12. HeldOf(o)'
    BY <1>2, <1>3, <1>8, HeldFrame
<1>13. e \notin raced' => InterestOf(e)'
    <2>1. SUFFICES ASSUME e \notin raced PROVE InterestOf(e)'
        BY <1>3
    <2>2. InterestOf(e) /\ Unknown
        BY <2>1 DEF WireInv, InterestInv, WireTyped
    <2>3. \A g \in W!Runs : /\ At(e, g, {"assign"})' <=> At(e, g, {"assign"})
                            /\ At(e, g, {"compare"})' <=> At(e, g, {"compare"})
                            /\ At(e, g, {"record"})' <=> At(e, g, {"record"})
                            /\ Reads(e, g)' <=> Reads(e, g)
        BY <1>3, WorkFrame
    <2>4. (Calm(e)' <=> Calm(e)) /\ (Want(e)' <=> Want(e))
        BY <1>3, <2>3 DEF Calm, Want
    <2>5. QED
        BY <1>1, <1>3, <1>8, <2>2, <2>3, <2>4, InterestKeeps
<1>14. o \notin raced' => InterestOf(o)'
    BY <1>2, <1>3, <1>8, InterestFrame DEF WireInv, InterestInv, WireTyped
<1>15. QED
    BY <1>1, <1>2, <1>10, <1>11, <1>12, <1>13, <1>14, BothEnds

LEMMA LastFrame ==
    ASSUME [W!Next]_W!vars
    PROVE  last' = last \/ \E e \in Ends : W!tickDownload(e)
<1>1. ASSUME NEW e \in Ends, W!Making(e) \/ W!Receive(e) \/ \E i \in Parts : W!Elsewhere(e, i)
      PROVE  last' = last
    BY <1>1 DEF W!Making, W!addPeer, W!Snapshot, W!SendBitfield, W!Receive, W!ReceiveBitfield,
        W!ReceiveHave, W!ReceiveUnchoke, W!ReceiveInterest, W!ReceiveRequest, W!ReceivePiece,
        W!Elsewhere, W!flags
<1>2. ASSUME NEW e \in Ends, NEW g \in W!Runs, W!Working(e, g) PROVE last' = last
    BY <1>2 DEF W!Working, W!Visit, W!ReadBitfields, W!Assign, W!Compare, W!Record, W!Unchoke,
        W!RunDownload, W!SendOne, W!flags
<1>3. CASE W!Next
    <2>1. PICK e \in Ends :
            \/ W!Making(e) \/ W!Receive(e) \/ W!tickDownload(e)
            \/ \E g \in W!Runs : W!Working(e, g)
            \/ \E i \in Parts : W!Elsewhere(e, i)
        BY <1>3, Zenon DEF W!Next, Ends
    <2>2. QED
        BY <1>1, <1>2, <2>1
<1>4. QED
    BY <1>3 DEF W!vars

LEMMA LastStep == WireInv /\ LastTyped /\ [W!Next]_W!vars => LastTyped'
<1> SUFFICES ASSUME WireInv, LastTyped, [W!Next]_W!vars PROVE LastTyped'
    OBVIOUS
<1>1. last' = last \/ \E e \in Ends : W!tickDownload(e)
    BY LastFrame
<1>2. CASE last' = last
    BY <1>2 DEF LastTyped
<1>3. ASSUME NEW e \in Ends, W!tickDownload(e) PROVE LastTyped'
    <2>1. PICK i \in Parts : last' = [last EXCEPT ![e] = i]
        BY <1>3, TickPicks
    <2>2. QED
        BY <2>1 DEF LastTyped
<1>4. QED
    BY <1>1, <1>2, <1>3

LEMMA WireNextStep == WireInv /\ LastTyped /\ [W!Next]_W!vars => WireInv'
<1> SUFFICES ASSUME WireInv, LastTyped, [W!Next]_W!vars PROVE WireInv'
    OBVIOUS
<1>1. CASE W!Next
    <2>1. PICK e \in Ends :
            \/ W!Making(e) \/ W!Receive(e) \/ W!tickDownload(e)
            \/ \E g \in W!Runs : W!Working(e, g)
            \/ \E i \in Parts : W!Elsewhere(e, i)
        BY <1>1, Zenon DEF W!Next, Ends
    <2>2. CASE W!Receive(e)
        BY <2>2, ReceiveBitfieldStep, ReceiveHaveStep, ReceiveOtherStep, ReceiveInterestStep,
            ReceivePieceStep DEF W!Receive
    <2>3. CASE \E g \in W!Runs : W!Working(e, g)
        BY <2>3, VisitStep, ReadStep, AssignStep, CompareStep, RecordStep, OtherStep DEF W!Working
    <2>4. QED
        BY <2>1, <2>2, <2>3, MakingStep, TickStep, ElsewhereStep
<1>2. CASE UNCHANGED W!vars
    <2>1. UNCHANGED <<held, stage, snap, theirs, wants, told, wanted, chokes, choked, downloads, asked,
                      sent, work, shut, elsewhere, raced>>
        BY <1>2 DEF W!vars
    <2>2. WireTyped /\ \A e \in Ends : HeldOf(e)
        BY DEF WireInv, HeldInv
    <2>3. WireTyped'
        <3>1. WireFlags' /\ WireSets' /\ WireAsked'
            BY <2>1, <2>2 DEF WireTyped, WireFlags, WireSets, WireAsked
        <3>2. SentTyped' /\ WorkTyped'
            BY <2>1, <2>2 DEF WireTyped, SentTyped, WorkTyped
        <3>3. Unknown'
            BY <2>1, <2>2, UnknownFrame DEF WireTyped
        <3>4. QED
            BY <3>1, <3>2, <3>3 DEF WireTyped
    <2>4. HeldInv'
        BY <2>1, <2>2, HeldFrame DEF HeldInv
    <2>5. InterestInv'
        BY <2>1, <2>2, InterestFrame DEF WireInv, InterestInv, WireTyped
    <2>6. QED
        BY <2>3, <2>4, <2>5 DEF WireInv
<1>3. QED
    BY <1>1, <1>2

LEMMA WireStart ==
    ASSUME held \in [Ends -> SUBSET Parts], snap = [e \in Ends |-> {}], elsewhere = 0,
           stage = [e \in Ends |-> "none"], theirs = [e \in Ends |-> None],
           wants = [e \in Ends |-> FALSE], told = wants, wanted = wants, downloads = wants,
           chokes = [e \in Ends |-> TRUE], choked = chokes, asked = [e \in Ends |-> {}],
           sent = [e \in Ends |-> <<>>], work = [e \in Ends |-> [g \in W!Runs |-> <<>>]],
           shut \in BOOLEAN, raced = {}
    PROVE  WireInv
<1>1. \A e \in Ends : sent[e] = <<>> /\ \A g \in W!Runs : work[e][g] = <<>>
    OBVIOUS
<1>2. /\ \A e \in Ends, g \in W!Runs : ~Reads(e, g) /\ \A does : ~At(e, g, does)
      /\ \A e \in Ends, g \in W!Runs : \A i : ~Due(e, g, i)
    BY <1>1, NoSteps DEF Reads, At, Due
<1>3. \A e \in Ends : /\ \A i : ~HaveSent(e, i) /\ ~BitSent(e, i)
                      /\ NoBits(e) /\ OneBits(e) /\ \A b : LastTold(e, b)
    BY <1>1 DEF HaveSent, BitSent, NoBits, OneBits, LastTold
<1>4. WireFlags /\ WireSets
    BY WireAssumption DEF WireFlags, WireSets
<1>5. WireAsked
    <2>1. IsFiniteSet({}) /\ Cardinality({}) = 0
        BY FS_EmptySet
    <2>2. QED
        BY <2>1, WireAssumption DEF WireAsked
<1>6. SentTyped /\ WorkTyped
    BY NoSteps DEF SentTyped, WorkTyped
<1>7. Unknown
    BY <1>2 DEF Unknown
<1>8. ASSUME NEW e \in Ends PROVE HeldOf(e)
    <2>1. W!Other(e) \in Ends
        BY Others
    <2>2. \A i : ~Broadcasts(e, i)
        BY <1>2 DEF Broadcasts
    <2>3. /\ snap[e] = {} /\ stage[e] = "none" /\ theirs[e] = None /\ theirs[W!Other(e)] = None
        BY <2>1
    <2>4. QED
        BY <1>3, <2>2, <2>3 DEF HeldOf
<1>9. ASSUME NEW e \in Ends PROVE InterestOf(e)
    <2>1. W!Other(e) \in Ends
        BY Others
    <2>2. /\ wants[e] = FALSE /\ told[e] = FALSE /\ wanted[W!Other(e)] = FALSE /\ theirs[e] = None
        BY <2>1
    <2>3. ~Want(e) /\ Said(e) = FALSE
        BY <1>2, <2>2 DEF Want, Said
    <2>4. \A g \in W!Runs : ~Checks(e, g)
        BY <1>2 DEF Checks
    <2>5. QED
        BY <1>2, <1>3, <2>2, <2>3, <2>4 DEF InterestOf
<1>10. QED
    BY <1>4, <1>5, <1>6, <1>7, <1>8, <1>9 DEF WireInv, WireTyped, HeldInv, InterestInv

LEMMA LastInit == NoWire \/ W!Init => LastTyped
BY DEF NoWire, W!Init, LastTyped, Ends

LEMMA WireInit == NoWire \/ W!Init => WireInv
<1>1. NoWire => WireInv
    <2>1. NoWire => held \in [Ends -> SUBSET Parts]
        BY DEF NoWire, Ends
    <2>2. QED
        BY <2>1, WireStart DEF NoWire, Ends
<1>2. W!Init => WireInv
    <2>1. W!Init => held \in [Ends -> SUBSET Parts] /\ shut \in BOOLEAN
        BY DEF W!Init, Ends
    <2>2. QED
        BY <2>1, WireStart DEF W!Init, Ends
<1>3. QED
    BY <1>1, <1>2

LEMMA WireNames == WireTyped /\ LastTyped => W!TypeOK
<1> SUFFICES ASSUME WireTyped, LastTyped PROVE W!TypeOK
    OBVIOUS
<1>1. \A e \in Ends : W!Cardinality(asked[e]) = Cardinality(asked[e])
    BY Zenon DEF W!Cardinality, Cardinality
<1>2. asked \in [Ends -> SUBSET Parts] /\ \A e \in Ends : W!Cardinality(asked[e]) <= MaxRequests
    BY <1>1 DEF WireTyped, WireAsked
<1>3. \A f \in {wants, told, wanted, chokes, choked, downloads} : f \in [Ends -> BOOLEAN]
    BY Zenon DEF WireTyped, WireFlags
<1>4. \A e \in Ends : theirs[e] \in {None} \union SUBSET Parts
    BY DEF WireTyped, WireSets
<1>5. shut \in BOOLEAN
    BY Zenon DEF WireTyped, WireFlags
<1>6. QED
    BY <1>2, <1>3, <1>4, <1>5, Zenon DEF W!TypeOK, WireTyped, WireSets, LastTyped, Ends

LEMMA WireMissed == WireInv => W!NothingMissed
<1> SUFFICES ASSUME WireInv, ~shut, NEW e \in Ends
             PROVE  LET o == W!Other(e)
                        Claims == (IF theirs[o] = None THEN {} ELSE theirs[o])
                                    \union (UNION W!UnderWay(e, "bitfield"))
                                    \union W!UnderWay(e, "have") IN
                    /\ Claims \subseteq held[e]
                    /\ stage[e] = "up" => held[e] \subseteq Claims \union W!ToBroadcast(e)
    BY Zenon DEF W!NothingMissed, Ends
<1>1. HeldOf(e) /\ sent[e] \in Seq(WireMessage)
    BY DEF WireInv, HeldInv, WireTyped, SentTyped
<1>2. \A i : i \in W!UnderWay(e, "have") <=> HaveSent(e, i)
    BY <1>1 DEF W!UnderWay, HaveSent
<1>3. \A i : i \in UNION W!UnderWay(e, "bitfield") <=> BitSent(e, i)
    BY <1>1 DEF W!UnderWay, BitSent
<1>4. \A i : Broadcasts(e, i) => i \in W!ToBroadcast(e)
    <2>1. \A g \in W!Runs : work[e][g] \in Seq(WireStep)
        BY DEF WireInv, WireTyped, WorkTyped
    <2>2. QED
        BY <2>1 DEF W!ToBroadcast, Broadcasts, Due, DueIn
<1> DEFINE o == W!Other(e)
<1>5. o = W!Other(e)
    OBVIOUS
<1> HIDE DEF o
<1> DEFINE B == UNION W!UnderWay(e, "bitfield")
           V == W!UnderWay(e, "have")
           Claims == (IF theirs[o] = None THEN {} ELSE theirs[o]) \union B \union V
<1> HIDE DEF B, V
<1>6. \A i : i \in Claims <=> (theirs[o] # None /\ i \in theirs[o]) \/ BitSent(e, i) \/ HaveSent(e, i)
    <2>1. \A i : (i \in V <=> HaveSent(e, i)) /\ (i \in B <=> BitSent(e, i))
        BY <1>2, <1>3, Zenon DEF B, V
    <2>2. QED
        BY <2>1
<1> HIDE DEF Claims
<1>7. ASSUME NEW i \in Claims PROVE i \in held[e]
    BY <1>1, <1>5, <1>6, <1>7 DEF HeldOf
<1>8. ASSUME stage[e] = "up", NEW i \in held[e] PROVE i \in Claims \/ Broadcasts(e, i)
    BY <1>1, <1>5, <1>6, <1>8 DEF HeldOf
<1>9. Claims \subseteq held[e] /\ (stage[e] = "up" => held[e] \subseteq Claims \union W!ToBroadcast(e))
    BY <1>4, <1>7, <1>8
<1>10. QED
    BY <1>9, Zenon DEF Claims, B, V, o

LEMMA WireTold == WireInv => W!InterestTold
<1> SUFFICES ASSUME WireInv, NEW e \in Ends \ raced, ~shut, theirs[e] # None,
                    W!UnderWay(e, "interest") = {}, \A g \in W!Runs : work[e][g] = <<>>
             PROVE  wanted[W!Other(e)] <=> theirs[e] \ held[e] # {}
    BY Zenon DEF W!InterestTold, Ends
<1>1. InterestOf(e) /\ sent[e] \in Seq(WireMessage)
    BY DEF WireInv, InterestInv, WireTyped, SentTyped
<1>2. NoInterest(e)
    <2>1. ASSUME NEW k \in 1 .. Len(sent[e]), sent[e][k].type = "interest" PROVE FALSE
        <3>1. k \in DOMAIN sent[e]
            BY <1>1
        <3>2. sent[e][k].arg \in W!UnderWay(e, "interest")
            BY <2>1, <3>1 DEF W!UnderWay
        <3>3. QED
            BY <3>2
    <2>2. QED
        BY <2>1 DEF NoInterest
<1>3. \A g \in W!Runs : ~Reads(e, g) /\ \A does : ~At(e, g, does)
    BY NoSteps DEF Reads, At
<1>4. Calm(e) /\ Said(e) = told[e]
    BY <1>3 DEF Calm, Said
<1>5. told[e] = wants[e] /\ (wants[e] <=> Want(e)) /\ wanted[W!Other(e)] = told[e]
    BY <1>1, <1>2, <1>3, <1>4 DEF InterestOf
<1>6. QED
    BY <1>5 DEF Want

-----------------------------------------------------------------------------
(* The three together: one of them moves.                                  *)

AllInv == TorrentsInv /\ AnnounceInv /\ WireInv /\ LastTyped

LEMMA AllInit == MCInit => AllInv
BY TorrentsInit, AnnounceInit, WireInit, LastInit DEF MCInit, AllInv

LEMMA AllSteps ==
    ASSUME [MCNext]_<<part, vars, announceVars, wireVars>>
    PROVE  [Next]_vars /\ [A!Next]_A!vars /\ [W!Next]_W!vars
<1>1. (announceVars' = announceVars => A!vars' = A!vars) /\ (wireVars' = wireVars => W!vars' = W!vars)
    BY DEF announceVars, wireVars, A!vars, W!vars
<1>2. QED
    BY <1>1 DEF MCNext

LEMMA AllStep == AllInv /\ [MCNext]_<<part, vars, announceVars, wireVars>> => AllInv'
<1> SUFFICES ASSUME AllInv, [MCNext]_<<part, vars, announceVars, wireVars>> PROVE AllInv'
    OBVIOUS
<1>1. [Next]_vars /\ [A!Next]_A!vars /\ [W!Next]_W!vars
    BY AllSteps
<1>2. QED
    BY <1>1, TorrentsStep, AnnounceStep, WireNextStep, LastStep DEF AllInv

(* The state keeps its types, and the limits on what is started, announced *)
(* and asked for, for any number of torrents, starts and pieces.           *)
THEOREM AllTypesCorrect == MCSpec => []AllTypeOK
<1>1. AllInv => AllTypeOK
    BY TorrentsTyped, WireNames DEF AllInv, AnnounceInv, WireInv, AllTypeOK
<1>2. QED
    BY <1>1, AllInit, AllStep, PTL DEF MCSpec

(* A torrent that was opened by its start is run, is about to be, or       *)
(* seeds, whatever stops and starts come before and after: a start that    *)
(* finds "already started" is of a torrent that is run, or seeds           *)
(* (torrent.go:725-764, 883-928).                                          *)
THEOREM OpenCorrect == MCSpec => []OpenIsRun
<1>1. MCInit => AllInv /\ OpenInv
    BY AllInit, OpenInit DEF MCInit
<1>2. AllInv /\ OpenInv /\ [MCNext]_<<part, vars, announceVars, wireVars>> => AllInv' /\ OpenInv'
    BY AllStep, AllSteps, OpenStep DEF AllInv
<1>3. OpenInv => OpenIsRun
    BY DEF OpenInv, OpenOf, OpenIsRun, Announcing
<1>4. QED
    BY <1>1, <1>2, <1>3, PTL DEF MCSpec

(* A torrent that was stopped announces no more, apart from the seeding    *)
(* announce, whatever its tickers, polls and starts were doing when it     *)
(* stopped (torrent.go:380-398).                                           *)
THEOREM SilentCorrect == MCSpec => SilentAfterStop
<1>1. ASSUME AllInv, [MCNext]_<<part, vars, announceVars, wireVars>>
      PROVE  [\A x \in A!Threads \ {A!SeedThread} :
                 pc[x] # "send" /\ pc'[x] = "send" => life # "off" \/ hasty]_A!vars
    <2>1. [A!Next]_A!vars
        BY <1>1, AllSteps
    <2>2. QED
        BY <1>1, <2>1, SilentStep DEF AllInv
<1>2. QED
    BY <1>1, AllInit, AllStep, PTL DEF MCSpec, SilentAfterStop, A!SilentAfterStop

(* What an end believes the other one has is true, and every piece that is *)
(* held is known there, under way or about to be broadcast, although       *)
(* pieces are completed while the bitfield is read and sent                *)
(* (torrent.go:653-656, 712-714).                                          *)
THEOREM MissedCorrect == MCSpec => []NothingMissed
<1>1. AllInv => NothingMissed
    BY WireMissed DEF AllInv, NothingMissed
<1>2. QED
    BY <1>1, AllInit, AllStep, PTL DEF MCSpec

(* Once nothing is left to do, the other end knows whether it has what is  *)
(* wanted, unless two goroutines met in checkInterested                    *)
(* (peer.go:438-456).                                                      *)
THEOREM InterestCorrect == MCSpec => []InterestTold
<1>1. AllInv => InterestTold
    BY WireTold DEF AllInv, InterestTold
<1>2. QED
    BY <1>1, AllInit, AllStep, PTL DEF MCSpec

-----------------------------------------------------------------------------
(* The wire implements Exchange.                                           *)

Known == [e \in Ends |-> IF theirs[e] = None THEN {} ELSE theirs[e]]

X == INSTANCE Exchange WITH known <- Known, outside <- elsewhere

(* What is asked for, what is on its way as a request or as its answer,    *)
(* and what is about to be answered.                                       *)
AsksHeld ==
    \A e \in Ends :
        /\ asked[e] \union W!UnderWay(e, "request") \subseteq held[W!Other(e)]
        /\ W!UnderWay(e, "piece") \subseteq held[e]

Says(e, type, i) == \E k \in 1 .. Len(sent[e]) : sent[e][k].type = type /\ sent[e][k].arg = i
AnswerIn(w, i) == \E k \in 1 .. Len(w) : w[k].do = "piece" /\ w[k].arg = i
Answers(e, i) == \E g \in W!Runs : AnswerIn(work[e][g], i)

(* Only what is known is asked for, and what the other end asks for, or is *)
(* sent, is held.                                                          *)
AskedOf(e) == asked[e] \subseteq Known[e]
AnswersOf(e) ==
    \A i : Says(W!Other(e), "request", i) \/ Answers(e, i) \/ Says(e, "piece", i) => i \in held[e]
AsksInv == \A e \in Ends : AskedOf(e) /\ AnswersOf(e)
(* What was asked for last is known as well.                               *)
LastKnown == \A e \in Ends : last[e] \in {None} \union Known[e]

LEMMA KnownIs ==
    ASSUME NEW e \in Ends
    PROVE  /\ theirs[e] = None => Known[e] = {}
           /\ theirs[e] # None => Known[e] = theirs[e]
           /\ theirs'[e] = None => Known'[e] = {}
           /\ theirs'[e] # None => Known'[e] = theirs'[e]
BY DEF Known

LEMMA SaysSent ==
    ASSUME SentTyped, NEW e \in Ends, NEW m, W!Send(e, m)
    PROVE  \A d \in Ends : \A type, i :
              Says(d, type, i)' => Says(d, type, i) \/ (d = e /\ m.type = type /\ m.arg = i)
<1> DEFINE s == sent[e]
<1>1. s \in Seq(WireMessage) /\ sent'[e] = Append(s, m) /\ \A o \in Ends \ {e} : sent'[o] = sent[o]
    BY DEF SentTyped, W!Send
<1>2. /\ Len(sent'[e]) = Len(sent[e]) + 1 /\ sent'[e][Len(sent[e]) + 1] = m /\ Len(sent[e]) \in Nat
      /\ \A k \in 1 .. Len(sent[e]) : sent'[e][k] = sent[e][k]
    BY <1>1
<1> HIDE DEF s
<1>3. \A type, i : Says(e, type, i)' => Says(e, type, i) \/ (m.type = type /\ m.arg = i)
    BY <1>2 DEF Says
<1>4. \A d \in Ends \ {e} : \A type, i : Says(d, type, i)' => Says(d, type, i)
    BY <1>1 DEF Says
<1>5. QED
    BY <1>3, <1>4

LEMMA SaysTaken ==
    ASSUME SentTyped, NEW o \in Ends, sent[o] # <<>>, sent' = [sent EXCEPT ![o] = Tail(@)]
    PROVE  /\ \A d \in Ends : \A type, i : Says(d, type, i)' => Says(d, type, i)
           /\ Says(o, Head(sent[o]).type, Head(sent[o]).arg)
<1> DEFINE s == sent[o]
<1>1. s \in Seq(WireMessage) /\ s # <<>> /\ sent'[o] = Tail(s) /\ \A d \in Ends \ {o} : sent'[d] = sent[d]
    BY DEF SentTyped
<1> HIDE DEF s
<1>2. PICK t : t = Tail(s)
    OBVIOUS
<1>3. /\ Len(t) = Len(s) - 1 /\ Len(s) \in Nat /\ Len(s) > 0 /\ Head(s) = s[1]
      /\ \A k \in 1 .. Len(s) - 1 : t[k] = s[k + 1]
    BY <1>1, <1>2
<1>4. ASSUME NEW type, NEW i, Says(o, type, i)' PROVE Says(o, type, i)
    <2>1. PICK k \in 1 .. Len(t) : t[k].type = type /\ t[k].arg = i
        BY <1>1, <1>2, <1>4 DEF Says
    <2>2. k + 1 \in 1 .. Len(s) /\ t[k] = s[k + 1]
        BY <1>3, <2>1
    <2>3. QED
        BY <2>1, <2>2 DEF Says, s
<1>5. Says(o, Head(sent[o]).type, Head(sent[o]).arg)
    BY <1>3 DEF Says, s
<1>6. \A d \in Ends \ {o} : \A type, i : Says(d, type, i)' => Says(d, type, i)
    BY <1>1 DEF Says
<1>7. QED
    BY <1>4, <1>5, <1>6

(* Which steps answer.                                                     *)
LEMMA AnswerSteps ==
    /\ \A i : ~AnswerIn(<<>>, i)
    /\ \A i : ~AnswerIn(W!checkInterested, i) /\ ~AnswerIn(W!checkInterested \o <<>>, i)
    /\ \A i : ~AnswerIn(W!checkInterested \o <<W!Step("unchoke", None), W!Step("download", None)>>, i)
    /\ \A i, j : ~AnswerIn(W!broadcastHave(j), i)
    /\ \A i, j : AnswerIn(<<W!Step("piece", j)>>, i) => i = j
BY DEF AnswerIn, W!checkInterested, W!broadcastHave, W!Step

LEMMA AnswerTail ==
    ASSUME NEW w \in Seq(WireStep), w # <<>>
    PROVE  /\ \A i : AnswerIn(Tail(w), i) => AnswerIn(w, i)
           /\ Tail(w) \in Seq(WireStep)
           /\ w[1].do = "piece" => AnswerIn(w, w[1].arg)
           /\ \A b, i : AnswerIn(<<W!Step("assign", b)>> \o Tail(w), i) => AnswerIn(w, i)
<1>1. /\ Len(w) \in Nat \ {0} /\ Len(Tail(w)) = Len(w) - 1 /\ Tail(w) \in Seq(WireStep)
      /\ \A k \in 1 .. Len(w) - 1 : Tail(w)[k] = w[k + 1]
    OBVIOUS
<1>2. ASSUME NEW i, NEW k \in 1 .. Len(w) - 1, Tail(w)[k].do = "piece", Tail(w)[k].arg = i
      PROVE  AnswerIn(w, i)
    <2>1. k + 1 \in 1 .. Len(w) /\ Tail(w)[k] = w[k + 1]
        BY <1>1
    <2>2. QED
        BY <1>2, <2>1 DEF AnswerIn
<1>3. \A i : AnswerIn(Tail(w), i) => AnswerIn(w, i)
    BY <1>1, <1>2 DEF AnswerIn
<1>4. w[1].do = "piece" => AnswerIn(w, w[1].arg)
    BY <1>1 DEF AnswerIn
<1>5. ASSUME NEW b, NEW i, AnswerIn(<<W!Step("assign", b)>> \o Tail(w), i) PROVE AnswerIn(w, i)
    <2> DEFINE a == W!Step("assign", b)
               t == Tail(w)
               v == <<a>> \o t
    <2>1. t \in Seq(WireStep) /\ a.do = "assign"
        BY <1>1 DEF W!Step
    <2> HIDE DEF a, t
    <2>2. /\ Len(v) = Len(t) + 1 /\ v[1] = a
          /\ \A k \in 1 .. Len(t) : v[k + 1] = t[k]
        BY <2>1
    <2>3. PICK k \in 1 .. Len(v) : v[k].do = "piece" /\ v[k].arg = i
        BY <1>5 DEF AnswerIn, a, t
    <2>4. k # 1
        BY <2>1, <2>2, <2>3
    <2>5. k - 1 \in 1 .. Len(t) /\ v[k] = t[k - 1]
        <3>1. Len(t) \in Nat
            BY <2>1
        <3>2. k - 1 \in 1 .. Len(t) /\ (k - 1) + 1 = k
            BY <2>2, <2>3, <2>4, <3>1
        <3>3. QED
            BY <2>2, <3>2
    <2>6. AnswerIn(t, i)
        BY <2>3, <2>5 DEF AnswerIn
    <2>7. QED
        BY <1>3, <2>6 DEF t
<1>6. QED
    BY <1>1, <1>3, <1>4, <1>5

(* One goroutine goes on with v.                                           *)
LEMMA AnswersChange ==
    ASSUME WorkTyped, NEW e \in Ends, NEW g \in W!Runs, NEW v, work' = [work EXCEPT ![e][g] = v]
    PROVE  \A d \in Ends : \A i : Answers(d, i)' => Answers(d, i) \/ (d = e /\ AnswerIn(v, i))
<1>1. /\ work'[e][g] = v
      /\ \A d \in Ends, f \in W!Runs : d # e \/ f # g => work'[d][f] = work[d][f]
    BY DEF WorkTyped
<1>2. QED
    BY <1>1 DEF Answers, AnswerIn

LEMMA AsksKeep ==
    ASSUME AsksInv, \A d \in Ends : held[d] \subseteq held'[d] /\ AskedOf(d)',
           \A d \in Ends : \A i :
              /\ Says(d, "request", i)' => Says(d, "request", i) \/ i \in held[W!Other(d)]
              /\ Says(d, "piece", i)' => Says(d, "piece", i) \/ i \in held[d]
              /\ Answers(d, i)' => Answers(d, i) \/ i \in held[d]
    PROVE  AsksInv'
<1>1. SUFFICES ASSUME NEW d \in Ends, NEW i,
                      Says(W!Other(d), "request", i)' \/ Answers(d, i)' \/ Says(d, "piece", i)'
               PROVE  i \in held[d]
    BY DEF AsksInv, AnswersOf
<1>2. PICK o \in Ends : o = W!Other(d) /\ W!Other(o) = d
    BY Others
<1>3. Says(o, "request", i) \/ Answers(d, i) \/ Says(d, "piece", i) => i \in held[d]
    BY <1>2 DEF AsksInv, AnswersOf
<1>4. QED
    BY <1>1, <1>2, <1>3

LEMMA AskedKeeps ==
    ASSUME AsksInv, NEW d \in Ends, asked'[d] \subseteq asked[d], Known[d] \subseteq Known'[d]
    PROVE  AskedOf(d)'
BY DEF AsksInv, AskedOf

LEMMA KnownTyped ==
    ASSUME WireSets
    PROVE  Known \in [Ends -> SUBSET Parts]
BY DEF Known, WireSets

LEMMA WorkingSays ==
    ASSUME WireInv, NEW e \in Ends, NEW g \in W!Runs, W!Working(e, g)
    PROVE  /\ \A d \in Ends : \A i : Answers(d, i)' => Answers(d, i)
           /\ \A d \in Ends : \A type, i : type \in {"request", "piece"} /\ Says(d, type, i)' =>
                 Says(d, type, i) \/ (d = e /\ type = "piece" /\ Answers(e, i))
<1>1. PICK w : w = work[e][g]
    OBVIOUS
<1>2. /\ WorkTyped /\ SentTyped /\ w \in Seq(WireStep) /\ w # <<>> /\ w[1] \in WireStep
      /\ <<>> \o Tail(w) = Tail(w)
    BY <1>1, WorkingFacts DEF WireTyped
<1>3. /\ \A i : AnswerIn(Tail(w), i) => AnswerIn(w, i)
      /\ Tail(w) \in Seq(WireStep)
      /\ w[1].do = "piece" => AnswerIn(w, w[1].arg)
      /\ \A b, i : AnswerIn(<<W!Step("assign", b)>> \o Tail(w), i) => AnswerIn(w, i)
    BY <1>2, AnswerTail
<1>4. \A i : AnswerIn(w, i) => Answers(e, i)
    BY <1>1 DEF Answers
<1>5. /\ sent' = sent \/ \E m : W!Send(e, m) /\ (m.type = "piece" => AnswerIn(w, m.arg)) /\ m.type # "request"
      /\ \E v : work' = [work EXCEPT ![e][g] = v] /\ \A i : AnswerIn(v, i) => AnswerIn(w, i)
    <2>1. CASE W!GoOn(e, g, <<>>)
        <3>1. work' = [work EXCEPT ![e][g] = Tail(w)]
            BY <1>1, <1>2, <2>1 DEF W!GoOn
        <3>2. \/ sent' = sent
              \/ \E m : W!Send(e, m) /\ (m.type = "piece" => AnswerIn(w, m.arg)) /\ m.type # "request"
            <4>1. CASE W!SendOne(e, g)
                <5>1. PICK m : m = W!Msg(w[1].do, w[1].arg)
                    OBVIOUS
                <5>2. W!Send(e, m) /\ w[1].do \in {"have", "piece"}
                    BY <1>1, <4>1, <5>1 DEF W!SendOne, W!Doing
                <5>3. m.type = w[1].do /\ m.arg = w[1].arg
                    BY <5>1 DEF W!Msg
                <5>4. QED
                    BY <1>3, <5>2, <5>3
            <4>2. CASE W!Compare(e, g) \/ W!Unchoke(e, g)
                BY <4>2 DEF W!Compare, W!Unchoke, W!Msg
            <4>3. CASE W!Visit(e, g) \/ W!ReadBitfields(e, g) \/ W!Assign(e, g) \/ W!Record(e, g)
                       \/ W!RunDownload(e, g)
                BY <4>3 DEF W!Visit, W!ReadBitfields, W!Assign, W!Record, W!RunDownload
            <4>4. QED
                BY <4>1, <4>2, <4>3 DEF W!Working
        <3>3. QED
            BY <1>3, <3>1, <3>2
    <2>2. CASE W!Visit(e, g) /\ work' = [work EXCEPT ![e][g] = <<>>]
        BY <2>2, AnswerSteps DEF W!Visit
    <2>3. CASE W!ReadBitfields(e, g)
        <3>1. PICK b : work' = [work EXCEPT ![e][g] = <<W!Step("assign", b)>> \o Tail(w)]
            BY <1>1, <2>3 DEF W!ReadBitfields, W!GoOn
        <3>2. sent' = sent
            BY <2>3 DEF W!ReadBitfields
        <3>3. QED
            BY <1>3, <3>1, <3>2
    <2>4. CASE W!Compare(e, g) /\ work' = [work EXCEPT ![e][g] = Tail(Tail(@))] /\ sent' = sent
        <3>1. PICK t : t = Tail(w)
            OBVIOUS
        <3>2. w[1].do = "compare" /\ Scripted(w)
            BY <1>1, <2>4 DEF WorkTyped, W!Compare, W!Now, W!Doing, WireInv, WireTyped
        <3>3. t # <<>>
            <4>1. Len(w) \in Nat /\ Len(w) > 0 /\ Len(t) = Len(w) - 1
                BY <1>2, <3>1
            <4>2. 1 < Len(w)
                BY <3>2, <4>1 DEF Scripted
            <4>3. QED
                BY <4>1, <4>2
        <3>4. \A i : AnswerIn(Tail(t), i) => AnswerIn(t, i)
            BY <1>3, <3>1, <3>3, AnswerTail
        <3>5. work' = [work EXCEPT ![e][g] = Tail(t)]
            BY <1>1, <2>4, <3>1
        <3>6. QED
            BY <1>3, <2>4, <3>1, <3>4, <3>5
    <2>5. QED
        BY <2>1, <2>2, <2>3, <2>4 DEF W!Working, W!Visit, W!Compare, W!Assign, W!Record, W!Unchoke,
            W!RunDownload, W!SendOne
<1>6. \A d \in Ends : \A i : Answers(d, i)' => Answers(d, i)
    <2>1. PICK v : work' = [work EXCEPT ![e][g] = v] /\ \A i : AnswerIn(v, i) => AnswerIn(w, i)
        BY <1>5
    <2>2. QED
        BY <1>2, <1>4, <2>1, AnswersChange
<1>7. CASE sent' = sent
    BY <1>6, <1>7 DEF Says
<1>8. ASSUME NEW m, W!Send(e, m), m.type = "piece" => AnswerIn(w, m.arg), m.type # "request"
      PROVE  \A d \in Ends : \A type, i : type \in {"request", "piece"} /\ Says(d, type, i)' =>
                 Says(d, type, i) \/ (d = e /\ type = "piece" /\ Answers(e, i))
    BY <1>2, <1>4, <1>8, SaysSent
<1>9. QED
    BY <1>5, <1>6, <1>7, <1>8

LEMMA WorkingAsks ==
    ASSUME WireInv, AsksInv, NEW e \in Ends, NEW g \in W!Runs, W!Working(e, g)
    PROVE  AsksInv' /\ UNCHANGED <<held, Known, elsewhere>>
<1>1. UNCHANGED <<held, theirs, asked, elsewhere>>
    BY WorkingFacts
<1>2. Known' = Known
    BY <1>1 DEF Known
<1>3. \A d \in Ends : AskedOf(d)'
    BY <1>1, <1>2, AskedKeeps
<1>4. \A i : Answers(e, i) => i \in held[e]
    BY DEF AsksInv, AnswersOf
<1>5. QED
    BY <1>1, <1>2, <1>3, <1>4, WorkingSays, AsksKeep

LEMMA MakingAsks ==
    ASSUME WireInv, AsksInv, NEW e \in Ends, W!Making(e)
    PROVE  AsksInv' /\ UNCHANGED <<held, Known, elsewhere>>
<1>1. UNCHANGED <<held, theirs, asked, elsewhere, work>>
    BY DEF W!Making, W!addPeer, W!Snapshot, W!SendBitfield, W!flags
<1>2. Known' = Known
    BY <1>1 DEF Known
<1>3. \A d \in Ends : AskedOf(d)'
    BY <1>1, <1>2, AskedKeeps
<1>4. sent' = sent \/ \E m : W!Send(e, m) /\ m.type = "bitfield"
    BY DEF W!Making, W!addPeer, W!Snapshot, W!SendBitfield, W!Msg
<1>5. \A d \in Ends : \A type, i : type \in {"request", "piece"} /\ Says(d, type, i)' => Says(d, type, i)
    <2>1. CASE sent' = sent
        BY <2>1 DEF Says
    <2>2. ASSUME NEW m, W!Send(e, m), m.type = "bitfield"
          PROVE  \A d \in Ends : \A type, i :
                    type \in {"request", "piece"} /\ Says(d, type, i)' => Says(d, type, i)
        BY <2>2, SaysSent DEF WireInv, WireTyped
    <2>3. QED
        BY <1>4, <2>1, <2>2
<1>6. \A d \in Ends : \A i : Answers(d, i)' => Answers(d, i)
    BY <1>1 DEF Answers
<1>7. QED
    BY <1>1, <1>2, <1>3, <1>5, <1>6, AsksKeep

LEMMA TickAsks ==
    ASSUME WireInv, AsksInv, LastTyped, LastKnown, NEW e \in Ends, W!tickDownload(e)
    PROVE  /\ AsksInv' /\ UNCHANGED <<held, Known, elsewhere>>
           /\ \E i \in Known[e] : last' = [last EXCEPT ![e] = i]
<1>1. UNCHANGED <<held, theirs, elsewhere, work>> /\ wants[e]
    BY DEF W!tickDownload, W!flags
<1>2. Known' = Known
    BY <1>1 DEF Known
<1>3. PICK i \in Parts :
         /\ theirs[e] # None /\ (i \in theirs[e] \/ (i = last[e] /\ i # None))
         /\ asked' = [asked EXCEPT ![e] = @ \union {i}]
         /\ last' = [last EXCEPT ![e] = i]
         /\ W!Send(e, W!Msg("request", i))
    BY TickPicks
<1>4. theirs[e] # None
    BY <1>3
<1>5. i \in Known[e] /\ i \in held[W!Other(e)]
    <2>1. PICK o \in Ends : o = W!Other(e) /\ W!Other(o) = e
        BY Others
    <2>2. HeldOf(o)
        BY DEF WireInv, HeldInv
    <2>3. i \in Known[e]
        BY <1>3, <1>4, KnownIs DEF LastKnown
    <2>4. QED
        BY <1>4, <2>1, <2>2, <2>3, KnownIs DEF HeldOf
<1>6. ASSUME NEW d \in Ends PROVE AskedOf(d)'
    <2>1. asked \in [Ends -> SUBSET Parts]
        BY DEF WireInv, WireTyped, WireAsked
    <2>2. CASE d = e
        BY <1>2, <1>3, <1>5, <2>1, <2>2 DEF AsksInv, AskedOf
    <2>3. CASE d # e
        <3>1. asked'[d] = asked[d]
            BY <1>3, <2>1, <2>3
        <3>2. QED
            BY <1>2, <3>1, AskedKeeps
    <2>4. QED
        BY <2>2, <2>3
<1>7. PICK m : m = W!Msg("request", i)
    OBVIOUS
<1>8. m.type = "request" /\ m.arg = i /\ W!Send(e, m)
    BY <1>3, <1>7 DEF W!Msg
<1>9. \A d \in Ends : \A type, j : Says(d, type, j)' => Says(d, type, j) \/ (d = e /\ type = "request" /\ j = i)
    BY <1>8, SaysSent DEF WireInv, WireTyped
<1>10. \A d \in Ends : \A j : Answers(d, j)' => Answers(d, j)
    BY <1>1 DEF Answers
<1>11. AsksInv'
    BY <1>1, <1>5, <1>6, <1>9, <1>10, AsksKeep
<1>12. \E j \in Known[e] : last' = [last EXCEPT ![e] = j]
    BY <1>3, <1>5
<1>13. QED
    BY <1>1, <1>2, <1>11, <1>12

LEMMA ElsewhereAsks ==
    ASSUME WireInv, AsksInv, NEW e \in Ends, NEW i \in Parts, W!Elsewhere(e, i)
    PROVE  AsksInv' /\ X!Bring(e)
<1>1. /\ UNCHANGED <<theirs, asked, sent>> /\ elsewhere' = elsewhere + 1 /\ i \notin held[e]
      /\ held' = [held EXCEPT ![e] = @ \union {i}]
      /\ work' = [work EXCEPT ![e]["other"] = W!broadcastHave(i)] /\ "other" \in W!Runs
    BY DEF W!Elsewhere, W!flags, W!Runs
<1>2. Known' = Known
    BY <1>1 DEF Known
<1>3. \A d \in Ends : AskedOf(d)'
    BY <1>1, <1>2, AskedKeeps
<1>4. held \in [Ends -> SUBSET Parts] /\ WorkTyped
    BY DEF WireInv, WireTyped, WireSets
<1>5. \A d \in Ends : held[d] \subseteq held'[d]
    BY <1>1, <1>4
<1>6. \A d \in Ends : \A j : Answers(d, j)' => Answers(d, j)
    BY <1>1, <1>4, AnswersChange, AnswerSteps
<1>7. \A d \in Ends : \A type, j : Says(d, type, j)' => Says(d, type, j)
    BY <1>1 DEF Says
<1>8. X!Bring(e)
    BY <1>1, <1>2 DEF X!Bring, X!Gain
<1>9. QED
    BY <1>3, <1>5, <1>6, <1>7, <1>8, AsksKeep

(* A message of the other end o.                                           *)
LEMMA ReceiveSays ==
    ASSUME WireInv, AsksInv, NEW e \in Ends, NEW type, W!Receives(e, type), NEW o, o = W!Other(e)
    PROVE  /\ o \in Ends \ {e} /\ W!Other(o) = e /\ "run" \in W!Runs
           /\ \A d \in Ends : \A t, i : Says(d, t, i)' => Says(d, t, i)
           /\ Says(o, type, W!Arg(e))
           /\ type = "request" => W!Arg(e) \in held[e]
           /\ WorkTyped /\ WireSets /\ HeldOf(o) /\ WireAsked
<1>1. o \in Ends \ {e} /\ W!Other(o) = e /\ "run" \in W!Runs
    BY Others DEF W!Runs
<1>2. SentTyped /\ WorkTyped /\ WireSets /\ HeldOf(o) /\ WireAsked
    BY <1>1 DEF WireInv, WireTyped, HeldInv
<1>3. sent[o] # <<>> /\ Head(sent[o]).type = type /\ sent' = [sent EXCEPT ![o] = Tail(@)]
    BY DEF W!Receives
<1>4. (\A d \in Ends : \A t, i : Says(d, t, i)' => Says(d, t, i)) /\ Says(o, type, W!Arg(e))
    BY <1>1, <1>2, <1>3, SaysTaken DEF W!Arg
<1>5. type = "request" => W!Arg(e) \in held[e]
    BY <1>4 DEF AsksInv, AnswersOf
<1>6. QED
    BY <1>1, <1>2, <1>4, <1>5

LEMMA ReceivePieceAsks ==
    ASSUME WireInv, AsksInv, NEW e \in Ends, W!ReceivePiece(e)
    PROVE  AsksInv' /\ (X!Fetch(e) \/ UNCHANGED <<held, Known, elsewhere>>)
<1>1. PICK o : o = W!Other(e)
    OBVIOUS
<1>2. PICK i : i = W!Arg(e)
    OBVIOUS
<1>3. W!Receives(e, "piece") /\ UNCHANGED <<theirs, elsewhere>>
    BY DEF W!ReceivePiece, W!flags
<1>4. /\ \A d \in Ends : \A t, j : Says(d, t, j)' => Says(d, t, j)
      /\ WorkTyped /\ "run" \in W!Runs /\ WireSets /\ WireAsked
    BY <1>1, <1>3, ReceiveSays
<1>5. Known' = Known /\ held \in [Ends -> SUBSET Parts] /\ asked \in [Ends -> SUBSET Parts]
    BY <1>3, <1>4 DEF Known, WireSets, WireAsked
<1>6. CASE i \notin asked[e]
    <2>1. UNCHANGED <<asked, held, work>>
        BY <1>2, <1>6 DEF W!ReceivePiece
    <2>2. \A d \in Ends : \A j : Answers(d, j)' => Answers(d, j)
        BY <2>1 DEF Answers
    <2>3. \A d \in Ends : AskedOf(d)'
        BY <1>5, <2>1, AskedKeeps
    <2>4. QED
        BY <1>3, <1>4, <1>5, <2>1, <2>2, <2>3, AsksKeep
<1>7. CASE i \in asked[e]
    <2>1. /\ asked' = [asked EXCEPT ![e] = @ \ {i}]
          /\ held' = [held EXCEPT ![e] = @ \union {i}]
          /\ work' = [work EXCEPT ![e]["run"] = W!broadcastHave(i)]
        BY <1>2, <1>7 DEF W!ReceivePiece, W!Then
    <2>2. \A d \in Ends : \A j : Answers(d, j)' => Answers(d, j)
        BY <1>4, <2>1, AnswersChange, AnswerSteps
    <2>3. \A d \in Ends : held[d] \subseteq held'[d] /\ asked'[d] \subseteq asked[d]
        BY <1>5, <2>1
    <2>4. \A d \in Ends : AskedOf(d)'
        BY <1>5, <2>3, AskedKeeps
    <2>5. AsksInv'
        BY <1>4, <2>2, <2>3, <2>4, AsksKeep
    <2>6. i \in Known[e]
        BY <1>7 DEF AsksInv, AskedOf
    <2>7. CASE i \in held[e]
        <3>1. held' = held
            BY <1>5, <2>1, <2>7
        <3>2. QED
            BY <1>3, <1>5, <2>5, <3>1
    <2>8. CASE i \notin held[e]
        BY <1>3, <1>5, <2>1, <2>5, <2>6, <2>8 DEF X!Fetch, X!Gain
    <2>9. QED
        BY <2>7, <2>8
<1>8. QED
    BY <1>6, <1>7

(* End e learns of the pieces of the other end o.                          *)
LEMMA Learns ==
    ASSUME WireInv, AsksInv, NEW e \in Ends, NEW o \in Ends \ {e},
           UNCHANGED <<held, asked, elsewhere>>,
           NEW S, theirs' = [theirs EXCEPT ![e] = S], S # None, S \subseteq held[o], Known[e] \subseteq S,
           \A d \in Ends : \A type, i : Says(d, type, i)' => Says(d, type, i),
           NEW g \in W!Runs, NEW v, work' = [work EXCEPT ![e][g] = v], \A i : ~AnswerIn(v, i)
    PROVE  AsksInv' /\ X!Learn(e, o)
<1>1. WorkTyped /\ WireSets
    BY DEF WireInv, WireTyped
<1>2. theirs'[e] = S /\ \A d \in Ends \ {e} : theirs'[d] = theirs[d]
    BY <1>1 DEF WireSets
<1>3. Known' = [Known EXCEPT ![e] = S]
    BY <1>2 DEF Known
<1>4. \A d \in Ends : Known[d] \subseteq Known'[d]
    BY <1>3 DEF Known
<1>5. \A d \in Ends : AskedOf(d)'
    BY <1>4, AskedKeeps
<1>6. \A d \in Ends : \A i : Answers(d, i)' => Answers(d, i)
    BY <1>1, AnswersChange
<1>7. X!Learn(e, o)
    BY <1>3 DEF X!Learn
<1>8. QED
    BY <1>5, <1>6, <1>7, AsksKeep

LEMMA ReceiveBitfieldAsks ==
    ASSUME WireInv, AsksInv, NEW e \in Ends, W!ReceiveBitfield(e)
    PROVE  AsksInv' /\ \E o \in Ends \ {e} : X!Learn(e, o)
<1>1. PICK o : o = W!Other(e)
    OBVIOUS
<1>2. PICK h : h = Head(sent[o])
    OBVIOUS
<1>3. PICK v : v = W!checkInterested \o
                     (IF theirs[e] = None THEN <<W!Step("unchoke", None), W!Step("download", None)>>
                      ELSE <<>>)
    OBVIOUS
<1>4. /\ W!Receives(e, "bitfield") /\ theirs' = [theirs EXCEPT ![e] = h.arg]
      /\ work' = [work EXCEPT ![e]["run"] = v] /\ UNCHANGED <<held, asked, elsewhere>>
    BY <1>1, <1>2, <1>3 DEF W!ReceiveBitfield, W!Then, W!Arg
<1>5. /\ o \in Ends \ {e} /\ W!Other(o) = e /\ "run" \in W!Runs
      /\ \A d \in Ends : \A type, i : Says(d, type, i)' => Says(d, type, i)
    BY <1>1, <1>4, ReceiveSays
<1>6. /\ HeldOf(o) /\ h \in WireMessage /\ h.type = "bitfield"
      /\ \A i : BitSent(o, i) <=> BitSent(o, i)' \/ (h.type = "bitfield" /\ i \in h.arg)
      /\ NoBits(o) <=> NoBits(o)' /\ h.type # "bitfield"
    BY <1>1, <1>2, <1>4, ReceiveFacts
<1>7. h.arg \in SUBSET Parts /\ h.arg # None
    <2>1. h.arg \in SUBSET Parts
        BY <1>6, Zenon DEF WireMessage
    <2>2. QED
        BY <2>1, WireAssumption
<1>8. h.arg \subseteq held[o] /\ theirs[e] = None
    BY <1>5, <1>6 DEF HeldOf
<1>9. Known[e] \subseteq h.arg
    BY <1>8, KnownIs
<1>10. \A i : ~AnswerIn(v, i)
    BY <1>3, AnswerSteps
<1>11. PICK S : S = h.arg
    OBVIOUS
<1>12. AsksInv' /\ X!Learn(e, o)
    BY <1>4, <1>5, <1>7, <1>8, <1>9, <1>10, <1>11, Learns
<1>13. QED
    BY <1>5, <1>12

LEMMA ReceiveHaveAsks ==
    ASSUME WireInv, AsksInv, NEW e \in Ends, W!ReceiveHave(e)
    PROVE  AsksInv' /\ \/ UNCHANGED <<held, Known, elsewhere>>
                       \/ \E o \in Ends \ {e} : X!Learn(e, o)
<1>1. PICK o : o = W!Other(e)
    OBVIOUS
<1>2. PICK h : h = Head(sent[o])
    OBVIOUS
<1>3. W!Receives(e, "have") /\ UNCHANGED <<held, asked, elsewhere>>
    BY DEF W!ReceiveHave
<1>4. /\ o \in Ends \ {e} /\ W!Other(o) = e /\ "run" \in W!Runs
      /\ \A d \in Ends : \A type, i : Says(d, type, i)' => Says(d, type, i)
    BY <1>1, <1>3, ReceiveSays
<1>5. /\ HeldOf(o) /\ h \in WireMessage /\ h.type = "have" /\ WireSets
      /\ \A i : HaveSent(o, i) <=> HaveSent(o, i)' \/ (h.type = "have" /\ h.arg = i)
    BY <1>1, <1>2, <1>3, ReceiveFacts DEF WireTyped
<1>6. CASE theirs[e] = None
    <2>1. UNCHANGED <<theirs, work>>
        BY <1>6 DEF W!ReceiveHave
    <2>2. Known' = Known
        BY <2>1 DEF Known
    <2>3. \A d \in Ends : AskedOf(d)'
        BY <1>3, <2>2, AskedKeeps
    <2>4. \A d \in Ends : \A i : Answers(d, i)' => Answers(d, i)
        BY <2>1 DEF Answers
    <2>5. QED
        BY <1>3, <1>4, <2>2, <2>3, <2>4, AsksKeep
<1>7. CASE theirs[e] # None
    <2>1. PICK S : S = theirs[e] \union {h.arg}
        OBVIOUS
    <2>2. /\ theirs' = [theirs EXCEPT ![e] = S]
          /\ work' = [work EXCEPT ![e]["run"] = W!checkInterested]
        BY <1>1, <1>2, <1>7, <2>1 DEF W!ReceiveHave, W!Then, W!Arg
    <2>3. h.arg \in Parts
        BY <1>5, Zenon DEF WireMessage
    <2>4. S \in SUBSET Parts
        BY <1>5, <1>7, <2>1, <2>3 DEF WireSets
    <2>5. S # None
        BY <2>4, WireAssumption
    <2>6. S \subseteq held[o] /\ Known[e] \subseteq S
        BY <1>4, <1>5, <1>7, <2>1, KnownIs DEF HeldOf
    <2>7. AsksInv' /\ X!Learn(e, o)
        BY <1>3, <1>4, <2>2, <2>5, <2>6, AnswerSteps, Learns
    <2>8. QED
        BY <1>4, <2>7
<1>8. QED
    BY <1>6, <1>7

LEMMA ReceiveOtherAsks ==
    ASSUME WireInv, AsksInv, NEW e \in Ends,
           W!ReceiveUnchoke(e) \/ W!ReceiveInterest(e) \/ W!ReceiveRequest(e)
    PROVE  AsksInv' /\ UNCHANGED <<held, Known, elsewhere>>
<1>1. UNCHANGED <<held, theirs, asked, elsewhere>>
    BY DEF W!ReceiveUnchoke, W!ReceiveInterest, W!ReceiveRequest, W!flags
<1>2. Known' = Known
    BY <1>1 DEF Known
<1>3. \A d \in Ends : AskedOf(d)'
    BY <1>1, <1>2, AskedKeeps
<1>4. PICK type \in {"unchoke", "interest", "request"} :
         /\ W!Receives(e, type)
         /\ \/ type = "unchoke" /\ work' = [work EXCEPT ![e]["run"] = W!checkInterested]
            \/ type = "interest" /\ work' = work
            \/ type = "request" /\ work' = [work EXCEPT ![e]["run"] = <<W!Step("piece", W!Arg(e))>>]
    BY DEF W!ReceiveUnchoke, W!ReceiveInterest, W!ReceiveRequest, W!Then
<1>5. /\ \A d \in Ends : \A t, i : Says(d, t, i)' => Says(d, t, i)
      /\ type = "request" => W!Arg(e) \in held[e]
      /\ WorkTyped /\ "run" \in W!Runs
    BY <1>4, ReceiveSays
<1>6. \A d \in Ends : \A i : Answers(d, i)' => Answers(d, i) \/ i \in held[d]
    <2>1. CASE work' = work
        BY <2>1 DEF Answers
    <2>2. CASE work' = [work EXCEPT ![e]["run"] = W!checkInterested]
        BY <1>5, <2>2, AnswersChange, AnswerSteps
    <2>3. CASE /\ type = "request"
               /\ work' = [work EXCEPT ![e]["run"] = <<W!Step("piece", W!Arg(e))>>]
        BY <1>5, <2>3, AnswersChange, AnswerSteps
    <2>4. QED
        BY <1>4, <2>1, <2>2, <2>3
<1>7. QED
    BY <1>1, <1>2, <1>3, <1>5, <1>6, AsksKeep

LEMMA AsksStep ==
    ASSUME WireInv, LastTyped, AsksInv, LastKnown, [W!Next]_W!vars
    PROVE  AsksInv' /\ [X!Next]_<<held, Known, elsewhere>>
<1>1. CASE W!Next
    <2>1. PICK e \in Ends :
            \/ W!Making(e) \/ W!Receive(e) \/ W!tickDownload(e)
            \/ \E g \in W!Runs : W!Working(e, g)
            \/ \E i \in Parts : W!Elsewhere(e, i)
        BY <1>1, Zenon DEF W!Next, Ends
    <2>2. CASE W!Receive(e)
        BY <2>2, ReceiveBitfieldAsks, ReceiveHaveAsks, ReceiveOtherAsks, ReceivePieceAsks
            DEF W!Receive, X!Next
    <2>3. QED
        BY <2>1, <2>2, MakingAsks, TickAsks, WorkingAsks, ElsewhereAsks DEF X!Next
<1>2. CASE UNCHANGED W!vars
    <2>1. UNCHANGED <<held, theirs, asked, sent, work, elsewhere>>
        BY <1>2 DEF W!vars
    <2>2. Known' = Known
        BY <2>1 DEF Known
    <2>3. \A d \in Ends : AskedOf(d)'
        BY <2>1, <2>2, AskedKeeps
    <2>4. \A d \in Ends : \A type, i : (Says(d, type, i)' => Says(d, type, i)) /\ (Answers(d, i)' => Answers(d, i))
        BY <2>1 DEF Says, Answers
    <2>5. QED
        BY <2>1, <2>2, <2>3, <2>4, AsksKeep
<1>3. QED
    BY <1>1, <1>2

(* What is known is not forgotten, and so is what was asked for last.      *)
LEMMA LastKnownStep ==
    ASSUME WireInv, LastTyped, AsksInv, LastKnown, [W!Next]_W!vars,
           [X!Next]_<<held, Known, elsewhere>>
    PROVE  LastKnown'
<1>1. Known \in [Ends -> SUBSET Parts]
    BY KnownTyped DEF WireInv, WireTyped
<1>2. \A e \in Ends : Known[e] \subseteq Known'[e]
    <2>1. CASE Known' = Known
        BY <2>1
    <2>2. ASSUME NEW d \in Ends, NEW o, X!Learn(d, o)
          PROVE  \A e \in Ends : Known[e] \subseteq Known'[e]
        BY <1>1, <2>2 DEF X!Learn
    <2>3. QED
        BY <2>1, <2>2 DEF X!Next, X!Fetch, X!Bring
<1>3. CASE last' = last
    BY <1>2, <1>3 DEF LastKnown
<1>4. ASSUME NEW e \in Ends, W!tickDownload(e) PROVE LastKnown'
    BY <1>2, <1>4, TickAsks DEF LastKnown, LastTyped
<1>5. QED
    BY <1>3, <1>4, LastFrame

LEMMA AsksInit == NoWire \/ W!Init => AsksInv /\ LastKnown /\ X!Init
<1>1. NoWire \/ W!Init =>
         /\ held \in [Ends -> SUBSET Parts] /\ elsewhere = 0
         /\ theirs = [e \in Ends |-> None] /\ asked = [e \in Ends |-> {}]
         /\ sent = [e \in Ends |-> <<>>] /\ work = [e \in Ends |-> [g \in W!Runs |-> <<>>]]
         /\ last = theirs
    BY DEF NoWire, W!Init, Ends
<1>2. SUFFICES ASSUME held \in [Ends -> SUBSET Parts], elsewhere = 0, last = theirs,
                      theirs = [e \in Ends |-> None], asked = [e \in Ends |-> {}],
                      sent = [e \in Ends |-> <<>>], work = [e \in Ends |-> [g \in W!Runs |-> <<>>]]
               PROVE  AsksInv /\ LastKnown /\ X!Init
    BY <1>1
<1>3. Known = [e \in Ends |-> {}]
    BY <1>2 DEF Known
<1>4. X!Init
    BY <1>2, <1>3 DEF X!Init
<1>5. \A e \in Ends : \A type, i : ~Says(e, type, i) /\ ~Answers(e, i)
    BY <1>2, AnswerSteps DEF Says, Answers
<1>6. QED
    BY <1>2, <1>4, <1>5, Others DEF AsksInv, AskedOf, AnswersOf, LastKnown

LEMMA AsksAreHeld ==
    ASSUME WireInv, AsksInv
    PROVE  AsksHeld
<1>1. SUFFICES ASSUME NEW e \in Ends
               PROVE  /\ asked[e] \union W!UnderWay(e, "request") \subseteq held[W!Other(e)]
                      /\ W!UnderWay(e, "piece") \subseteq held[e]
    BY DEF AsksHeld
<1>2. PICK o \in Ends : o = W!Other(e) /\ W!Other(o) = e
    BY Others
<1>3. sent[e] \in Seq(WireMessage) /\ HeldOf(o) /\ AnswersOf(o) /\ AnswersOf(e) /\ AskedOf(e)
    BY DEF WireInv, WireTyped, SentTyped, HeldInv, AsksInv
<1>4. \A type, i : i \in W!UnderWay(e, type) => Says(e, type, i)
    BY <1>3 DEF W!UnderWay, Says
<1>5. Known[e] \subseteq held[o]
    BY <1>2, <1>3, KnownIs DEF HeldOf
<1>6. QED
    BY <1>2, <1>3, <1>4, <1>5 DEF AnswersOf, AskedOf

LEMMA AsksAll ==
    AllInv /\ AsksInv /\ LastKnown /\ [MCNext]_<<part, vars, announceVars, wireVars>>
    => AllInv' /\ AsksInv' /\ LastKnown' /\ [X!Next]_<<held, Known, elsewhere>>
BY AllStep, AllSteps, AsksStep, LastKnownStep DEF AllInv

(* Whatever the goroutines of the two ends do to each other, an end gets   *)
(* pieces over the connection only when it knows, rightly, that the other  *)
(* one holds them, and loses neither a piece nor what it knows: the wire   *)
(* implements Exchange (peer.go:500-572, 815-847, torrent.go:672-714).     *)
THEOREM WireImplementsExchange == MCSpec => X!Spec
<1>1. MCInit => AllInv /\ AsksInv /\ LastKnown /\ X!Init
    BY AllInit, AsksInit DEF MCInit
<1>2. QED
    BY <1>1, AsksAll, PTL DEF MCSpec, X!Spec

(* The answer to a request is read from the disk without a look at the     *)
(* bitfield (torrent.go:837-862).  It is of a verified piece all the same: *)
(* XD asks for what the other end holds, and that never shrinks.           *)
THEOREM AsksCorrect == MCSpec => []AsksHeld
<1>1. MCInit => AllInv /\ AsksInv /\ LastKnown
    BY AllInit, AsksInit DEF MCInit
<1>2. AllInv /\ AsksInv => AsksHeld
    BY AsksAreHeld DEF AllInv
<1>3. QED
    BY <1>1, <1>2, AsksAll, PTL DEF MCSpec
=============================================================================
