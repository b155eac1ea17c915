---------------------------- MODULE BlocksProofs ----------------------------
(***************************************************************************)
(* The bytes on disk and the bits of the bitfields are what Download says  *)
(* of them, for any number of pieces, files and peers, any sizes and any   *)
(* number of bits in a byte.                                               *)
(***************************************************************************)
EXTENDS Blocks, DownloadProofs, NaturalsInduction, SequenceTheorems

-----------------------------------------------------------------------------
(* Counting up.                                                            *)

(* A set of numbers that has 0 and, with a number below n, the next one,   *)
(* has all up to n.                                                        *)
LEMMA CountUp ==
    ASSUME NEW n \in Nat, NEW A, 0 \in A, \A i \in 0 .. n - 1 : i \in A => i + 1 \in A
    PROVE  \A i \in 0 .. n : i \in A
<1> DEFINE T == {j \in 0 .. n : j \notin A}
<1>1. SUFFICES ASSUME T # {}
               PROVE  FALSE
    OBVIOUS
<1>2. T \subseteq Nat
    OBVIOUS
<1>3. PICK m \in T : \A y \in T : <<y, m>> \notin OpToRel(<, Nat)
    <2> HIDE DEF T
    <2>1. QED
        BY <1>1, <1>2, NatLessThanWellFounded, WFMin
<1>4. m \in 1 .. n /\ m \notin A
    OBVIOUS
<1>5. m - 1 \in 0 .. n - 1 /\ (m - 1) + 1 = m
    BY <1>4
<1>6. m - 1 \in T
    BY <1>4, <1>5
<1>7. <<m - 1, m>> \in OpToRel(<, Nat)
    BY <1>4 DEF OpToRel
<1>8. QED
    BY <1>3, <1>6, <1>7

-----------------------------------------------------------------------------
(* Where a file begins.                                                    *)

LEMMA BeforeExists ==
    ASSUME NEW lengths \in Seq(Nat)
    PROVE  \E g : g = [k \in 0 .. Len(lengths) |-> IF k = 0 THEN 0 ELSE g[k - 1] + lengths[k]]
<1> DEFINE n == Len(lengths)
           Loop(m, g) == g = [k \in 0 .. m |-> IF k = 0 THEN 0 ELSE g[k - 1] + lengths[k]]
           A == {m \in 0 .. n : \E g : Loop(m, g)}
<1>1. n \in Nat
    OBVIOUS
<1> HIDE DEF n
<1>2. Loop(0, [k \in 0 .. 0 |-> 0])
    OBVIOUS
<1>3. ASSUME NEW m \in 0 .. n - 1, m \in A
      PROVE  m + 1 \in A
    <2>1. PICK g : Loop(m, g)
        BY <1>3
    <2>2. Loop(m + 1, [k \in 0 .. m + 1 |-> IF k = m + 1 THEN g[m] + lengths[k] ELSE g[k]])
        BY <1>1, <2>1
    <2> HIDE DEF Loop
    <2>3. QED
        BY <1>1, <2>2
<1>4. 0 \in A
    <2> HIDE DEF Loop
    <2>1. QED
        BY <1>1, <1>2
<1>5. n \in A
    <2> HIDE DEF A
    <2>1. \A i \in 0 .. n : i \in A
        BY <1>1, <1>3, <1>4, CountUp
    <2>2. QED
        BY <1>1, <2>1
<1>6. QED
    BY <1>5 DEF n

LEMMA BeforeFacts ==
    ASSUME NEW lengths \in Seq(Nat)
    PROVE  /\ Before(lengths) \in [0 .. Len(lengths) -> Nat]
           /\ Before(lengths)[0] = 0
           /\ \A k \in 1 .. Len(lengths) : Before(lengths)[k] = Before(lengths)[k - 1] + lengths[k]
           /\ \A j, k \in 0 .. Len(lengths) : j <= k => Before(lengths)[j] <= Before(lengths)[k]
<1> DEFINE n == Len(lengths)
           g == Before(lengths)
<1>1. n \in Nat /\ \A k \in 1 .. n : lengths[k] \in Nat
    OBVIOUS
<1>2. g = [k \in 0 .. n |-> IF k = 0 THEN 0 ELSE g[k - 1] + lengths[k]]
    BY BeforeExists DEF Before
<1> HIDE DEF g, n
<1>3. ASSUME NEW k \in 1 .. n
      PROVE  k \in 0 .. n /\ k # 0 /\ g[k] = g[k - 1] + lengths[k]
    <2>1. k \in 0 .. n /\ k # 0
        BY <1>1
    <2>2. QED
        BY <1>2, <2>1
<1>4. g[0] = 0
    BY <1>1, <1>2
<1>5. \A k \in 0 .. n : g[k] \in Nat
    <2> DEFINE A == {k \in 0 .. n : g[k] \in Nat}
    <2>1. 0 \in A
        BY <1>1, <1>4
    <2>2. ASSUME NEW k \in 0 .. n - 1, k \in A
          PROVE  k + 1 \in A
        <3>1. k + 1 \in 1 .. n /\ (k + 1) - 1 = k
            BY <1>1
        <3>2. g[k + 1] = g[k] + lengths[k + 1]
            BY <1>3, <3>1
        <3>3. QED
            BY <1>1, <2>2, <3>1, <3>2
    <2> HIDE DEF A
    <2>3. \A k \in 0 .. n : k \in A
        BY <1>1, <2>1, <2>2, CountUp
    <2>4. QED
        BY <2>3 DEF A
<1>6. ASSUME NEW j \in 0 .. n
      PROVE  \A k \in 0 .. n : j <= k => g[j] <= g[k]
    <2> DEFINE A == {k \in 0 .. n : j <= k => g[j] <= g[k]}
    <2>1. 0 \in A
        BY <1>1, <1>5
    <2>2. ASSUME NEW k \in 0 .. n - 1, k \in A
          PROVE  k + 1 \in A
        <3>1. k + 1 \in 1 .. n /\ (k + 1) - 1 = k
            BY <1>1
        <3>2. g[k + 1] = g[k] + lengths[k + 1]
            BY <1>3, <3>1
        <3>3. QED
            BY <1>1, <1>5, <2>2, <3>1, <3>2
    <2> HIDE DEF A
    <2>3. \A k \in 0 .. n : k \in A
        BY <1>1, <2>1, <2>2, CountUp
    <2>4. QED
        BY <2>3 DEF A
<1>7. g \in [0 .. n -> Nat]
    BY <1>2, <1>5
<1>8. QED
    BY <1>3, <1>4, <1>6, <1>7 DEF g, n

LEMMA BeforeStep ==
    ASSUME NEW lengths \in Seq(Nat), NEW i \in 1 .. Len(lengths)
    PROVE  /\ lengths[i] \in Nat /\ Before(lengths)[i - 1] \in Nat
           /\ Before(lengths)[i] = Before(lengths)[i - 1] + lengths[i]
<1> DEFINE n == Len(lengths)
           g == Before(lengths)
<1>1. g \in [0 .. n -> Nat] /\ \A k \in 1 .. n : g[k] = g[k - 1] + lengths[k]
    BY BeforeFacts
<1>2. n \in Nat /\ i \in 1 .. n /\ lengths[i] \in Nat
    OBVIOUS
<1> HIDE DEF n, g
<1>3. i - 1 \in 0 .. n
    BY <1>2
<1>4. g[i - 1] \in Nat /\ g[i] = g[i - 1] + lengths[i]
    BY <1>1, <1>2, <1>3
<1>5. QED
    BY <1>2, <1>4 DEF g

-----------------------------------------------------------------------------
(* Writing.                                                                *)

HasLengths(fs, lengths, V) ==
    /\ fs = [j \in 1 .. Len(lengths) |-> fs[j]]
    /\ \A j \in 1 .. Len(lengths) : fs[j] \in [0 .. lengths[j] - 1 -> V]

LEMMA WritingLoop ==
    ASSUME NEW lengths \in Seq(Nat), NEW old, NEW data, NEW off
    PROVE  Writing(lengths, old, data, off) =
             [i \in 0 .. Len(lengths) |->
                IF i = 0 THEN [p |-> data, off |-> off, files |-> old]
                ELSE WriteFile(lengths, Writing(lengths, old, data, off)[i - 1], i)]
<1> DEFINE n == Len(lengths)
           b == [p |-> data, off |-> off, files |-> old]
           Loop(m, s) == s = [i \in 0 .. m |-> IF i = 0 THEN b ELSE WriteFile(lengths, s[i - 1], i)]
           A == {m \in 0 .. n : \E s : Loop(m, s)}
<1>1. n \in Nat
    OBVIOUS
<1> HIDE DEF n, b
<1>2. Loop(0, [k \in 0 .. 0 |-> b])
    OBVIOUS
<1>3. ASSUME NEW m \in 0 .. n - 1, m \in A
      PROVE  m + 1 \in A
    <2>1. PICK s : Loop(m, s)
        BY <1>3
    <2>2. Loop(m + 1, [i \in 0 .. m + 1 |-> IF i = m + 1 THEN WriteFile(lengths, s[m], i) ELSE s[i]])
        BY <1>1, <2>1
    <2> HIDE DEF Loop
    <2>3. QED
        BY <1>1, <2>2
<1>4. 0 \in A
    <2> HIDE DEF Loop
    <2>1. QED
        BY <1>1, <1>2
<1>5. n \in A
    <2> HIDE DEF A
    <2>1. \A i \in 0 .. n : i \in A
        BY <1>1, <1>3, <1>4, CountUp
    <2>2. QED
        BY <1>1, <2>1
<1>6. QED
    BY <1>5 DEF n, b, Writing

Rest(data, c) == SubSeq(data, c + 1, Len(data))

(* Which bytes the files hold when data was written from the offset off on *)
(* into the first i of them.                                               *)
FilesAfter(lengths, old, data, off, i) ==
    [j \in 1 .. Len(lengths) |-> [k \in 0 .. lengths[j] - 1 |->
        LET x == Before(lengths)[j - 1] + k - off IN
        IF j <= i /\ x \in 0 .. Len(data) - 1 THEN data[x + 1] ELSE old[j][k]]]

(* The loop of WriteAt after i files: c bytes are written, and either they *)
(* are all or the next one comes after the files so far.                   *)
WriteState(lengths, old, data, off, i, s) ==
    LET end == Before(lengths)[i] IN
    /\ s = [p |-> s.p, off |-> s.off, files |-> FilesAfter(lengths, old, data, off, i)]
    /\ \E c \in 0 .. Len(data) :
         /\ s.p = Rest(data, c)
         /\ \/ c = Len(data) /\ (c = 0 \/ off + c <= end)
            \/ c < Len(data) /\ c = 0 /\ end <= off /\ s.off = off - end
            \/ c < Len(data) /\ s.off = 0 /\ end > off /\ off + c = end

LEMMA RestFacts ==
    ASSUME NEW V, NEW data \in Seq(V), NEW c \in 0 .. Len(data)
    PROVE  /\ Rest(data, c) \in Seq(V)
           /\ Len(Rest(data, c)) = Len(data) - c
           /\ Rest(data, c) = <<>> <=> c = Len(data)
           /\ \A h \in 1 .. Len(data) - c : Rest(data, c)[h] = data[c + h]
<1> DEFINE r == Rest(data, c)
<1>1. r \in Seq(V) /\ Len(r) = Len(data) - c
    BY DEF Rest
<1>2. \A h \in 1 .. Len(data) - c : r[h] = data[c + h]
    BY DEF Rest
<1> HIDE DEF r
<1>3. r = <<>> <=> Len(r) = 0
    BY <1>1
<1>4. Len(data) \in Nat
    OBVIOUS
<1>5. r = <<>> <=> c = Len(data)
    BY <1>1, <1>3, <1>4
<1>6. QED
    BY <1>1, <1>2, <1>5 DEF r

LEMMA RestOfRest ==
    ASSUME NEW V, NEW data \in Seq(V), NEW c \in 0 .. Len(data), NEW m \in 0 .. Len(data) - c
    PROVE  SubSeq(Rest(data, c), m + 1, Len(data) - c) = Rest(data, c + m)
BY DEF Rest

LEMMA WriteFileFacts ==
    ASSUME NEW lengths \in Seq(Nat), NEW V, NEW old, HasLengths(old, lengths, V),
           NEW data \in Seq(V), NEW off \in Nat, NEW i \in 1 .. Len(lengths), NEW s,
           WriteState(lengths, old, data, off, i - 1, s)
    PROVE  WriteState(lengths, old, data, off, i, WriteFile(lengths, s, i))
<1> DEFINE l == lengths[i]
           begin == Before(lengths)[i - 1]
           end == Before(lengths)[i]
           W(h) == FilesAfter(lengths, old, data, off, h)
           t == WriteFile(lengths, s, i)
           D == Len(data)
           o == s.off
           Spot(c, d, e) == \/ c = D /\ (c = 0 \/ off + c <= e)
                            \/ c < D /\ c = 0 /\ e <= off /\ d = off - e
                            \/ c < D /\ d = 0 /\ e > off /\ off + c = e
<1>1. D \in Nat /\ l \in Nat /\ begin \in Nat /\ end = begin + l
    BY BeforeStep
<1>2. PICK c \in 0 .. D : /\ s = [p |-> Rest(data, c), off |-> o, files |-> W(i - 1)]
                          /\ Spot(c, o, begin)
    BY DEF WriteState
<1>3. /\ s.p = Rest(data, c) /\ s.files = W(i - 1)
      /\ s = [p |-> s.p, off |-> s.off, files |-> s.files]
    BY <1>2
<1>4. \A h : /\ W(h) = [j \in 1 .. Len(lengths) |-> W(h)[j]]
             /\ \A j \in 1 .. Len(lengths) : W(h)[j] = [k \in 0 .. lengths[j] - 1 |-> W(h)[j][k]]
    BY DEF FilesAfter
<1>5. \A j \in 1 .. Len(lengths) : j # i => W(i)[j] = W(i - 1)[j]
    BY DEF FilesAfter
<1>6. W(i - 1)[i] = [k \in 0 .. l - 1 |-> old[i][k]]
    BY DEF FilesAfter
<1>7. W(i)[i] = [k \in 0 .. l - 1 |-> IF begin + k - off \in 0 .. D - 1
                                      THEN data[begin + k - off + 1] ELSE old[i][k]]
    BY DEF FilesAfter
<1>8. WriteState(lengths, old, data, off, i, t) <=>
        /\ t = [p |-> t.p, off |-> t.off, files |-> W(i)]
        /\ \E d \in 0 .. D : t.p = Rest(data, d) /\ Spot(d, t.off, end)
    BY DEF WriteState
<1>9. s.p \in Seq(V) /\ Len(s.p) = D - c /\ (s.p = <<>> <=> c = D)
    BY <1>3, RestFacts
<1>10. c \in 0 .. D /\ Spot(c, o, begin)
    BY <1>2
<1>11. \A h \in 1 .. D - c : s.p[h] = data[c + h]
    BY <1>3, RestFacts
<1>12. \A m \in 0 .. D - c : SubSeq(s.p, m + 1, D - c) = Rest(data, c + m)
    BY <1>3, RestOfRest
<1>13. SUFFICES WriteState(lengths, old, data, off, i, t)
    OBVIOUS
<1> HIDE DEF begin, end, W, D, o
<1>14. ASSUME \A k \in 0 .. l - 1 : begin + k - off \notin 0 .. D - 1
       PROVE  W(i) = W(i - 1)
    <2>1. W(i)[i] = W(i - 1)[i]
        BY <1>6, <1>7, <1>14
    <2>2. QED
        BY <1>4, <1>5, <2>1
<1>15. CASE c = D
    <2>1. t = s
        BY <1>9, <1>15 DEF WriteFile
    <2> HIDE DEF t, l
    <2>2. W(i) = W(i - 1)
        <3>1. \A k \in 0 .. l - 1 : begin + k - off \notin 0 .. D - 1
            BY <1>1, <1>10, <1>15
        <3> HIDE DEF Spot
        <3>2. QED
            BY <1>14, <3>1
    <2>3. Spot(c, o, end)
        BY <1>1, <1>10, <1>15
    <2> HIDE DEF Spot
    <2>4. t.p = Rest(data, c) /\ Spot(c, t.off, end)
        BY <1>3, <2>1, <2>3 DEF o
    <2>5. t = [p |-> t.p, off |-> t.off, files |-> W(i)]
        BY <1>3, <2>1, <2>2
    <2>6. QED
        BY <1>8, <1>10, <2>4, <2>5
<1>16. CASE c < D
    <2>1. s.p # <<>> /\ o \in Nat
        <3>1. o \in Nat
            BY <1>1, <1>10, <1>16
        <3>2. QED
            BY <1>1, <1>9, <1>16, <3>1
    <2>2. CASE o >= l
        <3>1. t = [s EXCEPT !.off = @ - l]
            BY <2>1, <2>2 DEF WriteFile, o
        <3> HIDE DEF t, l
        <3>2. t.off = o - l /\ t.p = s.p /\ t.files = s.files
              /\ t = [p |-> t.p, off |-> t.off, files |-> t.files]
            BY <1>3, <3>1 DEF o
        <3>3. W(i) = W(i - 1)
            <4>1. \A k \in 0 .. l - 1 : begin + k - off \notin 0 .. D - 1
                BY <1>1, <1>10, <1>16, <2>2
            <4> HIDE DEF Spot
            <4>2. QED
                BY <1>14, <4>1
        <3>4. Spot(c, o - l, end)
            BY <1>1, <1>10, <1>16, <2>1, <2>2
        <3> HIDE DEF Spot
        <3>5. t.p = Rest(data, c) /\ Spot(c, t.off, end)
            BY <1>3, <3>2, <3>4
        <3>6. t = [p |-> t.p, off |-> t.off, files |-> W(i)]
            BY <1>3, <3>2, <3>3
        <3>7. QED
            BY <1>8, <1>10, <3>5, <3>6
    <2>3. CASE o < l
        <3> DEFINE m == Least(Len(s.p), l - s.off)
        <3>1. t = [p |-> SubSeq(s.p, m + 1, Len(s.p)), off |-> 0,
                   files |-> [s.files EXCEPT ![i] =
                     [k \in DOMAIN @ |-> IF k \in s.off .. s.off + m - 1 THEN s.p[k - s.off + 1]
                                         ELSE @[k]]]]
            <4>1. ~(s.off >= l)
                BY <1>1, <2>1, <2>3 DEF o
            <4>2. QED
                BY <2>1, <4>1 DEF WriteFile
        <3>2. m = IF D - c < l - o THEN D - c ELSE l - o
            BY <1>9 DEF Least, o
        <3> HIDE DEF m, t, l
        <3>3. m \in 1 .. D - c /\ m <= l - o /\ (m = D - c \/ m = l - o) /\ c + m \in 0 .. D
            BY <1>1, <1>10, <1>16, <2>1, <2>3, <3>2
        <3>4. SubSeq(s.p, m + 1, Len(s.p)) = Rest(data, c + m)
            <4>1. SubSeq(s.p, m + 1, D - c) = Rest(data, c + m)
                BY <1>12, <3>3
            <4>2. QED
                BY <1>9, <4>1
        <3>5. \A k \in 0 .. l - 1 : k \in o .. o + m - 1 <=> begin + k - off \in 0 .. D - 1
            BY <1>1, <1>10, <1>16, <2>1, <3>3
        <3>6. \A k \in o .. o + m - 1 : s.p[k - o + 1] = data[begin + k - off + 1]
            <4>1. SUFFICES ASSUME NEW k \in o .. o + m - 1
                           PROVE  s.p[k - o + 1] = data[begin + k - off + 1]
                OBVIOUS
            <4>2. k - o + 1 \in 1 .. D - c /\ c + (k - o + 1) = begin + k - off + 1
                BY <1>1, <1>10, <1>16, <2>1, <3>3
            <4>3. QED
                BY <1>11, <4>2
        <3>7. t.files = W(i)
            <4> DEFINE New == [k \in 0 .. l - 1 |-> IF k \in o .. o + m - 1
                                                    THEN s.p[k - o + 1] ELSE old[i][k]]
            <4>1. t.files = [W(i - 1) EXCEPT ![i] =
                    [k \in DOMAIN @ |-> IF k \in o .. o + m - 1 THEN s.p[k - o + 1] ELSE @[k]]]
                BY <1>3, <3>1 DEF o
            <4>2. W(i)[i] = New
                BY <1>7, <3>5, <3>6
            <4>3. [k \in DOMAIN W(i - 1)[i] |-> IF k \in o .. o + m - 1
                     THEN s.p[k - o + 1] ELSE W(i - 1)[i][k]] = New
                BY <1>6
            <4> HIDE DEF New
            <4>4. t.files = [W(i - 1) EXCEPT ![i] = New]
                BY <4>1, <4>3
            <4>5. QED
                BY <1>4, <1>5, <4>2, <4>4
        <3>8. t = [p |-> t.p, off |-> t.off, files |-> t.files] /\ t.off = 0
              /\ t.p = Rest(data, c + m)
            BY <3>1, <3>4
        <3>9. Spot(c + m, 0, end)
            BY <1>1, <1>10, <1>16, <2>1, <2>3, <3>3
        <3> HIDE DEF Spot
        <3>10. Spot(c + m, t.off, end) /\ c + m \in 0 .. D
            BY <3>3, <3>8, <3>9
        <3>11. t = [p |-> t.p, off |-> t.off, files |-> W(i)]
            BY <3>7, <3>8
        <3>12. QED
            BY <1>8, <3>8, <3>10, <3>11
    <2>4. QED
        BY <1>1, <2>1, <2>2, <2>3
<1>17. QED
    BY <1>1, <1>10, <1>15, <1>16

(* The data is where it belongs, whichever files that is in, and all the   *)
(* rest is what it was.                                                    *)
LEMMA WritingFacts ==
    ASSUME NEW lengths \in Seq(Nat), NEW V, NEW old, HasLengths(old, lengths, V),
           NEW data \in Seq(V), NEW off \in Nat
    PROVE  Writing(lengths, old, data, off)[Len(lengths)].files
             = FilesAfter(lengths, old, data, off, Len(lengths))
<1> DEFINE n == Len(lengths)
           b == [p |-> data, off |-> off, files |-> old]
           s == Writing(lengths, old, data, off)
           A == {i \in 0 .. n : WriteState(lengths, old, data, off, i, s[i])}
<1>1. n \in Nat
    OBVIOUS
<1>2. s = [i \in 0 .. n |-> IF i = 0 THEN b ELSE WriteFile(lengths, s[i - 1], i)]
    BY WritingLoop
<1> HIDE DEF s, n
<1>3. s[0] = b
    BY <1>1, <1>2
<1>4. ASSUME NEW i \in 0 .. n - 1
      PROVE  s[i + 1] = WriteFile(lengths, s[i], i + 1)
    <2>1. i + 1 \in 0 .. n /\ i + 1 # 0 /\ (i + 1) - 1 = i
        BY <1>1
    <2>2. QED
        BY <1>2, <2>1
<1>5. 0 \in A
    <2>1. FilesAfter(lengths, old, data, off, 0) = old
        BY DEF FilesAfter, HasLengths
    <2>2. Rest(data, 0) = data /\ 0 \in 0 .. Len(data) /\ Len(data) \in Nat
        BY DEF Rest
    <2>3. Before(lengths)[0] = 0
        BY BeforeFacts
    <2>4. WriteState(lengths, old, data, off, 0, b)
        BY <2>1, <2>2, <2>3 DEF WriteState
    <2>5. QED
        BY <1>1, <1>3, <2>4
<1>6. ASSUME NEW i \in 0 .. n - 1, i \in A
      PROVE  i + 1 \in A
    <2>1. i + 1 \in 1 .. Len(lengths) /\ (i + 1) - 1 = i
        BY <1>1 DEF n
    <2>2. WriteState(lengths, old, data, off, i + 1, WriteFile(lengths, s[i], i + 1))
        BY <1>6, <2>1, WriteFileFacts
    <2>3. QED
        BY <1>1, <1>4, <2>2
<1>7. n \in A
    <2> HIDE DEF A
    <2>1. \A i \in 0 .. n : i \in A
        BY <1>1, <1>5, <1>6, CountUp
    <2>2. QED
        BY <1>1, <2>1
<1>8. QED
    BY <1>7 DEF WriteState, n, s

-----------------------------------------------------------------------------
(* Reading.                                                                *)

LEMMA ReadingLoop ==
    ASSUME NEW lengths \in Seq(Nat), NEW old, NEW n, NEW off
    PROVE  Reading(lengths, old, n, off) =
             [i \in 0 .. Len(lengths) |->
                IF i = 0 THEN [b |-> <<>>, off |-> off]
                ELSE ReadFile(lengths, old, n, Reading(lengths, old, n, off)[i - 1], i)]
<1> DEFINE N == Len(lengths)
           b == [b |-> <<>>, off |-> off]
           Loop(m, s) == s = [i \in 0 .. m |-> IF i = 0 THEN b ELSE ReadFile(lengths, old, n, s[i - 1], i)]
           A == {m \in 0 .. N : \E s : Loop(m, s)}
<1>1. N \in Nat
    OBVIOUS
<1> HIDE DEF N, b
<1>2. Loop(0, [k \in 0 .. 0 |-> b])
    OBVIOUS
<1>3. ASSUME NEW m \in 0 .. N - 1, m \in A
      PROVE  m + 1 \in A
    <2>1. PICK s : Loop(m, s)
        BY <1>3
    <2>2. Loop(m + 1, [i \in 0 .. m + 1 |-> IF i = m + 1 THEN ReadFile(lengths, old, n, s[m], i)
                                            ELSE s[i]])
        BY <1>1, <2>1
    <2> HIDE DEF Loop
    <2>3. QED
        BY <1>1, <2>2
<1>4. 0 \in A
    <2> HIDE DEF Loop
    <2>1. QED
        BY <1>1, <1>2
<1>5. N \in A
    <2> HIDE DEF A
    <2>1. \A i \in 0 .. N : i \in A
        BY <1>1, <1>3, <1>4, CountUp
    <2>2. QED
        BY <1>1, <2>1
<1>6. QED
    BY <1>5 DEF N, b, Reading

Begun(want, c) == SubSeq(want, 1, c)

(* What the files hold from off on, as far as they reach, is wanted.       *)
Holds(lengths, old, off, want) ==
    \A j \in 1 .. Len(lengths) : \A k \in 0 .. lengths[j] - 1 :
      LET x == Before(lengths)[j - 1] + k - off IN
      x \in 0 .. Len(want) - 1 => old[j][k] = want[x + 1]

(* The loop of ReadAt after i files: c of the bytes wanted are read, and   *)
(* either they are all or the next one comes after the files so far.       *)
ReadState(lengths, off, want, i, s) ==
    LET end == Before(lengths)[i] IN
    /\ s = [b |-> s.b, off |-> s.off]
    /\ \E c \in 0 .. Len(want) :
         /\ s.b = Begun(want, c)
         /\ \/ c = Len(want)
            \/ c < Len(want) /\ c = 0 /\ end <= off /\ s.off = off - end
            \/ c < Len(want) /\ s.off = 0 /\ end > off /\ off + c = end

LEMMA BegunFacts ==
    ASSUME NEW V, NEW want \in Seq(V), NEW c \in 0 .. Len(want)
    PROVE  Begun(want, c) \in Seq(V) /\ Len(Begun(want, c)) = c
BY DEF Begun

LEMMA BegunMore ==
    ASSUME NEW V, NEW want \in Seq(V), NEW c \in 0 .. Len(want), NEW m \in 0 .. Len(want) - c,
           NEW f, f = [k \in 1 .. m |-> f[k]], \A k \in 1 .. m : f[k] = want[c + k]
    PROVE  Begun(want, c) \o f = Begun(want, c + m)
<1>1. f \in Seq(V) /\ Len(f) = m
    <2>1. m \in Nat /\ \A k \in 1 .. m : f[k] \in V
        OBVIOUS
    <2>2. QED
        BY <2>1
<1>2. /\ Begun(want, c) \in Seq(V) /\ Len(Begun(want, c)) = c
      /\ \A k \in 1 .. c : Begun(want, c)[k] = want[k]
    BY DEF Begun
<1>3. /\ Begun(want, c + m) \in Seq(V) /\ Len(Begun(want, c + m)) = c + m
      /\ \A k \in 1 .. c + m : Begun(want, c + m)[k] = want[k]
    BY DEF Begun
<1> DEFINE g == Begun(want, c) \o f
           h == Begun(want, c + m)
<1>4. g \in Seq(V) /\ Len(g) = c + m
    BY <1>1, <1>2
<1>5. ASSUME NEW k \in 1 .. c + m
      PROVE  g[k] = want[k]
    BY <1>1, <1>2
<1>6. h \in Seq(V) /\ Len(h) = c + m /\ \A k \in 1 .. c + m : h[k] = want[k]
    BY <1>3
<1> HIDE DEF g, h
<1>7. Len(g) = Len(h) /\ \A k \in 1 .. Len(g) : g[k] = h[k]
    BY <1>4, <1>5, <1>6
<1>8. g = h
    BY <1>4, <1>6, <1>7, SeqEqual
<1>9. QED
    BY <1>8 DEF g, h

LEMMA ReadFileFacts ==
    ASSUME NEW lengths \in Seq(Nat), NEW V, NEW old, HasLengths(old, lengths, V),
           NEW want \in Seq(V), NEW off \in Nat, Holds(lengths, old, off, want),
           NEW i \in 1 .. Len(lengths), NEW s, ReadState(lengths, off, want, i - 1, s)
    PROVE  ReadState(lengths, off, want, i, ReadFile(lengths, old, Len(want), s, i))
<1> DEFINE l == lengths[i]
           begin == Before(lengths)[i - 1]
           end == Before(lengths)[i]
           t == ReadFile(lengths, old, Len(want), s, i)
           D == Len(want)
           o == s.off
           Spot(c, d, e) == \/ c = D
                            \/ c < D /\ c = 0 /\ e <= off /\ d = off - e
                            \/ c < D /\ d = 0 /\ e > off /\ off + c = e
<1>1. D \in Nat /\ l \in Nat /\ begin \in Nat /\ end = begin + l
    BY BeforeStep
<1>2. PICK c \in 0 .. D : /\ s = [b |-> Begun(want, c), off |-> o]
                          /\ Spot(c, o, begin)
    BY DEF ReadState
<1>3. s.b = Begun(want, c) /\ s = [b |-> s.b, off |-> s.off]
    BY <1>2
<1>4. Len(s.b) = c
    BY <1>3, BegunFacts
<1>5. c \in 0 .. D /\ Spot(c, o, begin)
    BY <1>2
<1>6. ReadState(lengths, off, want, i, t) <=>
        /\ t = [b |-> t.b, off |-> t.off]
        /\ \E d \in 0 .. D : t.b = Begun(want, d) /\ Spot(d, t.off, end)
    BY DEF ReadState
<1>7. \A k \in 0 .. l - 1 : begin + k - off \in 0 .. D - 1 => old[i][k] = want[begin + k - off + 1]
    BY DEF Holds
<1>8. DOMAIN old[i] = 0 .. l - 1
    BY DEF HasLengths
<1>9. SUFFICES ReadState(lengths, off, want, i, t)
    OBVIOUS
<1> HIDE DEF begin, end, D, o
<1>10. CASE c = D
    <2>1. t = s
        BY <1>4, <1>10 DEF ReadFile, D
    <2> HIDE DEF t, l
    <2>2. Spot(c, t.off, end)
        BY <1>10
    <2> HIDE DEF Spot
    <2>3. QED
        BY <1>3, <1>5, <1>6, <2>1, <2>2
<1>11. CASE c < D
    <2>1. Len(s.b) # Len(want) /\ o \in Nat
        <3>1. c # D /\ o \in Nat
            BY <1>1, <1>5, <1>11
        <3>2. QED
            BY <1>4, <3>1 DEF D
    <2>2. CASE o >= l
        <3>1. t = [s EXCEPT !.off = @ - l]
            BY <2>1, <2>2 DEF ReadFile, o
        <3> HIDE DEF t, l
        <3>2. t.off = o - l /\ t.b = s.b /\ t = [b |-> t.b, off |-> t.off]
            BY <1>3, <3>1 DEF o
        <3>3. Spot(c, o - l, end)
            BY <1>1, <1>5, <1>11, <2>1, <2>2
        <3> HIDE DEF Spot
        <3>4. Spot(c, t.off, end) /\ t.b = Begun(want, c)
            BY <1>3, <3>2, <3>3
        <3>5. QED
            BY <1>5, <1>6, <3>2, <3>4
    <2>3. CASE o < l
        <3> DEFINE m == Least(D - c, l - o)
                   f == readFileAt(old[i], s.off, Len(want) - Len(s.b))
        <3>1. t = [b |-> s.b \o f, off |-> 0]
            <4>1. ~(s.off >= l)
                BY <1>1, <2>1, <2>3 DEF o
            <4>2. QED
                BY <2>1, <4>1 DEF ReadFile
        <3>2. m = IF D - c < l - o THEN D - c ELSE l - o
            BY DEF Least
        <3> HIDE DEF m, t, l
        <3>3. m \in 1 .. D - c /\ m <= l - o /\ (m = D - c \/ m = l - o) /\ c + m \in 0 .. D
            BY <1>1, <1>5, <1>11, <2>1, <2>3, <3>2
        <3>4. f = [k \in 1 .. m |-> old[i][o + k - 1]]
            <4>1. Cardinality(DOMAIN old[i]) = l
                <5>1. Cardinality(0 .. l - 1) = l
                    BY <1>1, FS_Interval
                <5>2. QED
                    BY <1>8, <5>1
            <4> DEFINE x == Least(Len(want) - Len(s.b), Cardinality(DOMAIN old[i]) - o)
            <4>2. f = [k \in 1 .. x |-> old[i][o + k - 1]]
                BY DEF readFileAt, o
            <4>3. x = m
                BY <1>4, <4>1 DEF D, m
            <4> HIDE DEF x, f
            <4>4. QED
                BY <2>1, <3>3, <4>2, <4>3
        <3> HIDE DEF f
        <3>5. ASSUME NEW k \in 1 .. m
              PROVE  f[k] = want[c + k]
            <4>1. /\ o + k - 1 \in 0 .. l - 1
                  /\ begin + (o + k - 1) - off \in 0 .. D - 1
                  /\ begin + (o + k - 1) - off + 1 = c + k
                BY <1>1, <1>5, <1>11, <2>1, <3>3
            <4>2. old[i][o + k - 1] = want[begin + (o + k - 1) - off + 1]
                BY <1>7, <4>1
            <4>3. f[k] = old[i][o + k - 1]
                BY <3>4
            <4>4. QED
                BY <4>1, <4>2, <4>3
        <3>6. s.b \o f = Begun(want, c + m)
            <4>1. f = [k \in 1 .. m |-> f[k]]
                BY <3>4
            <4>2. c \in 0 .. Len(want) /\ m \in 0 .. Len(want) - c
                BY <1>1, <1>5, <3>3 DEF D
            <4>3. Begun(want, c) \o f = Begun(want, c + m)
                BY <3>5, <4>1, <4>2, BegunMore
            <4>4. QED
                BY <1>3, <4>3
        <3>7. t = [b |-> t.b, off |-> t.off] /\ t.off = 0 /\ t.b = Begun(want, c + m)
            BY <3>1, <3>6
        <3>8. Spot(c + m, 0, end)
            BY <1>1, <1>5, <1>11, <2>1, <2>3, <3>3
        <3> HIDE DEF Spot
        <3>9. Spot(c + m, t.off, end) /\ c + m \in 0 .. D
            BY <3>3, <3>7, <3>8
        <3>10. QED
            BY <1>6, <3>7, <3>9
    <2>4. QED
        BY <1>1, <2>1, <2>2, <2>3
<1>12. QED
    BY <1>1, <1>5, <1>10, <1>11

(* What is wanted is what is read, whichever files it is in, if the files  *)
(* reach that far.                                                         *)
LEMMA ReadingFacts ==
    ASSUME NEW lengths \in Seq(Nat), NEW V, NEW old, HasLengths(old, lengths, V),
           NEW want \in Seq(V), NEW off \in Nat, Holds(lengths, old, off, want),
           off + Len(want) <= Before(lengths)[Len(lengths)]
    PROVE  Reading(lengths, old, Len(want), off)[Len(lengths)].b = want
<1> DEFINE n == Len(lengths)
           b == [b |-> <<>>, off |-> off]
           s == Reading(lengths, old, Len(want), off)
           D == Len(want)
           A == {i \in 0 .. n : ReadState(lengths, off, want, i, s[i])}
<1>1. n \in Nat /\ D \in Nat
    OBVIOUS
<1>2. s = [i \in 0 .. n |-> IF i = 0 THEN b ELSE ReadFile(lengths, old, D, s[i - 1], i)]
    BY ReadingLoop
<1> HIDE DEF s, n
<1>3. s[0] = b
    BY <1>1, <1>2
<1>4. ASSUME NEW i \in 0 .. n - 1
      PROVE  s[i + 1] = ReadFile(lengths, old, D, s[i], i + 1)
    <2>1. i + 1 \in 0 .. n /\ i + 1 # 0 /\ (i + 1) - 1 = i
        BY <1>1
    <2> HIDE DEF D
    <2>2. QED
        BY <1>2, <2>1
<1>5. 0 \in A
    <2>1. Begun(want, 0) = <<>> /\ 0 \in 0 .. D
        BY <1>1 DEF Begun
    <2>2. Before(lengths)[0] = 0
        BY BeforeFacts
    <2> HIDE DEF D
    <2>3. 0 = D \/ 0 < D
        BY <1>1
    <2>4. ReadState(lengths, off, want, 0, b)
        BY <2>1, <2>2, <2>3 DEF ReadState, D
    <2>5. QED
        BY <1>1, <1>3, <2>4
<1>6. ASSUME NEW i \in 0 .. n - 1, i \in A
      PROVE  i + 1 \in A
    <2>1. i + 1 \in 1 .. Len(lengths) /\ (i + 1) - 1 = i
        BY <1>1 DEF n
    <2>2. ReadState(lengths, off, want, i + 1, ReadFile(lengths, old, D, s[i], i + 1))
        BY <1>6, <2>1, ReadFileFacts
    <2>3. QED
        BY <1>1, <1>4, <2>2
<1>7. n \in A
    <2> HIDE DEF A
    <2>1. \A i \in 0 .. n : i \in A
        BY <1>1, <1>5, <1>6, CountUp
    <2>2. QED
        BY <1>1, <2>1
<1>8. PICK c \in 0 .. D :
        /\ s[n].b = Begun(want, c)
        /\ \/ c = D
           \/ c < D /\ c = 0 /\ Before(lengths)[n] <= off
           \/ c < D /\ off + c = Before(lengths)[n]
    BY <1>7 DEF ReadState
<1>9. Before(lengths)[n] \in Nat /\ off + D <= Before(lengths)[n]
    <2>1. Before(lengths) \in [0 .. n -> Nat]
        BY BeforeFacts DEF n
    <2>2. QED
        BY <1>1, <2>1 DEF n
<1> HIDE DEF D
<1>10. c = D
    BY <1>1, <1>8, <1>9
<1>11. Begun(want, D) = want
    BY DEF Begun, D
<1>12. QED
    BY <1>8, <1>10, <1>11 DEF s, n, D

-----------------------------------------------------------------------------
(* Sizes.                                                                  *)

LEMMA Products ==
    ASSUME NEW K \in Nat \ {0}
    PROVE  /\ \A a, b \in Nat : a < b => a * K + K <= b * K
           /\ \A a, b \in Nat : a * K < b * K => a < b
           /\ \A a \in Nat : a * K \in Nat /\ (a + 1) * K = a * K + K
           /\ \A a \in Nat : a <= a * K
<1>1. \A a \in Nat : a * K \in Nat /\ (a + 1) * K = a * K + K
    OBVIOUS
<1>2. ASSUME NEW a \in Nat, NEW b \in Nat, a < b
      PROVE  a * K + K <= b * K
    <2>1. (b - a - 1) \in Nat /\ (b - a - 1) * K \in Nat
        BY <1>1, <1>2
    <2>2. b * K = (a + 1) * K + (b - a - 1) * K
        OBVIOUS
    <2>3. QED
        BY <1>1, <2>1, <2>2
<1>3. ASSUME NEW a \in Nat, NEW b \in Nat, a * K < b * K
      PROVE  a < b
    <2>1. ASSUME ~(a < b)
          PROVE  FALSE
        <3>1. b = a \/ b < a
            BY <2>1
        <3>2. b * K <= a * K
            BY <1>1, <1>2, <3>1
        <3>3. QED
            BY <1>1, <1>3, <3>2
    <2>2. QED
        BY <2>1
<1>4. ASSUME NEW a \in Nat
      PROVE  a <= a * K
    OBVIOUS
<1>5. QED
    BY <1>1, <1>2, <1>3, <1>4

LEMMA Division ==
    ASSUME NEW K \in Nat \ {0}, NEW a \in Nat
    PROVE  /\ a \div K \in Nat /\ a % K \in 0 .. K - 1
           /\ a = (a \div K) * K + (a % K)
OBVIOUS

LEMMA DivisionUnique ==
    ASSUME NEW K \in Nat \ {0}, NEW q \in Nat, NEW r \in 0 .. K - 1
    PROVE  (q * K + r) \div K = q /\ (q * K + r) % K = r
OBVIOUS

(* How long block b of a piece of l bytes is.                              *)
BlockLength(l, b) == IF b = bitfieldIndex(l - 1) THEN finalChunkLen(l) ELSE BlockSize

LEMMA BlockFacts ==
    ASSUME NEW l \in Nat \ {0}, NEW b \in Nat, b * BlockSize < l
    PROVE  /\ BlockLength(l, b) \in 1 .. BlockSize
           /\ b * BlockSize + BlockLength(l, b) <= l
           /\ BlockLength(l, b) = BlockSize \/ b * BlockSize + BlockLength(l, b) = l
           /\ accept(l, b * BlockSize, BlockLength(l, b))
<1> DEFINE K == BlockSize
           q == (l - 1) \div K
           r == (l - 1) % K
           n == BlockLength(l, b)
<1>1. K \in Nat \ {0}
    BY BlockSizeAssumption
<1>2. q \in Nat /\ r \in 0 .. K - 1 /\ l = q * K + r + 1
    <2>1. l - 1 \in Nat
        OBVIOUS
    <2> HIDE DEF K
    <2>2. q \in Nat /\ r \in 0 .. K - 1 /\ l - 1 = q * K + r
        BY <1>1, <2>1, Division
    <2> HIDE DEF q, r
    <2>3. q * K \in Nat
        BY <1>1, <2>2, Products
    <2>4. l = q * K + r + 1
        BY <1>1, <2>1, <2>2, <2>3
    <2>5. QED
        BY <2>2, <2>4
<1>3. n = IF b = q THEN IF l % K = 0 THEN K ELSE l % K ELSE K
    BY DEF BlockLength, bitfieldIndex, finalChunkLen
<1>4. (b * K) % K = 0 /\ (b * K) \div K = b
    <2>1. 0 \in 0 .. K - 1 /\ b * K + 0 = b * K
        BY <1>1
    <2>2. QED
        BY <1>1, <2>1, DivisionUnique
<1>5. accept(l, b * K, n) <=> b * K + n <= l /\ (b * K) % K = 0
    BY <1>3, <1>4 DEF accept, bitfieldIndex, finalChunkLen
<1> HIDE DEF K, q, r, n
<1>6. b * K \in Nat /\ q * K \in Nat
    BY <1>1, <1>2, Products
<1>7. b * K < l
    BY DEF K
<1>8. ASSUME b = q
      PROVE  n \in 1 .. K /\ b * K + n = l
    <2>1. CASE r + 1 = K
        <3>1. (q + 1) * K = q * K + K /\ q + 1 \in Nat
            BY <1>1, <1>2, Products
        <3>2. l = (q + 1) * K + 0 /\ 0 \in 0 .. K - 1
            BY <1>1, <1>2, <1>6, <2>1, <3>1
        <3>3. l % K = 0
            BY <1>1, <3>1, <3>2, DivisionUnique
        <3>4. QED
            BY <1>1, <1>2, <1>3, <1>6, <1>8, <2>1, <3>3
    <2>2. CASE r + 1 \in 1 .. K - 1
        <3>1. l = q * K + (r + 1) /\ r + 1 \in 0 .. K - 1
            BY <1>1, <1>2, <1>6, <2>2
        <3>2. l % K = r + 1
            BY <1>1, <1>2, <3>1, DivisionUnique
        <3>3. QED
            BY <1>1, <1>2, <1>3, <1>6, <1>8, <2>2, <3>2
    <2>3. QED
        BY <1>1, <1>2, <2>1, <2>2
<1>9. ASSUME b # q
      PROVE  n \in 1 .. K /\ n = K /\ b * K + n <= l
    <2>1. n = K
        BY <1>3, <1>9
    <2>2. ASSUME q < b
          PROVE  FALSE
        <3>1. q * K + K <= b * K
            BY <1>1, <1>2, <2>2, Products
        <3>2. QED
            BY <1>1, <1>2, <1>6, <1>7, <3>1
    <2>3. b < q
        BY <1>2, <1>9, <2>2
    <2>4. b * K + K <= q * K
        BY <1>1, <1>2, <2>3, Products
    <2>5. QED
        BY <1>1, <1>2, <1>6, <2>1, <2>4
<1>10. n \in 1 .. K /\ b * K + n <= l /\ (n = K \/ b * K + n = l)
    BY <1>6, <1>8, <1>9
<1>11. QED
    BY <1>4, <1>5, <1>10 DEF n, K

(* A piece has as many blocks as it takes.                                 *)
LEMMA NewPieceFacts ==
    ASSUME NEW l \in Nat \ {0}
    PROVE  newPiece(l) = {b \in 0 .. l : b * BlockSize < l}
<1> DEFINE K == BlockSize
           q == l \div K
           r == l % K
           n == q + (IF r # 0 THEN 1 ELSE 0)
<1>1. K \in Nat \ {0}
    BY BlockSizeAssumption
<1>2. q \in Nat /\ r \in 0 .. K - 1 /\ l = q * K + r
    BY <1>1, Division
<1>3. newPiece(l) = 0 .. n - 1
    BY DEF newPiece
<1> HIDE DEF K, q, r
<1>4. n \in Nat /\ q * K \in Nat
    BY <1>1, <1>2, Products
<1>5. ASSUME NEW b \in Nat, b < n
      PROVE  b * K < l /\ b \in 0 .. l
    <2>1. b <= b * K /\ b * K \in Nat
        BY <1>1, Products
    <2>2. CASE b < q
        <3>1. b * K + K <= q * K
            BY <1>1, <1>2, <2>2, Products
        <3>2. QED
            BY <1>1, <1>2, <1>4, <2>1, <3>1
    <2>3. CASE b = q /\ r # 0
        BY <1>1, <1>2, <1>4, <2>1, <2>3
    <2>4. QED
        BY <1>2, <1>5, <2>2, <2>3
<1>6. ASSUME NEW b \in Nat, b * K < l
      PROVE  b < n
    <2>1. ASSUME ~(b < n)
          PROVE  FALSE
        <3>1. n * K <= b * K
            <4>1. n = b \/ n < b
                BY <1>4, <2>1
            <4>2. n * K \in Nat /\ b * K \in Nat
                BY <1>1, <1>4, Products
            <4> HIDE DEF n
            <4>3. n < b => n * K + K <= b * K
                BY <1>1, <1>4, Products
            <4>4. QED
                BY <1>1, <4>1, <4>2, <4>3
        <3>2. n * K >= l
            <4>1. CASE r = 0
                BY <1>2, <1>4, <4>1
            <4>2. CASE r # 0
                <5>1. n * K = q * K + K
                    BY <1>1, <1>2, <4>2, Products
                <5>2. QED
                    BY <1>1, <1>2, <1>4, <5>1
            <4>3. QED
                BY <4>1, <4>2
        <3>3. b * K \in Nat /\ n * K \in Nat
            BY <1>1, <1>4, Products
        <3> HIDE DEF n
        <3>4. QED
            BY <1>6, <3>1, <3>2, <3>3
    <2>2. QED
        BY <2>1
<1> HIDE DEF n
<1>7. 0 .. n - 1 = {b \in 0 .. l : b * K < l}
    BY <1>4, <1>5, <1>6
<1>8. QED
    BY <1>3, <1>7 DEF K

LEMMA InfoFacts ==
    ASSUME NEW x \in Infos
    PROVE  /\ GetFiles(x) \in Seq(Nat)
           /\ TotalSize(x) = Before(GetFiles(x))[Len(GetFiles(x))]
           /\ TotalSize(x) \in Nat
           /\ x.pieceLength \in Nat \ {0} /\ x.hashes \in Nat \ {0} /\ Pieces = 0 .. x.hashes - 1
<1>1. /\ x.length \in Nat /\ x.files \in Seq(Nat)
      /\ x.pieceLength \in Nat \ {0} /\ x.hashes \in Nat \ {0} /\ Pieces = 0 .. x.hashes - 1
    BY InfosAssumption
<1>2. CASE x.length > 0
    <2>1. GetFiles(x) = <<x.length>> /\ TotalSize(x) = x.length
        BY <1>2 DEF GetFiles, TotalSize, IsSingleFile
    <2>2. <<x.length>> \in Seq(Nat) /\ Len(<<x.length>>) = 1 /\ <<x.length>>[1] = x.length
        BY <1>1
    <2> DEFINE g == Before(<<x.length>>)
    <2>3. g[0] = 0 /\ g[1] = g[1 - 1] + <<x.length>>[1]
        <3>1. 1 \in 1 .. Len(<<x.length>>)
            BY <2>2
        <3> HIDE DEF g
        <3>2. QED
            BY <2>2, <3>1, BeforeFacts DEF g
    <2> HIDE DEF g
    <2>4. g[1] = x.length
        BY <1>1, <2>2, <2>3
    <2>5. QED
        BY <1>1, <2>1, <2>2, <2>4 DEF g
<1>3. CASE ~(x.length > 0)
    <2>1. GetFiles(x) = x.files /\ TotalSize(x) = Before(x.files)[Len(x.files)]
        BY <1>3 DEF GetFiles, TotalSize, IsSingleFile
    <2>2. Before(x.files) \in [0 .. Len(x.files) -> Nat] /\ Len(x.files) \in 0 .. Len(x.files)
        BY <1>1, BeforeFacts
    <2>3. QED
        BY <1>1, <2>1, <2>2
<1>4. QED
    BY <1>2, <1>3

LEMMA PieceFacts ==
    ASSUME NEW x \in Infos, NEW i \in Pieces
    PROVE  /\ LengthOfPiece(x, i) \in 1 .. x.pieceLength
           /\ i * x.pieceLength \in Nat
           /\ i * x.pieceLength + LengthOfPiece(x, i) <= TotalSize(x)
           /\ BlocksOf[i] = {b \in 0 .. LengthOfPiece(x, i) : b * BlockSize < LengthOfPiece(x, i)}
<1> DEFINE K == x.pieceLength
           N == x.hashes
           T == TotalSize(x)
           l == LengthOfPiece(x, i)
<1>1. K \in Nat \ {0} /\ N \in Nat \ {0} /\ T \in Nat /\ i \in 0 .. N - 1
    BY InfoFacts
<1>2. (N - 1) * K < T /\ T <= N * K
    BY InfosAssumption
<1>3. BlocksOf[i] = {b \in 0 .. l : b * BlockSize < l}
    BY InfosAssumption
<1>4. l = IF N = i + 1 THEN K - ((N * K) - T) ELSE K
    BY DEF LengthOfPiece, NumPieces
<1> HIDE DEF K, N, T, l
<1>5. (N - 1) * K \in Nat /\ N * K = (N - 1) * K + K /\ i * K \in Nat
    <2>1. N - 1 \in Nat /\ (N - 1) + 1 = N /\ i \in Nat
        BY <1>1
    <2>2. QED
        BY <1>1, <2>1, Products
<1>6. CASE N = i + 1
    <2>1. i = N - 1
        BY <1>1, <1>6
    <2>2. l = T - i * K
        BY <1>1, <1>4, <1>5, <1>6, <2>1
    <2>3. QED
        BY <1>1, <1>2, <1>3, <1>5, <2>1, <2>2 DEF K, T, l
<1>7. CASE N # i + 1
    <2>1. i < N - 1 /\ i \in Nat /\ N - 1 \in Nat
        BY <1>1, <1>7
    <2>2. i * K + K <= (N - 1) * K
        BY <1>1, <2>1, Products
    <2>3. l = K
        BY <1>4, <1>7
    <2>4. l \in 1 .. K /\ i * K + l <= T
        BY <1>1, <1>2, <1>5, <2>2, <2>3
    <2>5. QED
        BY <1>3, <1>5, <2>4 DEF K, T, l
<1>8. QED
    BY <1>6, <1>7

-----------------------------------------------------------------------------
(* Where the blocks are.                                                   *)

(* The block s is one accept lets in, it is inside its piece, and all but  *)
(* the last of a piece have BlockSize bytes.                               *)
LEMMA SlotPlace ==
    ASSUME info \in Infos, NEW s \in Slots
    PROVE  LET r == Request(s)
               l == LengthOfPiece(info, s[1]) IN
           /\ s[1] \in Pieces /\ s[2] \in Nat /\ s[2] * BlockSize \in Nat
           /\ r.length \in 1 .. BlockSize /\ r.begin = s[2] * BlockSize /\ r.index = s[1]
           /\ r.begin + r.length <= l
           /\ r.length = BlockSize \/ r.begin + r.length = l
           /\ Begin(r) = s[2] * BlockSize + s[1] * info.pieceLength
           /\ Begin(r) \in Nat /\ Begin(r) + r.length <= TotalSize(info)
           /\ accept(l, r.begin, r.length)
<1> DEFINE i == s[1]
           b == s[2]
           K == info.pieceLength
           l == LengthOfPiece(info, i)
           T == TotalSize(info)
           m == BlockLength(l, b)
<1>1. i \in Pieces /\ b \in BlocksOf[i]
    BY SlotFacts
<1>2. /\ l \in 1 .. K /\ i * K \in Nat /\ i * K + l <= T
      /\ BlocksOf[i] = {c \in 0 .. l : c * BlockSize < l}
    BY <1>1, PieceFacts
<1>3. K \in Nat \ {0} /\ T \in Nat
    BY InfoFacts
<1>4. i \in Nat
    BY <1>1, InfoFacts
<1>5. Request(s) = [index |-> i, begin |-> b * BlockSize, length |-> m]
    BY DEF Request, nextRequest, BlockLength
<1> HIDE DEF K, l, T, m, i, b
<1>6. l \in Nat \ {0} /\ b \in Nat /\ b * BlockSize < l
    BY <1>1, <1>2, <1>3
<1>7. /\ m \in 1 .. BlockSize /\ b * BlockSize + m <= l
      /\ m = BlockSize \/ b * BlockSize + m = l
      /\ accept(l, b * BlockSize, m)
    BY <1>6, BlockFacts DEF m
<1>8. b * BlockSize \in Nat /\ K * i = i * K /\ BlockSize \in Nat
    BY <1>3, <1>4, <1>6, BlockSizeAssumption, Products
<1>9. Begin(Request(s)) = b * BlockSize + i * K
    BY <1>5, <1>8 DEF Begin, K
<1>10. b * BlockSize + i * K \in Nat /\ (b * BlockSize + i * K) + m <= T
    BY <1>2, <1>3, <1>6, <1>7, <1>8
<1>11. QED
    BY <1>1, <1>5, <1>6, <1>7, <1>8, <1>9, <1>10 DEF i, b, l, T, K

(* No byte is in two blocks.                                               *)
LEMMA SlotsApart ==
    ASSUME info \in Infos, NEW s \in Slots, NEW t \in Slots, s # t
    PROVE  \/ Begin(Request(s)) + Request(s).length <= Begin(Request(t))
           \/ Begin(Request(t)) + Request(t).length <= Begin(Request(s))
<1> DEFINE K == info.pieceLength
           S == BlockSize
           E(u) == Begin(Request(u)) + Request(u).length
<1>1. K \in Nat \ {0} /\ S \in Nat \ {0} /\ Pieces \subseteq Nat
    BY InfoFacts, BlockSizeAssumption
<1>2. ASSUME NEW u \in Slots
      PROVE  /\ u[1] \in Nat /\ u[2] \in Nat /\ u[2] * S \in Nat /\ u[1] * K \in Nat
             /\ Begin(Request(u)) = u[2] * S + u[1] * K
             /\ Request(u).length \in 1 .. S
             /\ u[2] * S + Request(u).length <= K
    <2>1. u[1] \in Pieces
        BY SlotFacts
    <2>2. LengthOfPiece(info, u[1]) \in 1 .. K /\ u[1] * K \in Nat
        BY <2>1, PieceFacts
    <2> DEFINE m == Request(u).length
               l == LengthOfPiece(info, u[1])
    <2>3. /\ u[2] \in Nat /\ u[2] * S \in Nat /\ Begin(Request(u)) = u[2] * S + u[1] * K
          /\ m \in 1 .. S /\ u[2] * S + m <= l
        BY SlotPlace
    <2> HIDE DEF m, l
    <2>4. u[2] * S + m <= K
        BY <1>1, <2>2, <2>3 DEF l
    <2>5. QED
        BY <1>1, <2>1, <2>2, <2>3, <2>4 DEF m
<1>3. ASSUME NEW u \in Slots, NEW v \in Slots, u[1] < v[1]
      PROVE  E(u) <= Begin(Request(v))
    <2>1. u[1] * K + K <= v[1] * K
        BY <1>1, <1>2, <1>3, Products
    <2> HIDE DEF K, S
    <2>2. QED
        BY <1>1, <1>2, <2>1
<1>4. ASSUME NEW u \in Slots, NEW v \in Slots, u[1] = v[1], u[2] < v[2]
      PROVE  E(u) <= Begin(Request(v))
    <2>1. u[2] * S + S <= v[2] * S
        BY <1>1, <1>2, <1>4, Products
    <2> HIDE DEF K, S
    <2>2. QED
        BY <1>1, <1>2, <1>4, <2>1
<1>5. s[1] # t[1] \/ s[2] # t[2]
    BY SlotFacts
<1>6. \/ s[1] < t[1] \/ t[1] < s[1]
      \/ s[1] = t[1] /\ (s[2] < t[2] \/ t[2] < s[2])
    BY <1>2, <1>5
<1>7. QED
    BY <1>3, <1>4, <1>6

(* Every byte of a piece is in one of its blocks.                          *)
LEMMA PieceCovered ==
    ASSUME info \in Infos, NEW i \in Pieces, NEW y \in 0 .. LengthOfPiece(info, i) - 1
    PROVE  LET s == <<i, y \div BlockSize>> IN
           /\ s \in Slots
           /\ y - s[2] * BlockSize \in 0 .. Request(s).length - 1
<1> DEFINE S == BlockSize
           b == y \div S
           l == LengthOfPiece(info, i)
           s == <<i, b>>
           m == Request(s).length
<1>1. S \in Nat \ {0} /\ y \in Nat /\ info.pieceLength \in Nat
    BY BlockSizeAssumption, InfoFacts
<1>2. b \in Nat /\ y % S \in 0 .. S - 1 /\ y = b * S + (y % S)
    BY <1>1, Division
<1>3. l \in Nat \ {0} /\ BlocksOf[i] = {c \in 0 .. l : c * S < l}
    BY <1>1, PieceFacts
<1> HIDE DEF S, b
<1>4. b * S \in Nat /\ b <= b * S
    BY <1>1, <1>2, Products
<1>5. y < l
    BY <1>1, <1>3
<1> HIDE DEF l
<1>6. b * S < l /\ b \in 0 .. l
    BY <1>1, <1>2, <1>3, <1>4, <1>5
<1>7. s \in Slots
    BY <1>3, <1>6, SlotFacts
<1>8. m \in 1 .. S /\ (m = S \/ b * S + m = l)
    BY <1>7, SlotPlace DEF S, l
<1> HIDE DEF m
<1>9. y - b * S \in 0 .. m - 1
    BY <1>1, <1>2, <1>3, <1>4, <1>5, <1>8
<1>10. QED
    BY <1>7, <1>9 DEF S, b, m

-----------------------------------------------------------------------------
(* The files hold what Download says of each block.                        *)

Values == {"empty", "good", "bad"} \X Nat

BytesInv ==
    /\ info \in Infos
    /\ HasLengths(files, GetFiles(info), Values)
    /\ \A s \in Slots :
         Holds(GetFiles(info), files, Begin(Request(s)), BytesOf(disk[s], Request(s)))

(* A byte of a block that holds kind, at the place x from 0.               *)
ByteAt(kind, x) == IF kind = "empty" THEN Zero ELSE <<kind, x + 1>>

LEMMA BytesFacts ==
    ASSUME info \in Infos, NEW s \in Slots, NEW kind \in {"empty", "good", "bad"}
    PROVE  LET r == Request(s) IN
           /\ BytesOf(kind, r) \in Seq(Values)
           /\ Len(BytesOf(kind, r)) = r.length
           /\ \A k \in 0 .. r.length - 1 : BytesOf(kind, r)[k + 1] = ByteAt(kind, Begin(r) + k)
<1> DEFINE r == Request(s)
           m == r.length
           B0 == Begin(r)
<1>1. m \in Nat /\ B0 \in Nat
    <2>1. m \in 1 .. BlockSize /\ BlockSize \in Nat /\ B0 \in Nat
        BY SlotPlace, BlockSizeAssumption
    <2> HIDE DEF m, B0
    <2>2. QED
        BY <2>1
<1>2. BytesOf(kind, r) = [k \in 1 .. m |-> IF kind = "empty" THEN Zero ELSE <<kind, B0 + k>>]
    BY DEF BytesOf
<1> HIDE DEF m, B0, r
<1>3. \A k \in 1 .. m : (IF kind = "empty" THEN Zero ELSE <<kind, B0 + k>>) \in Values
    BY <1>1 DEF Values, Zero
<1> DEFINE f == BytesOf(kind, r)
<1>4. f = [k \in 1 .. m |-> f[k]] /\ \A k \in 1 .. m : f[k] \in Values
    BY <1>2, <1>3
<1>5. ASSUME NEW k \in 0 .. m - 1
      PROVE  f[k + 1] = ByteAt(kind, B0 + k)
    <2>1. k + 1 \in 1 .. m /\ B0 + (k + 1) = (B0 + k) + 1
        BY <1>1
    <2>2. f[k + 1] = IF kind = "empty" THEN Zero ELSE <<kind, B0 + (k + 1)>>
        BY <1>2, <2>1
    <2>3. QED
        BY <2>1, <2>2 DEF ByteAt
<1> HIDE DEF f
<1>6. f \in Seq(Values) /\ Len(f) = m
    BY <1>1, <1>4
<1>7. QED
    BY <1>5, <1>6 DEF f, r, m, B0

LEMMA BytesInit == BlocksInit => BytesInv
<1> SUFFICES ASSUME BlocksInit
             PROVE  BytesInv
    OBVIOUS
<1> DEFINE lengths == GetFiles(info)
<1>1. info \in Infos /\ files = Allocate(info, Zero) /\ disk = [s \in Slots |-> "empty"]
    BY DEF BlocksInit, Init
<1>2. lengths \in Seq(Nat)
    BY <1>1, InfoFacts
<1>3. files = [i \in 1 .. Len(lengths) |-> [k \in 0 .. lengths[i] - 1 |-> Zero]]
    <2>1. DOMAIN lengths = 1 .. Len(lengths)
        BY <1>2
    <2>2. QED
        BY <1>1, <2>1 DEF Allocate
<1> HIDE DEF lengths
<1>4. Zero \in Values
    BY DEF Zero, Values
<1>5. HasLengths(files, lengths, Values)
    BY <1>3, <1>4 DEF HasLengths
<1>6. ASSUME NEW s \in Slots
      PROVE  Holds(lengths, files, Begin(Request(s)), BytesOf(disk[s], Request(s)))
    <2> DEFINE r == Request(s)
               f == BytesOf(disk[s], r)
    <2>1. disk[s] = "empty"
        BY <1>1
    <2>2. Len(f) = r.length /\ \A k \in 0 .. r.length - 1 : f[k + 1] = ByteAt("empty", Begin(r) + k)
        BY <1>1, <2>1, BytesFacts
    <2>3. \A x \in 0 .. Len(f) - 1 : f[x + 1] = Zero
        BY <2>2 DEF ByteAt
    <2>4. \A j \in 1 .. Len(lengths) : \A k \in 0 .. lengths[j] - 1 : files[j][k] = Zero
        BY <1>3
    <2> HIDE DEF f, r
    <2>5. QED
        BY <2>3, <2>4 DEF Holds, f, r
<1>7. QED
    BY <1>1, <1>5, <1>6 DEF BytesInv, lengths

(* Only PutChunk leads from writing to putting, and only it writes.        *)
LEMMA WhoWrites ==
    ASSUME Typed, [Next]_vars
    PROVE  \/ disk' = disk /\ \A p \in Peers : ~Writes(p)
           \/ \E p \in Peers : PutChunk(p) /\ \A q \in Peers : Writes(q) <=> q = p
<1> DEFINE Nobody == disk' = disk /\ \A p \in Peers : ~Writes(p)
<1>1. ASSUME UNCHANGED <<disk, run>>
      PROVE  Nobody
    BY <1>1 DEF Writes
<1>2. run \in [Peers -> RunType]
    BY DEF Typed, TypeOK
<1>3. ASSUME NEW p \in Peers, disk' = disk, \A q \in Peers : q # p => run'[q] = run[q],
             run[p].pc = "write" => run'[p].pc # "put"
      PROVE  Nobody
    BY <1>3 DEF Writes
<1>4. ASSUME NEW p \in Peers, PutChunk(p)
      PROVE  \A q \in Peers : Writes(q) <=> q = p
    <2>1. run' = [run EXCEPT ![p] = At(run[p], "put", cached[run[p].obj].obtained)]
        BY <1>4 DEF PutChunk
    <2>2. run'[p].pc = "put" /\ \A q \in Peers : q # p => run'[q] = run[q]
        BY <1>2, <2>1 DEF At, RunType
    <2>3. run[p].pc = "write"
        BY <1>4 DEF PutChunk
    <2>4. QED
        BY <2>2, <2>3 DEF Writes
<1>5. ASSUME TickStep \/ \E i \in Pieces : Age(i)
      PROVE  Nobody
    BY <1>1, <1>5, HaveTick
<1>6. ASSUME NEW p \in Peers, RunStep(p), ~PutChunk(p)
      PROVE  Nobody
    <2>1. run[p].pc # "write"
        BY <1>6 DEF RunStep, CancelLoad, CancelStore, VisitData, SetObtained, UnsetPending,
           CheckDone, ReadBack, SetHave, BroadcastHave, removePiece
    <2>2. disk' = disk
        BY <1>6 DEF RunStep, CancelLoad, CancelStore, VisitData, SetObtained, UnsetPending,
           CheckDone, ReadBack, SetHave, BroadcastHave, removePiece
    <2>3. \A q \in Peers : q # p => run'[q] = run[q]
        BY <1>2, <1>6 DEF RunStep, CancelLoad, CancelStore, VisitData, SetObtained,
           UnsetPending, CheckDone, ReadBack, SetHave, BroadcastHave, removePiece
    <2>4. QED
        BY <1>3, <2>1, <2>2, <2>3
<1>7. ASSUME NEW p \in Peers, ReceiveChoke(p) \/ doClose(p) \/ ReadBackFails(p)
      PROVE  Nobody
    <2>1. run[p].pc # "write" /\ disk' = disk
        BY <1>7 DEF ReceiveChoke, doClose, ReadBackFails, Unlocked
    <2>2. \A q \in Peers : q # p => run'[q] = run[q]
        BY <1>2, <1>7 DEF ReceiveChoke, doClose, ReadBackFails
    <2>3. QED
        BY <1>3, <2>1, <2>2
<1>8. ASSUME NEW p \in Peers, PutChunkFails(p)
      PROVE  Nobody
    <2>1. run' = [run EXCEPT ![p] = At(run[p], "unset", cached[run[p].obj].pending)]
        BY <1>8 DEF PutChunkFails
    <2>2. run'[p].pc = "unset" /\ \A q \in Peers : q # p => run'[q] = run[q]
        BY <1>2, <2>1 DEF At, RunType
    <2>3. disk' = disk
        BY <1>8 DEF PutChunkFails
    <2>4. QED
        BY <1>3, <2>2, <2>3
<1>9. ASSUME NEW p \in Peers, NEW r, ReceivePiece(p, r) \/ WriteRequest(p, r)
      PROVE  Nobody
    <2>1. run[p].pc # "write" /\ disk' = disk
        BY <1>9 DEF ReceivePiece, WriteRequest, Unlocked
    <2>2. \A q \in Peers : q # p => run'[q] = run[q]
        BY <1>2, <1>9 DEF ReceivePiece, WriteRequest
    <2>3. QED
        BY <1>3, <2>1, <2>2
<1>10. ASSUME NEW p \in Peers, ReceiveUnchoke(p)
       PROVE  Nobody
    BY <1>1, <1>10 DEF ReceiveUnchoke
<1>11. ASSUME UNCHANGED vars
       PROVE  Nobody
    BY <1>1, <1>11 DEF vars
<1>12. QED
    BY <1>4, <1>5, <1>6, <1>7, <1>8, <1>9, <1>10, <1>11 DEF Next, Remotely, Fault

(* Writing a block changes what the files hold of that block only.         *)
LEMMA WrittenHolds ==
    ASSUME NEW lengths \in Seq(Nat), NEW V, NEW old, HasLengths(old, lengths, V),
           NEW data \in Seq(V), NEW off \in Nat, NEW new,
           new = FilesAfter(lengths, old, data, off, Len(lengths))
    PROVE  /\ HasLengths(new, lengths, V)
           /\ Holds(lengths, new, off, data)
           /\ \A at \in Nat, want \in Seq(V) :
                /\ Holds(lengths, old, at, want)
                /\ at + Len(want) <= off \/ off + Len(data) <= at
                => Holds(lengths, new, at, want)
<1> DEFINE n == Len(lengths)
           m == Len(data)
           P == Before(lengths)
<1>1. n \in Nat /\ \A j \in 1 .. n : lengths[j] \in Nat
    OBVIOUS
<1>2. m \in Nat /\ \A x \in 0 .. m - 1 : data[x + 1] \in V
    <2>1. m \in Nat
        OBVIOUS
    <2>2. ASSUME NEW x \in 0 .. m - 1
          PROVE  x + 1 \in 1 .. m
        <3> HIDE DEF m
        <3>1. QED
            BY <2>1
    <2>3. \A k \in 1 .. m : data[k] \in V
        OBVIOUS
    <2>4. QED
        BY <2>1, <2>2, <2>3
<1>3. \A j \in 1 .. n : j - 1 \in 0 .. n /\ P[j - 1] \in Nat
    <2>1. P \in [0 .. n -> Nat]
        BY BeforeFacts
    <2> HIDE DEF P, n
    <2>2. QED
        BY <1>1, <2>1
<1>4. new = [j \in 1 .. n |-> [k \in 0 .. lengths[j] - 1 |->
               IF P[j - 1] + (k - off) \in 0 .. m - 1 THEN data[(P[j - 1] + (k - off)) + 1] ELSE old[j][k]]]
    <2>1. \A j \in 1 .. n : j <= n
        BY <1>1
    <2>2. QED
        BY <2>1 DEF FilesAfter
<1>5. \A j \in 1 .. n : \A k \in 0 .. lengths[j] - 1 : old[j][k] \in V
    BY DEF HasLengths
<1> HIDE DEF n, m, P
<1>6. HasLengths(new, lengths, V)
    <2>1. \A j \in 1 .. n : \A k \in 0 .. lengths[j] - 1 :
            (IF P[j - 1] + (k - off) \in 0 .. m - 1 THEN data[(P[j - 1] + (k - off)) + 1] ELSE old[j][k]) \in V
        BY <1>2, <1>5
    <2>2. new = [j \in 1 .. n |-> [k \in 0 .. lengths[j] - 1 |-> new[j][k]]]
        BY <1>4
    <2>3. \A j \in 1 .. n : \A k \in 0 .. lengths[j] - 1 : new[j][k] \in V
        BY <1>4, <2>1
    <2>4. QED
        BY <2>2, <2>3 DEF HasLengths, n
<1>7. Holds(lengths, new, off, data)
    BY <1>4 DEF Holds, n, m, P
<1>8. ASSUME NEW at \in Nat, NEW want \in Seq(V), Holds(lengths, old, at, want),
             at + Len(want) <= off \/ off + m <= at
      PROVE  Holds(lengths, new, at, want)
    <2> DEFINE w == Len(want)
    <2>1. w \in Nat
        OBVIOUS
    <2>2. ASSUME NEW j \in 1 .. n, NEW k \in 0 .. lengths[j] - 1, P[j - 1] + (k - at) \in 0 .. w - 1
          PROVE  new[j][k] = want[(P[j - 1] + (k - at)) + 1]
        <3>1. old[j][k] = want[(P[j - 1] + (k - at)) + 1]
            BY <1>8, <2>2 DEF Holds, n, P
        <3>2. at + w <= off \/ off + m <= at
            BY <1>8
        <3> HIDE DEF w
        <3> DEFINE b == P[j - 1]
        <3>3. b \in Nat /\ k \in Nat /\ b + (k - at) \in 0 .. w - 1
            BY <1>1, <1>3, <2>2
        <3> HIDE DEF b
        <3>4. b + (k - off) \notin 0 .. m - 1
            BY <1>2, <2>1, <3>2, <3>3
        <3>5. P[j - 1] + (k - off) \notin 0 .. m - 1
            BY <3>4 DEF b
        <3>6. QED
            BY <1>4, <3>1, <3>5
    <2>3. QED
        BY <2>2 DEF Holds, n, P
<1>9. QED
    BY <1>6, <1>7, <1>8 DEF m

LEMMA BytesPut ==
    ASSUME Typed, BytesInv, NEW p \in Peers, PutChunk(p), \A q \in Peers : Writes(q) <=> q = p,
           BlocksNext
    PROVE  BytesInv'
<1> DEFINE lengths == GetFiles(info)
           s == run[p].req
           kind == IF run[p].good THEN "good" ELSE "bad"
           data == BytesOf(kind, Request(s))
           off == Begin(Request(s))
<1>1. info \in Infos /\ HasLengths(files, lengths, Values)
    BY DEF BytesInv
<1>2. lengths \in Seq(Nat)
    BY <1>1, InfoFacts
<1>3. s \in Slots
    BY DEF PutChunk, Typed, RunRefs
<1>4. kind \in {"empty", "good", "bad"}
    OBVIOUS
<1>5. info' = info
    BY DEF BlocksNext
<1>6. files' = putChunk(info, files, Request(s), data)
    <2>1. (CHOOSE q \in Peers : Writes(q)) = p
        OBVIOUS
    <2>2. QED
        BY <2>1 DEF BlocksNext
<1>7. disk' = [disk EXCEPT ![s] = kind] /\ disk \in [Slots -> {"empty", "good", "bad"}]
    BY DEF PutChunk, Typed, TypeOK
<1>8. files' = Writing(lengths, files, data, off)[Len(lengths)].files
    BY <1>6 DEF putChunk, WriteAt, Begin
<1>9. data \in Seq(Values) /\ Len(data) = Request(s).length
    BY <1>1, <1>3, <1>4, BytesFacts
<1>10. off \in Nat
    BY <1>1, <1>3, SlotPlace
<1>11. \A t \in Slots : Begin(Request(t))' = Begin(Request(t))
    BY <1>5 DEF Begin, Request
<1>12. \A t \in Slots : \A c : BytesOf(c, Request(t))' = BytesOf(c, Request(t))
    BY <1>5 DEF BytesOf, Begin, Request
<1>13. \A t \in Slots : Holds(lengths, files, Begin(Request(t)), BytesOf(disk[t], Request(t)))
    BY DEF BytesInv
<1> HIDE DEF lengths, kind, data, off, s
<1>14. files' = FilesAfter(lengths, files, data, off, Len(lengths))
    BY <1>1, <1>2, <1>8, <1>9, <1>10, WritingFacts
<1>15. HasLengths(files', lengths, Values) /\ Holds(lengths, files', off, data)
    BY <1>1, <1>2, <1>9, <1>10, <1>14, WrittenHolds
<1>16. ASSUME NEW t \in Slots
       PROVE  Holds(lengths, files', Begin(Request(t)), BytesOf(disk'[t], Request(t)))
    <2>1. CASE t = s
        <3>1. disk'[t] = kind
            BY <1>7, <2>1
        <3>2. QED
            BY <1>15, <2>1, <3>1 DEF data, off
    <2>2. CASE t # s
        <3> DEFINE want == BytesOf(disk[t], Request(t))
                   at == Begin(Request(t))
        <3>1. disk'[t] = disk[t] /\ disk[t] \in {"empty", "good", "bad"}
            BY <1>7, <2>2
        <3>2. want \in Seq(Values) /\ Len(want) = Request(t).length
            BY <1>1, <3>1, BytesFacts
        <3>3. at \in Nat
            BY <1>1, SlotPlace
        <3>4. at + Len(want) <= off \/ off + Len(data) <= at
            BY <1>1, <1>3, <1>9, <2>2, <3>2, SlotsApart DEF off
        <3>5. Holds(lengths, files, at, want)
            BY <1>13
        <3> HIDE DEF want, at
        <3>6. Holds(lengths, files', at, want)
            BY <1>1, <1>2, <1>9, <1>10, <1>14, <3>2, <3>3, <3>4, <3>5, WrittenHolds
        <3>7. QED
            BY <3>1, <3>6 DEF want, at
    <2>3. QED
        BY <2>1, <2>2
<1>17. QED
    BY <1>1, <1>5, <1>11, <1>12, <1>15, <1>16 DEF BytesInv, lengths

(* Of all the steps, only the write of a block touches the files.          *)
LEMMA BytesStep ==
    ASSUME Typed, BytesInv, [BlocksNext]_<<vars, info, files>>
    PROVE  BytesInv'
<1>1. ASSUME info' = info, files' = files, disk' = disk
      PROVE  BytesInv'
    BY <1>1 DEF BytesInv, Begin, Request, BytesOf
<1>2. CASE UNCHANGED <<vars, info, files>>
    BY <1>1, <1>2 DEF vars
<1>3. CASE BlocksNext
    <2>1. [Next]_vars /\ info' = info
        BY <1>3 DEF BlocksNext
    <2>2. CASE disk' = disk /\ \A p \in Peers : ~Writes(p)
        <3>1. files' = files
            BY <1>3, <2>2 DEF BlocksNext
        <3>2. QED
            BY <1>1, <2>1, <2>2, <3>1
    <2>3. CASE \E p \in Peers : PutChunk(p) /\ \A q \in Peers : Writes(q) <=> q = p
        BY <1>3, <2>3, BytesPut
    <2>4. QED
        BY <2>1, <2>2, <2>3, WhoWrites
<1>4. QED
    BY <1>2, <1>3

-----------------------------------------------------------------------------
(* What is read is what Download says.                                     *)

(* A byte of piece i, at the place x in it, that the files hold.           *)
ByteOf(i, x) == ByteAt(disk[<<i, x \div BlockSize>>], i * info.pieceLength + x)

LEMMA BlockRead ==
    ASSUME Typed, BytesInv, NEW s \in Slots
    PROVE  handlePieceRequest(info, files, Request(s), None) = BytesOf(disk[s], Request(s))
<1> DEFINE r == Request(s)
           want == BytesOf(disk[s], r)
           lengths == GetFiles(info)
           off == Begin(r)
<1>1. info \in Infos /\ HasLengths(files, lengths, Values) /\ Holds(lengths, files, off, want)
    BY DEF BytesInv
<1>2. lengths \in Seq(Nat) /\ TotalSize(info) = Before(lengths)[Len(lengths)]
    BY <1>1, InfoFacts
<1>3. want \in Seq(Values) /\ Len(want) = r.length
    BY <1>1, BytesFacts DEF Typed, TypeOK
<1>4. off \in Nat /\ off + r.length <= TotalSize(info) /\ r.length \in 1 .. BlockSize
    BY <1>1, SlotPlace
<1>5. GetPiece(info, files, r) = Reading(lengths, files, r.length, off)[Len(lengths)].b
    BY DEF GetPiece, ReadAt, Begin
<1> HIDE DEF r, want, lengths, off
<1>6. GetPiece(info, files, r) = want
    BY <1>1, <1>2, <1>3, <1>4, <1>5, ReadingFacts
<1>7. QED
    BY <1>3, <1>4, <1>6 DEF handlePieceRequest, r, want

LEMMA PieceHeld ==
    ASSUME Typed, BytesInv, NEW i \in Pieces
    PROVE  LET l == LengthOfPiece(info, i) IN
           Holds(GetFiles(info), files, i * info.pieceLength, [k \in 1 .. l |-> ByteOf(i, k - 1)])
<1> DEFINE lengths == GetFiles(info)
           l == LengthOfPiece(info, i)
           want == [k \in 1 .. l |-> ByteOf(i, k - 1)]
           at == i * info.pieceLength
           P == Before(lengths)
<1>1. info \in Infos /\ \A s \in Slots :
         Holds(lengths, files, Begin(Request(s)), BytesOf(disk[s], Request(s)))
    BY DEF BytesInv
<1>2. lengths \in Seq(Nat)
    BY <1>1, InfoFacts
<1>3. \A j \in 1 .. Len(lengths) : P[j - 1] \in Nat /\ lengths[j] \in Nat
    <2>1. P \in [0 .. Len(lengths) -> Nat] /\ Len(lengths) \in Nat
        BY <1>2, BeforeFacts
    <2> DEFINE n == Len(lengths)
    <2>2. \A j \in 1 .. n : lengths[j] \in Nat
        BY <1>2
    <2> HIDE DEF P, n
    <2>3. QED
        BY <2>1, <2>2 DEF n
<1>4. l \in Nat \ {0} /\ at \in Nat
    <2>1. info.pieceLength \in Nat
        BY <1>1, InfoFacts
    <2>2. l \in 1 .. info.pieceLength /\ at \in Nat
        BY <1>1, PieceFacts
    <2> HIDE DEF l
    <2>3. QED
        BY <2>1, <2>2
<1>5. Len(want) = l /\ \A x \in 0 .. l - 1 : want[x + 1] = ByteOf(i, x)
    <2> HIDE DEF l
    <2> DEFINE V == {want[k] : k \in 1 .. l}
    <2>1. want = [k \in 1 .. l |-> want[k]] /\ \A k \in 1 .. l : want[k] = ByteOf(i, k - 1)
        OBVIOUS
    <2>2. \A x \in 0 .. l - 1 : x + 1 \in 1 .. l /\ (x + 1) - 1 = x
        BY <1>4
    <2>3. \A k \in 1 .. l : want[k] \in V
        OBVIOUS
    <2> HIDE DEF want, V
    <2>4. want \in Seq(V) /\ Len(want) = l
        BY <1>4, <2>1, <2>3
    <2>5. \A x \in 0 .. l - 1 : want[x + 1] = ByteOf(i, x)
        BY <2>1, <2>2
    <2>6. QED
        BY <2>4, <2>5
<1> HIDE DEF l
<1>6. ASSUME NEW j \in 1 .. Len(lengths), NEW k \in 0 .. lengths[j] - 1,
             P[j - 1] + (k - at) \in 0 .. l - 1
      PROVE  files[j][k] = want[(P[j - 1] + (k - at)) + 1]
    <2> DEFINE x == P[j - 1] + (k - at)
               s == <<i, x \div BlockSize>>
               m == Request(s).length
               b == s[2] * BlockSize
               off == Begin(Request(s))
               block == BytesOf(disk[s], Request(s))
    <2>1. x \in 0 .. l - 1
        BY <1>6
    <2>2. s \in Slots /\ x - b \in 0 .. m - 1
        BY <1>1, <2>1, PieceCovered DEF l
    <2>3. disk[s] \in {"empty", "good", "bad"}
        BY <2>2 DEF Typed, TypeOK
    <2>4. b \in Nat /\ off = b + at /\ m \in 1 .. BlockSize
        BY <1>1, <2>2, SlotPlace
    <2>5. Len(block) = m /\ \A y \in 0 .. m - 1 : block[y + 1] = ByteAt(disk[s], off + y)
        BY <1>1, <2>2, <2>3, BytesFacts
    <2>6. P[j - 1] + (k - off) \in 0 .. Len(block) - 1
            => files[j][k] = block[(P[j - 1] + (k - off)) + 1]
        BY <1>1, <2>2 DEF Holds, P
    <2>7. BlockSize \in Nat
        BY BlockSizeAssumption
    <2>8. P[j - 1] \in Nat /\ k \in Nat
        BY <1>3
    <2> DEFINE p == P[j - 1]
    <2>9. x = p + (k - at)
        OBVIOUS
    <2>10. ByteOf(i, x) = ByteAt(disk[s], at + x)
        BY DEF ByteOf
    <2> HIDE DEF x, s, m, b, off, block, at, p
    <2>11. p + (k - off) = x - b /\ off + (x - b) = at + x
        BY <1>4, <2>4, <2>8, <2>9 DEF p
    <2>12. files[j][k] = block[(x - b) + 1]
        BY <2>2, <2>5, <2>6, <2>11 DEF p
    <2>13. block[(x - b) + 1] = ByteAt(disk[s], at + x)
        BY <2>2, <2>5, <2>11
    <2>14. want[x + 1] = ByteOf(i, x)
        BY <1>5, <2>1
    <2>15. QED
        BY <2>10, <2>12, <2>13, <2>14 DEF x
<1>7. Holds(lengths, files, at, want)
    BY <1>5, <1>6 DEF Holds, P
<1>8. QED
    BY <1>7 DEF l

LEMMA PieceRead ==
    ASSUME Typed, BytesInv, NEW i \in Pieces
    PROVE  GetPiece(info, files, WholePiece(i))
             = [k \in 1 .. LengthOfPiece(info, i) |-> ByteOf(i, k - 1)]
<1> DEFINE lengths == GetFiles(info)
           l == LengthOfPiece(info, i)
           want == [k \in 1 .. l |-> ByteOf(i, k - 1)]
           at == i * info.pieceLength
<1>1. info \in Infos /\ HasLengths(files, lengths, Values)
    BY DEF BytesInv
<1>2. lengths \in Seq(Nat) /\ TotalSize(info) = Before(lengths)[Len(lengths)]
    BY <1>1, InfoFacts
<1>3. info.pieceLength \in Nat /\ l \in 1 .. info.pieceLength /\ at \in Nat /\ at + l <= TotalSize(info)
    BY <1>1, InfoFacts, PieceFacts
<1>4. l \in Nat
    <2> HIDE DEF l
    <2>1. QED
        BY <1>3
<1>5. Holds(lengths, files, at, want)
    BY PieceHeld
<1>6. ASSUME NEW x \in 0 .. l - 1
      PROVE  ByteOf(i, x) \in Values
    <2> DEFINE s == <<i, x \div BlockSize>>
    <2>1. disk[s] \in {"empty", "good", "bad"}
        BY <1>1, PieceCovered DEF Typed, TypeOK
    <2> HIDE DEF l
    <2>2. at + x \in Nat
        BY <1>3, <1>4
    <2> HIDE DEF at
    <2>3. (at + x) + 1 \in Nat
        BY <2>2
    <2>4. ByteOf(i, x) = ByteAt(disk[s], at + x)
        BY DEF ByteOf, at
    <2> HIDE DEF s
    <2>5. QED
        BY <2>1, <2>3, <2>4 DEF ByteAt, Values, Zero
<1>7. GetPiece(info, files, WholePiece(i)) = Reading(lengths, files, l, at)[Len(lengths)].b
    <2>1. i \in Nat
        BY <1>1, InfoFacts
    <2> DEFINE K == info.pieceLength
    <2>2. 0 + (K * i) = i * K
        <3> HIDE DEF K
        <3>1. QED
            BY <1>3, <2>1 DEF K
    <2>3. QED
        BY <2>2 DEF GetPiece, ReadAt, WholePiece
<1> HIDE DEF l
<1>8. want \in Seq(Values) /\ Len(want) = l
    <2>1. \A k \in 1 .. l : k - 1 \in 0 .. l - 1
        BY <1>4
    <2>2. \A k \in 1 .. l : ByteOf(i, k - 1) \in Values
        BY <1>6, <2>1
    <2>3. want = [k \in 1 .. l |-> want[k]] /\ \A k \in 1 .. l : want[k] \in Values
        BY <2>2
    <2> HIDE DEF want
    <2>4. QED
        BY <1>4, <2>3
<1> HIDE DEF want, at, lengths
<1>9. Reading(lengths, files, Len(want), at)[Len(lengths)].b = want
    <2>1. at \in Nat /\ at + Len(want) <= Before(lengths)[Len(lengths)]
        BY <1>2, <1>3, <1>8
    <2>2. QED
        BY <1>1, <1>2, <1>5, <1>8, <2>1, ReadingFacts
<1>10. QED
    BY <1>7, <1>8, <1>9 DEF want, l

(* The hash of a piece is right when all its blocks are good.              *)
LEMMA PieceChecked ==
    ASSUME Typed, BytesInv, NEW i \in Pieces
    PROVE  CheckPiece(WholePiece(i), GetPiece(info, files, WholePiece(i))) <=> GoodOnDisk(i)
<1> DEFINE l == LengthOfPiece(info, i)
           at == i * info.pieceLength
           got == [k \in 1 .. l |-> ByteOf(i, k - 1)]
           good == [k \in 1 .. l |-> <<"good", at + k>>]
<1>1. info \in Infos
    BY DEF BytesInv
<1>2. GetPiece(info, files, WholePiece(i)) = got
    BY PieceRead
<1>3. i \in Nat /\ info.pieceLength \in Nat /\ at \in Nat /\ l \in 1 .. info.pieceLength
      /\ BlocksOf[i] = {b \in 0 .. l : b * BlockSize < l}
    BY <1>1, InfoFacts, PieceFacts
<1>4. l \in Nat
    <2> HIDE DEF l
    <2>1. QED
        BY <1>3
<1>5. BytesOf("good", WholePiece(i)) = good
    <2>1. Begin(WholePiece(i)) = at
        <3> DEFINE K == info.pieceLength
        <3>1. 0 + (K * i) = i * K
            <4> HIDE DEF K
            <4>1. QED
                BY <1>3 DEF K
        <3>2. QED
            BY <3>1 DEF Begin, WholePiece
    <2>2. WholePiece(i).length = l
        BY DEF WholePiece
    <2> HIDE DEF l, at
    <2>3. QED
        BY <2>1, <2>2 DEF BytesOf
<1>6. BlockSize \in Nat \ {0}
    BY BlockSizeAssumption
<1>7. ASSUME NEW x \in 0 .. l - 1
      PROVE  /\ ByteOf(i, x) = ByteAt(disk[<<i, x \div BlockSize>>], at + x)
             /\ x \div BlockSize \in BlocksOf[i]
    BY <1>1, PieceCovered, SlotFacts DEF ByteOf
<1> HIDE DEF l, at
<1>8. ASSUME GoodOnDisk(i)
      PROVE  got = good
    <2>1. ASSUME NEW k \in 1 .. l
          PROVE  ByteOf(i, k - 1) = <<"good", at + k>>
        <3>1. k - 1 \in 0 .. l - 1 /\ (at + (k - 1)) + 1 = at + k
            BY <1>3, <1>4
        <3>2. disk[<<i, (k - 1) \div BlockSize>>] = "good"
            BY <1>7, <1>8, <3>1 DEF GoodOnDisk
        <3>3. ByteOf(i, k - 1) = ByteAt("good", at + (k - 1))
            BY <1>7, <3>1, <3>2
        <3>4. QED
            BY <3>1, <3>3 DEF ByteAt
    <2>2. QED
        BY <2>1
<1>9. ASSUME got = good, NEW b \in BlocksOf[i]
      PROVE  disk[<<i, b>>] = "good"
    <2> DEFINE x == b * BlockSize
    <2>1. b \in Nat /\ x < l
        BY <1>3, <1>4
    <2>2. x \in Nat /\ x \div BlockSize = b
        <3>1. x \in Nat /\ x + 0 = x
            BY <1>6, <2>1, Products
        <3>2. (b * BlockSize + 0) \div BlockSize = b
            BY <1>6, <2>1, DivisionUnique
        <3>3. QED
            BY <3>1, <3>2
    <2> HIDE DEF x
    <2>3. x \in 0 .. l - 1 /\ x + 1 \in 1 .. l /\ (x + 1) - 1 = x
        BY <1>4, <2>1, <2>2
    <2>4. ByteOf(i, x) = <<"good", at + (x + 1)>>
        <3>1. got[x + 1] = good[x + 1]
            BY <1>9
        <3>2. got[x + 1] = ByteOf(i, (x + 1) - 1)
            BY <2>3
        <3>3. good[x + 1] = <<"good", at + (x + 1)>>
            BY <2>3
        <3>4. QED
            BY <2>3, <3>1, <3>2, <3>3
    <2>5. ByteOf(i, x) = ByteAt(disk[<<i, b>>], at + x)
        BY <1>7, <2>2, <2>3
    <2>6. ByteAt(disk[<<i, b>>], at + x)[1] = disk[<<i, b>>]
        BY DEF ByteAt, Zero
    <2>7. <<"good", at + (x + 1)>>[1] = "good"
        OBVIOUS
    <2>8. QED
        BY <2>4, <2>5, <2>6, <2>7
<1>10. QED
    BY <1>2, <1>5, <1>8, <1>9 DEF CheckPiece, GoodOnDisk

(* What is left to download is nothing when every piece is held only.      *)
LEMMA RemainingFacts ==
    ASSUME info \in Infos, NEW S \in SUBSET Pieces
    PROVE  (DownloadRemaining(info, Cardinality(S)) = 0) <=> S = Pieces
<1> DEFINE K == info.pieceLength
           N == info.hashes
           T == TotalSize(info)
           c == Cardinality(S)
<1>1. K \in Nat \ {0} /\ N \in Nat \ {0} /\ T \in Nat /\ Pieces = 0 .. N - 1
    BY InfoFacts
<1>2. (N - 1) * K < T /\ T <= N * K
    BY InfosAssumption
<1>3. DownloadRemaining(info, c) = IF c * K > T THEN 0 ELSE T - (c * K)
    BY DEF DownloadRemaining
<1> HIDE DEF K, N, T
<1>4. IsFiniteSet(Pieces) /\ Cardinality(Pieces) = N
    <2>1. IsFiniteSet(0 .. N - 1) /\ Cardinality(0 .. N - 1) = IF 0 > N - 1 THEN 0 ELSE (N - 1) - 0 + 1
        BY <1>1, FS_Interval
    <2>2. QED
        BY <1>1, <2>1
<1>5. c \in Nat /\ c <= N /\ (c = N => S = Pieces)
    <2>1. IsFiniteSet(S) /\ c <= Cardinality(Pieces) /\ (c = Cardinality(Pieces) => S = Pieces)
        BY <1>4, FS_Subset
    <2>2. c \in Nat
        BY <2>1, FS_CardinalityType
    <2>3. QED
        BY <1>4, <2>1, <2>2
<1>6. S = Pieces => c = N
    BY <1>4
<1> HIDE DEF c
<1>7. c * K \in Nat
    BY <1>1, <1>5, Products
<1>8. CASE c = N
    <2>1. c * K = N * K /\ N * K \in Nat
        BY <1>7, <1>8
    <2>2. DownloadRemaining(info, c) = 0
        BY <1>1, <1>2, <1>3, <2>1
    <2>3. QED
        BY <1>5, <1>8, <2>2 DEF c
<1>9. CASE c # N
    <2>1. N - 1 \in Nat /\ (N - 1) * K \in Nat /\ c <= N - 1
        BY <1>1, <1>5, <1>9, Products
    <2>2. c * K <= (N - 1) * K
        BY <1>1, <1>5, <2>1, Products
    <2>3. c * K < T
        BY <1>1, <1>2, <1>7, <2>1, <2>2
    <2>4. DownloadRemaining(info, c) # 0
        BY <1>1, <1>3, <1>7, <2>3
    <2>5. QED
        BY <1>6, <1>9, <2>4 DEF c
<1>10. QED
    BY <1>8, <1>9

LEMMA BytesLand ==
    ASSUME Typed, BytesInv
    PROVE  BlocksLand
<1>1. info \in Infos
    BY DEF BytesInv
<1>2. ASSUME NEW i \in Pieces
      PROVE  newPiece(LengthOfPiece(info, i)) = BlocksOf[i]
    <2> DEFINE l == LengthOfPiece(info, i)
    <2>1. /\ info.pieceLength \in Nat /\ l \in 1 .. info.pieceLength
          /\ BlocksOf[i] = {b \in 0 .. l : b * BlockSize < l}
        BY <1>1, InfoFacts, PieceFacts
    <2> HIDE DEF l
    <2>2. l \in Nat \ {0}
        BY <2>1
    <2>3. QED
        BY <2>1, <2>2, NewPieceFacts DEF l
<1>3. ASSUME NEW s \in Slots
      PROVE  accept(LengthOfPiece(info, s[1]), Request(s).begin, Request(s).length)
    BY <1>1, SlotPlace
<1>4. (DownloadRemaining(info, Cardinality(bf)) = 0) <=> Done
    BY <1>1, RemainingFacts DEF Done, Typed, TypeOK
<1>5. QED
    BY <1>2, <1>3, <1>4, PieceChecked, BlockRead DEF BlocksLand

\* Of every torrent, however its files are cut: the blocks asked for are those of
\* the cached pieces, accept takes the answers, and what an upload or the check of
\* a hash reads is what was written there: BlocksLand.
THEOREM BlocksCorrect == BlocksSpec => []BlocksLand
<1>1. BlocksInit => Typed /\ BytesInv
    BY TypedInit, BytesInit DEF BlocksInit
<1>2. Typed /\ BytesInv /\ [BlocksNext]_<<vars, info, files>> => Typed' /\ BytesInv'
    <2>1. [BlocksNext]_<<vars, info, files>> => [Next]_vars
        BY DEF BlocksNext
    <2>2. QED
        BY <2>1, TypedStep, BytesStep
<1>3. Typed /\ BytesInv => BlocksLand
    BY BytesLand
<1>4. QED
    BY <1>1, <1>2, <1>3, PTL DEF BlocksSpec

-----------------------------------------------------------------------------
(* The bytes of a bitfield.                                                *)

LEMMA PieceCount ==
    ASSUME info \in Infos
    PROVE  /\ IsFiniteSet(Pieces) /\ Cardinality(Pieces) \in Nat \ {0}
           /\ Pieces = 0 .. Cardinality(Pieces) - 1
<1> DEFINE N == info.hashes
<1>1. N \in Nat \ {0} /\ Pieces = 0 .. N - 1
    BY InfoFacts
<1> HIDE DEF N
<1>2. IsFiniteSet(0 .. N - 1) /\ Cardinality(0 .. N - 1) = IF 0 > N - 1 THEN 0 ELSE (N - 1) - 0 + 1
    BY <1>1, FS_Interval
<1>3. QED
    BY <1>1, <1>2

(* How many bytes XD has for n bits, and how many a peer sends.            *)
LastByte(w, n) == (n \div w) + 1
Payload(w, n)  == (n + w - 1) \div w

(* Which index a bit of a byte stands for, and back.                       *)
IndexOf(w, k, m) == (k - 1) * w + (w - 1 - m)

LEMMA BitPlace ==
    ASSUME NEW w \in Nat \ {0}, NEW n \in Nat, NEW i \in 0 .. n - 1
    PROVE  /\ Idx(w, i) \in 1 .. LastByte(w, n)
           /\ Idx(w, i) \in 1 .. Payload(w, n)
           /\ Mask(w, i) \in Byte(w)
           /\ IndexOf(w, Idx(w, i), Mask(w, i)) = i
<1> DEFINE q == i \div w
           r == i % w
           Q == n \div w
           R == n % w
           Q2 == (n + w - 1) \div w
           R2 == (n + w - 1) % w
<1>1. i \in Nat /\ n + w - 1 \in Nat
    OBVIOUS
<1>2. /\ q \in Nat /\ r \in 0 .. w - 1 /\ i = q * w + r
      /\ Q \in Nat /\ R \in 0 .. w - 1 /\ n = Q * w + R
      /\ Q2 \in Nat /\ R2 \in 0 .. w - 1 /\ n + w - 1 = Q2 * w + R2
    BY <1>1, Division
<1>3. Idx(w, i) = q + 1 /\ Mask(w, i) = w - 1 - r
    BY DEF Idx, Mask
<1> HIDE DEF q, r, Q, R, Q2, R2
<1>4. q * w \in Nat /\ Q * w \in Nat /\ Q2 * w \in Nat
    BY <1>2, Products
<1>5. q <= Q
    <2>1. ASSUME Q < q
          PROVE  FALSE
        <3>1. Q * w + w <= q * w
            BY <1>2, <2>1, Products
        <3>2. QED
            BY <1>1, <1>2, <1>4, <3>1
    <2>2. QED
        BY <1>2, <2>1
<1>6. q + 1 <= Q2
    <2>1. ASSUME Q2 <= q
          PROVE  FALSE
        <3>1. Q2 * w <= q * w
            <4>1. Q2 = q \/ Q2 < q
                BY <1>2, <2>1
            <4>2. Q2 < q => Q2 * w + w <= q * w
                BY <1>2, Products
            <4>3. QED
                BY <1>4, <4>1, <4>2
        <3>2. QED
            BY <1>1, <1>2, <1>4, <3>1
    <2>2. QED
        BY <1>2, <2>1
<1>7. w - 1 - r \in 0 .. w - 1 /\ w - 1 - (w - 1 - r) = r /\ (q + 1) - 1 = q
    BY <1>2
<1>8. Idx(w, i) \in 1 .. Q + 1 /\ Idx(w, i) \in 1 .. Q2
    BY <1>2, <1>3, <1>5, <1>6
<1>9. Mask(w, i) \in Byte(w)
    BY <1>3, <1>7 DEF Byte
<1>10. IndexOf(w, Idx(w, i), Mask(w, i)) = i
    BY <1>2, <1>3, <1>7 DEF IndexOf
<1>11. QED
    BY <1>8, <1>9, <1>10 DEF Q, Q2, LastByte, Payload

LEMMA BitPlaceUnique ==
    ASSUME NEW w \in Nat \ {0}, NEW k \in Nat \ {0}, NEW m \in Byte(w)
    PROVE  /\ IndexOf(w, k, m) \in Nat
           /\ Idx(w, IndexOf(w, k, m)) = k
           /\ Mask(w, IndexOf(w, k, m)) = m
<1> DEFINE q == k - 1
           r == w - 1 - m
<1>1. q \in Nat /\ r \in 0 .. w - 1 /\ q + 1 = k /\ w - 1 - r = m /\ m \in Nat
    BY DEF Byte
<1> HIDE DEF q, r
<1>2. (q * w + r) \div w = q /\ (q * w + r) % w = r
    BY <1>1, DivisionUnique
<1>3. q * w + r \in Nat
    <2>1. q * w \in Nat
        BY <1>1, Products
    <2>2. QED
        BY <1>1, <2>1
<1>4. IndexOf(w, k, m) = q * w + r
    BY DEF IndexOf, q, r
<1>5. QED
    BY <1>1, <1>2, <1>3, <1>4 DEF Idx, Mask

(* The bits of byte k that stand for members of S.                         *)
BitsOf(w, k, S) == {m \in Byte(w) : IndexOf(w, k, m) \in S}

(* The bitfield of n bits with the ones of S set and no other.             *)
Packed(w, n, S) == [Length |-> n, Data |-> [k \in 1 .. LastByte(w, n) |-> BitsOf(w, k, S)]]

LEMMA PackedBytes ==
    ASSUME NEW w \in Nat \ {0}, NEW n \in Nat, NEW S
    PROVE  /\ LastByte(w, n) \in Nat \ {0}
           /\ Packed(w, n, S).Length = n
           /\ Len(Packed(w, n, S).Data) = LastByte(w, n)
           /\ DOMAIN Packed(w, n, S).Data = 1 .. LastByte(w, n)
           /\ \A k \in 1 .. LastByte(w, n) : Packed(w, n, S).Data[k] = BitsOf(w, k, S)
           /\ Packed(w, n, S).Data \in Seq(SUBSET Byte(w))
<1> DEFINE M == LastByte(w, n)
           d == [k \in 1 .. M |-> BitsOf(w, k, S)]
<1>1. M \in Nat \ {0}
    <2> DEFINE Q == n \div w
    <2>1. Q \in Nat
        BY Division
    <2>2. M = Q + 1
        BY DEF LastByte
    <2> HIDE DEF Q, M
    <2>3. QED
        BY <2>1, <2>2
<1>2. Packed(w, n, S) = [Length |-> n, Data |-> d]
    BY DEF Packed
<1> HIDE DEF M
<1>3. d \in Seq(SUBSET Byte(w)) /\ Len(d) = M
    <2>1. \A k \in 1 .. M : d[k] \in SUBSET Byte(w)
        BY DEF BitsOf
    <2>2. d = [k \in 1 .. M |-> d[k]]
        OBVIOUS
    <2> HIDE DEF d
    <2>3. QED
        BY <1>1, <2>1, <2>2
<1>4. DOMAIN d = 1 .. M /\ \A k \in 1 .. M : d[k] = BitsOf(w, k, S)
    OBVIOUS
<1> HIDE DEF d
<1>5. QED
    BY <1>1, <1>2, <1>3, <1>4 DEF M

LEMMA PackedNew ==
    ASSUME NEW w \in Nat \ {0}, NEW n \in Nat
    PROVE  NewBitfield(w, n) = Packed(w, n, {})
<1>1. \A k : BitsOf(w, k, {}) = {}
    BY DEF BitsOf
<1>2. QED
    BY <1>1 DEF NewBitfield, Packed, LastByte

LEMMA ByteUpdate ==
    ASSUME NEW n, NEW d, NEW k, NEW m
    PROVE  LET b == [Length |-> n, Data |-> d] IN
           /\ [b EXCEPT !.Data[k] = @ \union {m}]
                = [Length |-> n, Data |-> [d EXCEPT ![k] = @ \union {m}]]
           /\ [b EXCEPT !.Data[k] = @ \ {m}]
                = [Length |-> n, Data |-> [d EXCEPT ![k] = @ \ {m}]]
OBVIOUS

LEMMA PackedBit ==
    ASSUME NEW w \in Nat \ {0}, NEW n \in Nat, NEW S, NEW i \in 0 .. n - 1
    PROVE  /\ Has(w, Packed(w, n, S), i) <=> i \in S
           /\ Set(w, Packed(w, n, S), i) = Packed(w, n, S \union {i})
           /\ Unset(w, Packed(w, n, S), i) = Packed(w, n, S \ {i})
<1> DEFINE M == LastByte(w, n)
           d == [k \in 1 .. M |-> BitsOf(w, k, S)]
           b == [Length |-> n, Data |-> d]
           k0 == Idx(w, i)
           m0 == Mask(w, i)
<1>1. M \in Nat \ {0} /\ Len(d) = M
    <2>1. M \in Nat \ {0} /\ Len(Packed(w, n, S).Data) = M
        BY PackedBytes
    <2>2. QED
        BY <2>1 DEF Packed
<1>2. k0 \in 1 .. M /\ m0 \in Byte(w) /\ IndexOf(w, k0, m0) = i /\ i < n
    <2>1. k0 \in 1 .. M
        BY BitPlace
    <2>2. m0 \in Byte(w)
        BY BitPlace
    <2>3. IndexOf(w, k0, m0) = i
        BY BitPlace
    <2>4. i < n
        OBVIOUS
    <2>5. QED
        BY <2>1, <2>2, <2>3, <2>4
<1>3. /\ Packed(w, n, S) = b
      /\ \A A : Packed(w, n, A) = [Length |-> n, Data |-> [k \in 1 .. M |-> BitsOf(w, k, A)]]
    BY DEF Packed
<1> HIDE DEF M
<1>4. ASSUME NEW k \in 1 .. M, NEW m \in Byte(w), IndexOf(w, k, m) = i
      PROVE  k = k0 /\ m = m0
    <2>1. k \in Nat \ {0}
        BY <1>1
    <2>2. QED
        BY <1>4, <2>1, BitPlaceUnique
<1>5. k0 <= Len(d) /\ d[k0] = BitsOf(w, k0, S)
    BY <1>1, <1>2
<1>6. \A k \in 1 .. M :
        /\ BitsOf(w, k, S \union {i}) = IF k = k0 THEN BitsOf(w, k, S) \union {m0} ELSE BitsOf(w, k, S)
        /\ BitsOf(w, k, S \ {i}) = IF k = k0 THEN BitsOf(w, k, S) \ {m0} ELSE BitsOf(w, k, S)
    <2> HIDE DEF k0, m0
    <2>1. QED
        BY <1>2, <1>4 DEF BitsOf
<1>7. /\ [d EXCEPT ![k0] = @ \union {m0}] = [k \in 1 .. M |-> BitsOf(w, k, S \union {i})]
      /\ [d EXCEPT ![k0] = @ \ {m0}] = [k \in 1 .. M |-> BitsOf(w, k, S \ {i})]
    <2> HIDE DEF k0, m0
    <2>1. QED
        BY <1>2, <1>6
<1> HIDE DEF d
<1>8. Has(w, b, i) <=> i \in S
    <2>1. Has(w, b, i) <=> m0 \in d[k0]
        BY <1>2, <1>5 DEF Has
    <2> HIDE DEF k0, m0
    <2>2. QED
        BY <1>2, <1>5, <2>1 DEF BitsOf
<1>9. /\ Set(w, b, i) = [b EXCEPT !.Data[k0] = @ \union {m0}]
      /\ Unset(w, b, i) = [b EXCEPT !.Data[k0] = @ \ {m0}]
    BY <1>2, <1>5 DEF Set, Unset
<1>10. Set(w, b, i) = [Length |-> n, Data |-> [k \in 1 .. M |-> BitsOf(w, k, S \union {i})]]
    BY <1>7, <1>9, ByteUpdate
<1>11. Unset(w, b, i) = [Length |-> n, Data |-> [k \in 1 .. M |-> BitsOf(w, k, S \ {i})]]
    BY <1>7, <1>9, ByteUpdate
<1>12. QED
    BY <1>3, <1>8, <1>10, <1>11

LEMMA MarkingLoop ==
    ASSUME NEW w, NEW start, NEW S, NEW n \in Nat, n = Cardinality(Pieces)
    PROVE  Marking(w, start, S) =
             [i \in 0 .. n |-> IF i = 0 THEN start
                ELSE IF i - 1 \in S THEN Set(w, Marking(w, start, S)[i - 1], i - 1)
                ELSE Unset(w, Marking(w, start, S)[i - 1], i - 1)]
<1> DEFINE Next1(x, i) == IF i - 1 \in S THEN Set(w, x, i - 1) ELSE Unset(w, x, i - 1)
           Loop(m, g) == g = [i \in 0 .. m |-> IF i = 0 THEN start ELSE Next1(g[i - 1], i)]
           A == {m \in 0 .. n : \E g : Loop(m, g)}
<1> HIDE DEF Next1
<1>1. Loop(0, [i \in 0 .. 0 |-> start])
    OBVIOUS
<1>2. ASSUME NEW m \in 0 .. n - 1, m \in A
      PROVE  m + 1 \in A
    <2>1. PICK g : Loop(m, g)
        BY <1>2
    <2>2. Loop(m + 1, [i \in 0 .. m + 1 |-> IF i = m + 1 THEN Next1(g[m], i) ELSE g[i]])
        BY <2>1
    <2> HIDE DEF Loop
    <2>3. QED
        BY <2>2
<1>3. 0 \in A
    <2> HIDE DEF Loop
    <2>1. QED
        BY <1>1
<1>4. n \in A
    <2> HIDE DEF A
    <2>1. \A i \in 0 .. n : i \in A
        BY <1>2, <1>3, CountUp
    <2>2. QED
        BY <2>1
<1>5. \E g : Loop(n, g)
    BY <1>4
<1>6. Marking(w, start, S) = CHOOSE g : Loop(n, g)
    BY DEF Marking, Next1
<1>7. Loop(n, Marking(w, start, S))
    <2> HIDE DEF Loop
    <2>1. QED
        BY <1>5, <1>6
<1>8. QED
    BY <1>7 DEF Next1

(* Setting the pieces of S and unsetting the others leaves the bits of S   *)
(* set and no other, whatever was set before.                              *)
LEMMA MarkingFacts ==
    ASSUME info \in Infos, NEW w \in Nat \ {0}, NEW T \in SUBSET Pieces, NEW S \in SUBSET Pieces,
           NEW n, n = Cardinality(Pieces)
    PROVE  Marking(w, Packed(w, n, T), S)[n] = Packed(w, n, S)
<1> DEFINE b == Marking(w, Packed(w, n, T), S)
           Now(i) == {j \in Pieces : IF j < i THEN j \in S ELSE j \in T}
           A == {i \in 0 .. n : b[i] = Packed(w, n, Now(i))}
<1>1. n \in Nat \ {0} /\ Pieces = 0 .. n - 1
    BY PieceCount
<1>2. b = [i \in 0 .. n |-> IF i = 0 THEN Packed(w, n, T)
             ELSE IF i - 1 \in S THEN Set(w, b[i - 1], i - 1) ELSE Unset(w, b[i - 1], i - 1)]
    BY <1>1, MarkingLoop
<1> HIDE DEF b
<1>3. 0 \in A
    <2>1. \A j \in Pieces : ~(j < 0)
        BY <1>1
    <2>2. Now(0) = T
        BY <2>1
    <2> HIDE DEF Now
    <2>3. 0 \in 0 .. n
        BY <1>1
    <2>4. b[0] = Packed(w, n, T)
        BY <1>2, <2>3
    <2>5. QED
        BY <2>2, <2>3, <2>4
<1>4. ASSUME NEW i \in 0 .. n - 1, i \in A
      PROVE  i + 1 \in A
    <2>1. i + 1 \in 0 .. n /\ i + 1 # 0 /\ (i + 1) - 1 = i
        BY <1>1
    <2>2. b[i + 1] = IF i \in S THEN Set(w, b[i], i) ELSE Unset(w, b[i], i)
        BY <1>2, <2>1
    <2>3. Now(i + 1) = IF i \in S THEN Now(i) \union {i} ELSE Now(i) \ {i}
        BY <1>1
    <2>4. b[i] = Packed(w, n, Now(i))
        BY <1>4
    <2> HIDE DEF Now
    <2> DEFINE U == Now(i)
    <2>5. /\ Set(w, Packed(w, n, U), i) = Packed(w, n, U \union {i})
          /\ Unset(w, Packed(w, n, U), i) = Packed(w, n, U \ {i})
        <3>1. n \in Nat
            BY <1>1
        <3> HIDE DEF U
        <3>2. QED
            BY <3>1, PackedBit
    <2>6. QED
        BY <2>1, <2>2, <2>3, <2>4, <2>5
<1>5. n \in A
    <2> HIDE DEF A
    <2>1. \A i \in 0 .. n : i \in A
        BY <1>1, <1>3, <1>4, CountUp
    <2>2. QED
        BY <1>1, <2>1
<1>6. Now(n) = S
    <2>1. ASSUME NEW j \in Pieces
          PROVE  j < n
        <3>1. j \in 0 .. n - 1
            BY <1>1
        <3>2. QED
            BY <1>1, <3>1
    <2>2. QED
        BY <2>1
<1>7. QED
    BY <1>5, <1>6 DEF b

LEMMA EncodeFacts ==
    ASSUME info \in Infos, NEW w \in Nat \ {0}, NEW S \in SUBSET Pieces
    PROVE  /\ Encode(w, S) = Packed(w, Cardinality(Pieces), S)
           /\ EncodeDown(w, S) = Packed(w, Cardinality(Pieces), S)
<1> DEFINE n == Cardinality(Pieces)
<1>1. n \in Nat
    BY PieceCount
<1>2. NewBitfield(w, n) = Packed(w, n, {})
    BY <1>1, PackedNew
<1>3. \A U \in SUBSET Pieces : Encode(w, U) = Packed(w, n, U)
    BY <1>2, MarkingFacts DEF Encode
<1>4. EncodeDown(w, S) = Packed(w, n, S)
    BY <1>3, MarkingFacts DEF EncodeDown
<1>5. QED
    BY <1>3, <1>4

-----------------------------------------------------------------------------
(* What is decided by the bits.                                            *)

LEMMA CountFacts ==
    ASSUME info \in Infos, NEW w \in Nat \ {0}, NEW S \in SUBSET Pieces
    PROVE  LET b == Packed(w, Cardinality(Pieces), S) IN
           /\ Indexes(b) = Pieces
           /\ CountSet(w, b) = Cardinality(S)
           /\ Completed(w, b) <=> S = Pieces
<1> DEFINE n == Cardinality(Pieces)
           b == Packed(w, n, S)
<1>1. n \in Nat \ {0} /\ Pieces = 0 .. n - 1
    BY PieceCount
<1>2. b.Length = n
    BY DEF Packed
<1> HIDE DEF n
<1>3. ASSUME NEW i \in Pieces
      PROVE  Has(w, b, i) <=> i \in S
    <2>1. n \in Nat /\ i \in 0 .. n - 1
        BY <1>1
    <2>2. QED
        BY <2>1, PackedBit
<1> HIDE DEF b
<1>4. Indexes(b) = Pieces
    BY <1>1, <1>2 DEF Indexes
<1>5. {i \in Indexes(b) : Has(w, b, i)} = S
    BY <1>3, <1>4
<1>6. CountSet(w, b) = Cardinality(S)
    BY <1>5 DEF CountSet
<1>7. Completed(w, b) <=> S = Pieces
    BY <1>3, <1>4 DEF Completed
<1>8. QED
    BY <1>4, <1>6, <1>7 DEF b, n

LEMMA PayloadFacts ==
    ASSUME info \in Infos, NEW w \in Nat \ {0}, NEW T, NEW theirs \in Payloads(w, T)
    PROVE  LET n == Cardinality(Pieces) IN
           /\ theirs.Length = n
           /\ DOMAIN theirs.Data = 1 .. Payload(w, n)
           /\ Payload(w, n) \in Nat /\ Len(theirs.Data) = Payload(w, n)
           /\ \A i \in Pieces : Has(w, theirs, i) <=> i \in T
<1> DEFINE n == Cardinality(Pieces)
           P == Payload(w, n)
           d == theirs.Data
<1>1. n \in Nat
    BY PieceCount
<1>2. theirs.Length = n /\ d \in [1 .. P -> SUBSET Byte(w)] /\ \A i \in Pieces : Has(w, theirs, i) <=> i \in T
    BY DEF Payloads, Payload
<1> HIDE DEF n
<1>3. P \in Nat
    <2>1. n + w - 1 \in Nat
        BY <1>1
    <2>2. QED
        BY <2>1, Division DEF Payload
<1> HIDE DEF P, d
<1>4. Len(d) = P /\ DOMAIN d = 1 .. P
    BY <1>2, <1>3
<1>5. QED
    BY <1>2, <1>3, <1>4 DEF P, d, n

(* There is something of theirs we lack when the bits say so, whatever the *)
(* spare bits are.                                                         *)
LEMMA InterestFacts ==
    ASSUME info \in Infos, NEW w \in Nat \ {0}, NEW S \in SUBSET Pieces, NEW T \in SUBSET Pieces,
           NEW theirs \in Payloads(w, T)
    PROVE  checkInterested(w, Packed(w, Cardinality(Pieces), S), theirs) <=> T \ S # {}
<1> DEFINE n == Cardinality(Pieces)
           M == LastByte(w, n)
           P == Payload(w, n)
           ours == Packed(w, n, S)
           d == [k \in 1 .. M |-> IF k \in 1 .. P THEN (Byte(w) \ BitsOf(w, k, S)) \intersect theirs.Data[k]
                                  ELSE Byte(w) \ BitsOf(w, k, S)]
           x == AND(Inverted(w, ours), theirs)
<1>1. n \in Nat \ {0} /\ Pieces = 0 .. n - 1
    BY PieceCount
<1>2. /\ theirs.Length = n /\ DOMAIN theirs.Data = 1 .. P /\ P \in Nat /\ Len(theirs.Data) = P
      /\ \A i \in Pieces : Has(w, theirs, i) <=> i \in T
    BY PayloadFacts
<1>3. M \in Nat \ {0}
    <2>1. n \in Nat
        BY <1>1
    <2> HIDE DEF n
    <2>2. QED
        BY <2>1, PackedBytes
<1>4. x = [Length |-> n, Data |-> d]
    <2> DEFINE e == [k \in 1 .. M |-> BitsOf(w, k, S)]
               g == [k \in 1 .. M |-> Byte(w) \ BitsOf(w, k, S)]
               z == [Length |-> n, Data |-> g]
    <2>1. ours = [Length |-> n, Data |-> e]
        BY DEF Packed
    <2>2. [k \in DOMAIN e |-> Byte(w) \ e[k]] = g
        OBVIOUS
    <2>3. [k \in DOMAIN g |-> IF k \in 1 .. P THEN g[k] \intersect theirs.Data[k] ELSE g[k]] = d
        OBVIOUS
    <2> HIDE DEF n, M, P, ours, e, g, d
    <2>4. Inverted(w, ours) = z
        <3>1. ours.Data = e
            BY <2>1
        <3>2. Inverted(w, ours) = [ours EXCEPT !.Data = g]
            BY <2>2, <3>1 DEF Inverted
        <3>3. QED
            BY <2>1, <3>2
    <2>5. AND(z, theirs) = [Length |-> n, Data |-> d]
        <3>1. AND(z, theirs) = [z EXCEPT !.Data = d]
            BY <1>2, <2>3 DEF AND
        <3>2. QED
            BY <3>1
    <2>6. QED
        BY <2>4, <2>5
<1>5. Len(d) = M
    <2> DEFINE V == {d[k] : k \in 1 .. M}
    <2>1. d = [k \in 1 .. M |-> d[k]] /\ \A k \in 1 .. M : d[k] \in V
        OBVIOUS
    <2> HIDE DEF M, d, V
    <2>2. d \in Seq(V) /\ Len(d) = M
        BY <1>3, <2>1
    <2>3. QED
        BY <2>2
<1>6. ASSUME NEW i \in Pieces
      PROVE  Has(w, x, i) <=> i \in T \ S
    <2> DEFINE k0 == Idx(w, i)
               m0 == Mask(w, i)
    <2>1. n \in Nat /\ i \in 0 .. n - 1
        BY <1>1
    <2> HIDE DEF n
    <2>2. k0 \in 1 .. M
        BY <2>1, BitPlace
    <2>3. k0 \in 1 .. P
        BY <2>1, BitPlace
    <2>4. m0 \in Byte(w)
        BY <2>1, BitPlace
    <2>5. IndexOf(w, k0, m0) = i
        BY <2>1, BitPlace
    <2>6. i < n
        BY <2>1
    <2> HIDE DEF M, P
    <2>7. k0 <= M /\ k0 <= P
        BY <1>2, <1>3, <2>2, <2>3
    <2>8. m0 \in theirs.Data[k0] <=> i \in T
        BY <1>2, <2>6, <2>7 DEF Has
    <2>9. d[k0] = (Byte(w) \ BitsOf(w, k0, S)) \intersect theirs.Data[k0]
        BY <2>2, <2>3
    <2> HIDE DEF d, x
    <2>10. Has(w, x, i) <=> m0 \in d[k0]
        BY <1>4, <1>5, <2>6, <2>7 DEF Has
    <2> HIDE DEF k0, m0
    <2>11. m0 \in BitsOf(w, k0, S) <=> i \in S
        BY <2>4, <2>5 DEF BitsOf
    <2>12. QED
        BY <2>4, <2>8, <2>9, <2>10, <2>11
<1>7. Indexes(x) = Pieces
    <2>1. x.Length = n
        BY <1>4
    <2> HIDE DEF x, n
    <2>2. QED
        BY <1>1, <2>1 DEF Indexes
<1> HIDE DEF x
<1>8. AnySet(w, x) <=> T \ S # {}
    BY <1>6, <1>7 DEF AnySet
<1>9. QED
    BY <1>8 DEF checkInterested, x, ours, n

LEMMA RarestLoop ==
    ASSUME NEW w, NEW b, NEW others, NEW excluded, NEW order, NEW n \in Nat, n = Len(order)
    PROVE  LET s == Rarest(w, b, others, excluded, order) IN
           /\ s[0] = [has |-> FALSE, idx |-> 0, min |-> 0]
           /\ \A k \in 1 .. n : s[k] = Rarer(w, b, others, excluded, s[k - 1], order[k])
<1> DEFINE none == [has |-> FALSE, idx |-> 0, min |-> 0]
           Go(y, k) == Rarer(w, b, others, excluded, y, order[k])
           Loop(m, g) == g = [k \in 0 .. m |-> IF k = 0 THEN none ELSE Go(g[k - 1], k)]
           A == {m \in 0 .. n : \E g : Loop(m, g)}
<1> HIDE DEF Go, none
<1>1. Loop(0, [k \in 0 .. 0 |-> none])
    OBVIOUS
<1>2. ASSUME NEW m \in 0 .. n - 1, m \in A
      PROVE  m + 1 \in A
    <2>1. PICK g : Loop(m, g)
        BY <1>2
    <2>2. Loop(m + 1, [k \in 0 .. m + 1 |-> IF k = m + 1 THEN Go(g[m], k) ELSE g[k]])
        BY <2>1
    <2> HIDE DEF Loop
    <2>3. QED
        BY <2>2
<1>3. 0 \in A
    <2> HIDE DEF Loop
    <2>1. QED
        BY <1>1
<1>4. n \in A
    <2> HIDE DEF A
    <2>1. \A i \in 0 .. n : i \in A
        BY <1>2, <1>3, CountUp
    <2>2. QED
        BY <2>1
<1>5. \E g : Loop(n, g)
    BY <1>4
<1>6. Rarest(w, b, others, excluded, order) = CHOOSE g : Loop(n, g)
    BY DEF Rarest, Go, none
<1>7. Loop(n, Rarest(w, b, others, excluded, order))
    <2> HIDE DEF Loop
    <2>1. QED
        BY <1>5, <1>6
<1>8. \A k \in 0 .. n : Rarest(w, b, others, excluded, order)[k] =
                            IF k = 0 THEN none ELSE Go(Rarest(w, b, others, excluded, order)[k - 1], k)
    BY <1>7
<1>9. \A k \in 1 .. n : k \in 0 .. n /\ k # 0
    OBVIOUS
<1>10. QED
    BY <1>8, <1>9 DEF Go, none

(* In whatever order the counts come, what is found is one of the able     *)
(* indexes, the set and not excluded ones, that the fewest others have.    *)
LEMMA RarestFacts ==
    ASSUME info \in Infos, NEW w, NEW b, NEW others, NEW excluded, NEW order \in Orders,
           \A i \in Pieces : Count(w, others, i) \in Nat,
           NEW able \in SUBSET Pieces,
           \A i \in Pieces : i \in able <=> Has(w, b, i) /\ i \notin excluded
    PROVE  LET found == FindRarest(w, b, others, excluded, order) IN
           /\ found.has <=> able # {}
           /\ found.has =>
                found.idx \in able /\ \A i \in able : Count(w, others, found.idx) <= Count(w, others, i)
<1> DEFINE n == Cardinality(Pieces)
           s == Rarest(w, b, others, excluded, order)
           none == [has |-> FALSE, idx |-> 0, min |-> 0]
           C(i) == Count(w, others, i)
           Seen(k) == {i \in able : \E j \in 1 .. k : order[j] = i}
           Best(y, k) ==
             \/ y = none /\ Seen(k) = {}
             \/ y.has /\ y.idx \in able /\ y.min = C(y.idx) /\ \A i \in Seen(k) : y.min <= C(i)
           A == {k \in 0 .. n : Best(s[k], k)}
<1>1. /\ n \in Nat /\ n = Len(order)
      /\ \A k \in 1 .. n : order[k] \in Pieces
      /\ \A i \in Pieces : \E k \in 1 .. n : order[k] = i
    <2>1. n \in Nat /\ order \in [1 .. n -> Pieces] /\ \A i \in Pieces : \E k \in DOMAIN order : order[k] = i
        BY PieceCount DEF Orders
    <2> HIDE DEF n
    <2>2. QED
        BY <2>1
<1> HIDE DEF n
<1>2. s[0] = none /\ \A k \in 1 .. n : s[k] = Rarer(w, b, others, excluded, s[k - 1], order[k])
    <2>1. s[0] = none
        BY <1>1, RarestLoop
    <2>2. \A k \in 1 .. n : s[k] = Rarer(w, b, others, excluded, s[k - 1], order[k])
        BY <1>1, RarestLoop
    <2>3. QED
        BY <2>1, <2>2
<1> HIDE DEF s
<1>3. 0 \in A
    <2>1. Seen(0) = {}
        OBVIOUS
    <2>2. s[0] = none /\ 0 \in 0 .. n
        BY <1>2, <1>1
    <2>3. QED
        BY <2>1, <2>2
<1>4. ASSUME NEW k \in 0 .. n - 1, k \in A
      PROVE  k + 1 \in A
    <2> DEFINE i == order[k + 1]
               y == s[k]
    <2>1. k + 1 \in 1 .. n /\ k + 1 \in 0 .. n /\ k + 1 # 0 /\ (k + 1) - 1 = k
        BY <1>1
    <2>2. s[k + 1] = Rarer(w, b, others, excluded, y, i)
        BY <1>2, <2>1
    <2>3. i \in Pieces /\ C(i) \in Nat
        BY <1>1, <2>1
    <2>4. Seen(k + 1) = IF i \in able THEN Seen(k) \union {i} ELSE Seen(k)
        <3>1. \A j \in 1 .. k + 1 : j \in 1 .. k \/ j = k + 1
            OBVIOUS
        <3>2. \A j \in 1 .. k : j \in 1 .. k + 1
            OBVIOUS
        <3>3. k + 1 \in 1 .. k + 1
            OBVIOUS
        <3>4. QED
            BY <3>1, <3>2, <3>3
    <2>5. Best(y, k)
        BY <1>4
    <2>6. \A j \in able : C(j) \in Nat
        OBVIOUS
    <2>7. i \in able <=> Has(w, b, i) /\ i \notin excluded
        BY <2>3
    <2>8. Seen(k) \subseteq able
        OBVIOUS
    <2> HIDE DEF Seen, i, y
    <2>9. CASE i \notin able
        <3>1. s[k + 1] = y
            BY <2>2, <2>7, <2>9 DEF Rarer
        <3>2. QED
            BY <2>1, <2>4, <2>5, <2>9, <3>1
    <2>10. CASE i \in able /\ y.has /\ y.min <= C(i)
        <3>1. s[k + 1] = y
            BY <2>2, <2>10 DEF Rarer
        <3>2. y.has /\ y.idx \in able /\ y.min = C(y.idx) /\ \A j \in Seen(k) : y.min <= C(j)
            BY <2>5, <2>10
        <3>3. QED
            BY <2>1, <2>4, <2>10, <3>1, <3>2
    <2>11. CASE i \in able /\ ~(y.has /\ y.min <= C(i))
        <3>1. s[k + 1] = [has |-> TRUE, idx |-> i, min |-> C(i)]
            BY <2>2, <2>7, <2>11 DEF Rarer
        <3>2. \A j \in Seen(k) : C(i) <= C(j)
            <4>1. CASE y = none /\ Seen(k) = {}
                BY <4>1
            <4>2. CASE y.has /\ y.idx \in able /\ y.min = C(y.idx) /\ \A j \in Seen(k) : y.min <= C(j)
                <5>1. y.min \in Nat /\ C(i) < y.min
                    BY <2>3, <2>6, <2>11, <4>2
                <5>2. QED
                    BY <2>3, <2>6, <2>8, <4>2, <5>1
            <4>3. QED
                BY <2>5, <4>1, <4>2
        <3>3. \A j \in Seen(k + 1) : C(i) <= C(j)
            BY <2>3, <2>4, <2>11, <3>2
        <3>4. QED
            BY <2>1, <2>11, <3>1, <3>3
    <2>12. QED
        BY <2>9, <2>10, <2>11
<1>5. n \in A
    <2> HIDE DEF A
    <2>1. \A k \in 0 .. n : k \in A
        BY <1>3, <1>4, <1>1, CountUp
    <2>2. QED
        BY <1>1, <2>1
<1>6. Seen(n) = able
    BY <1>1
<1>7. FindRarest(w, b, others, excluded, order) = s[n]
    BY <1>1 DEF FindRarest, s
<1>8. Best(s[n], n)
    BY <1>5
<1> HIDE DEF Seen
<1>9. /\ s[n].has <=> able # {}
      /\ s[n].has => s[n].idx \in able /\ \A i \in able : C(s[n].idx) <= C(i)
    BY <1>6, <1>8
<1>10. QED
    BY <1>7, <1>9

-----------------------------------------------------------------------------
(* The bytes that the RPC takes for each file.                             *)

LEMMA FileBytesFacts ==
    ASSUME info \in Infos, NEW w \in Nat \ {0}
    PROVE  LET l == FileBytes(w)
               f == GetFiles(info)
               n == Cardinality(Pieces) IN
           /\ l \in Seq(Nat) /\ Len(l) = Len(f) /\ DOMAIN l = 1 .. Len(f) /\ DOMAIN f = 1 .. Len(f)
           /\ \A k \in 0 .. Len(f) : Before(l)[k] \in Nat /\ Before(l)[k] * w \in Nat /\ Before(l)[k] * w <= n
           /\ \A k \in 1 .. Len(f) : f[k] # 0 => Before(l)[k - 1] * w < n
<1> DEFINE l == FileBytes(w)
           f == GetFiles(info)
           F == Len(f)
           K == info.pieceLength
           T == TotalSize(info)
           n == Cardinality(Pieces)
           L == Before(l)
           P == Before(f)
           A == {k \in 0 .. F : (L[k] * w) * K <= P[k]}
<1>1. f \in Seq(Nat) /\ T = P[F] /\ T \in Nat /\ K \in Nat \ {0}
    BY InfoFacts
<1>2. n \in Nat \ {0} /\ n = info.hashes
    <2> DEFINE N == info.hashes
    <2>1. N \in Nat \ {0} /\ Pieces = 0 .. N - 1
        BY InfoFacts
    <2> HIDE DEF N
    <2>2. Cardinality(0 .. N - 1) = IF 0 > N - 1 THEN 0 ELSE (N - 1) - 0 + 1
        BY <2>1, FS_Interval
    <2>3. Cardinality(0 .. N - 1) = N
        BY <2>1, <2>2
    <2>4. QED
        BY <2>1, <2>3 DEF N
<1>3. T <= n * K
    BY <1>2, InfosAssumption
<1>4. F \in Nat /\ DOMAIN f = 1 .. F /\ \A k \in 1 .. F : f[k] \in Nat
    BY <1>1
<1>5. \A k \in 1 .. F : l[k] = (f[k] \div K) \div w /\ l[k] \in Nat
    <2>1. ASSUME NEW k \in 1 .. F
          PROVE  l[k] = (f[k] \div K) \div w /\ l[k] \in Nat
        <3>1. l[k] = (f[k] \div K) \div w
            BY <1>4 DEF FileBytes
        <3>2. f[k] \div K \in Nat
            BY <1>1, <1>4, Division
        <3>3. (f[k] \div K) \div w \in Nat
            BY <3>2, Division
        <3>4. QED
            BY <3>1, <3>3
    <2>2. QED
        BY <2>1
<1>6. l = [k \in 1 .. F |-> l[k]]
    BY <1>4 DEF FileBytes
<1> HIDE DEF l, f, F, K, T, n
<1>7. l \in Seq(Nat) /\ Len(l) = F /\ DOMAIN l = 1 .. F
    BY <1>4, <1>5, <1>6
<1>8. /\ L \in [0 .. F -> Nat] /\ L[0] = 0
      /\ \A k \in 1 .. F : L[k] = L[k - 1] + l[k]
    BY <1>7, BeforeFacts
<1>9. /\ P \in [0 .. F -> Nat] /\ P[0] = 0
      /\ \A k \in 1 .. F : P[k] = P[k - 1] + f[k]
      /\ \A j, k \in 0 .. F : j <= k => P[j] <= P[k]
    BY <1>1, BeforeFacts DEF F
<1> HIDE DEF L, P
<1>10. ASSUME NEW k \in 1 .. F
       PROVE  (l[k] * w) * K <= f[k]
    <2> DEFINE y == f[k]
               a == y \div K
               c == y % K
               q == a \div w
               r == a % w
    <2>1. l[k] = q
        BY <1>5
    <2>2. y \in Nat
        BY <1>4
    <2> HIDE DEF y
    <2>3. a \in Nat /\ c \in Nat /\ y = a * K + c
        <3>1. a \in Nat /\ c \in 0 .. K - 1
            BY <1>1, <2>2, Division
        <3>2. y = a * K + c
            BY <1>1, <2>2, Division
        <3> HIDE DEF a, c
        <3>3. QED
            BY <1>1, <3>1, <3>2
    <2> HIDE DEF a, c
    <2>4. q \in Nat /\ r \in Nat /\ a = q * w + r
        <3>1. q \in Nat /\ r \in 0 .. w - 1
            BY <2>3, Division
        <3>2. a = q * w + r
            BY <2>3, Division
        <3> HIDE DEF q, r
        <3>3. QED
            BY <3>1, <3>2
    <2> HIDE DEF q, r
    <2>5. q * w \in Nat /\ q * w <= a
        <3>1. q * w \in Nat
            BY <2>4, Products
        <3>2. QED
            BY <2>4, <3>1
    <2> DEFINE x == q * w
    <2>6. x * K <= a * K /\ x * K \in Nat /\ a * K \in Nat
        <3>1. x \in Nat /\ (x = a \/ x < a)
            BY <2>3, <2>5
        <3> HIDE DEF x
        <3>2. x < a => x * K + K <= a * K
            BY <1>1, <2>3, <3>1, Products
        <3>3. x * K \in Nat /\ a * K \in Nat
            BY <1>1, <2>3, <3>1, Products
        <3>4. QED
            BY <1>1, <3>1, <3>2, <3>3
    <2> HIDE DEF x
    <2>7. x * K <= y
        BY <2>3, <2>6
    <2>8. QED
        BY <2>1, <2>7 DEF x, y
<1>11. 0 \in A
    <2>1. (0 * w) * K = 0
        BY <1>1
    <2>2. QED
        BY <1>4, <1>8, <1>9, <2>1
<1>12. ASSUME NEW k \in 0 .. F - 1, k \in A
       PROVE  k + 1 \in A
    <2>1. k + 1 \in 1 .. F /\ k + 1 \in 0 .. F /\ (k + 1) - 1 = k /\ k \in 0 .. F
        BY <1>4
    <2> DEFINE a == L[k]
               b == l[k + 1]
    <2>2. L[k + 1] = a + b /\ P[k + 1] = P[k] + f[k + 1] /\ a \in Nat /\ b \in Nat
        BY <1>5, <1>8, <1>9, <2>1
    <2>3. (a * w) * K <= P[k] /\ P[k] \in Nat /\ f[k + 1] \in Nat
        BY <1>4, <1>9, <1>12, <2>1
    <2>4. (b * w) * K <= f[k + 1]
        BY <1>10, <2>1
    <2> HIDE DEF a, b
    <2>5. ((a + b) * w) * K = (a * w) * K + (b * w) * K /\ (a * w) * K \in Nat /\ (b * w) * K \in Nat
        BY <1>1, <2>2
    <2>6. ((a + b) * w) * K <= P[k + 1]
        BY <2>2, <2>3, <2>4, <2>5
    <2>7. QED
        BY <2>1, <2>2, <2>6
<1>13. \A k \in 0 .. F : k \in A
    <2> HIDE DEF A
    <2>1. QED
        BY <1>4, <1>11, <1>12, CountUp
<1>14. ASSUME NEW k \in 0 .. F
       PROVE  /\ L[k] \in Nat /\ L[k] * w \in Nat /\ L[k] * w <= n
              /\ P[k] < T => L[k] * w < n
    <2> DEFINE x == L[k] * w
    <2>1. L[k] \in Nat /\ x \in Nat
        <3>1. L[k] \in Nat
            BY <1>8
        <3>2. QED
            BY <3>1, Products
    <2>2. x * K <= P[k]
        BY <1>13
    <2>3. P[k] <= T /\ P[k] \in Nat
        <3>1. F \in 0 .. F /\ k <= F
            BY <1>4
        <3>2. QED
            BY <1>1, <1>9, <3>1
    <2> HIDE DEF x
    <2>4. x * K \in Nat /\ n * K \in Nat
        BY <1>1, <1>2, <2>1, Products
    <2>5. x <= n
        <3>1. n < x => n * K + K <= x * K
            BY <1>1, <1>2, <2>1, Products
        <3> DEFINE u == x * K
                   v == n * K
        <3>2. u \in Nat /\ v \in Nat /\ K \in Nat \ {0} /\ n \in Nat /\ x \in Nat
            BY <1>1, <1>2, <2>1, <2>4
        <3>3. u <= P[k] /\ P[k] <= T /\ T <= v
            BY <1>3, <2>2, <2>3
        <3>4. u <= v
            BY <1>1, <2>3, <3>2, <3>3
        <3>5. n < x => v + K <= u
            BY <3>1
        <3> HIDE DEF u, v
        <3>6. QED
            BY <3>2, <3>4, <3>5
    <2>6. ASSUME P[k] < T
          PROVE  x < n
        <3>1. x * K < n * K
            BY <1>1, <1>3, <2>2, <2>3, <2>4, <2>6
        <3>2. QED
            BY <1>1, <1>2, <2>1, <3>1, Products
    <2>7. QED
        BY <2>1, <2>5, <2>6 DEF x
<1>15. ASSUME NEW k \in 1 .. F, f[k] # 0
       PROVE  L[k - 1] * w < n
    <2>1. k - 1 \in 0 .. F /\ k \in 0 .. F /\ F \in 0 .. F /\ k <= F
        BY <1>4
    <2>2. P[k - 1] < P[k]
        BY <1>4, <1>9, <1>15, <2>1
    <2>3. P[k] <= P[F]
        BY <1>9, <2>1
    <2>4. P[k - 1] < T
        <3>1. P[k - 1] \in Nat /\ P[k] \in Nat /\ P[F] \in Nat
            BY <1>9, <2>1
        <3>2. QED
            BY <1>1, <2>2, <2>3, <3>1
    <2>5. QED
        BY <1>14, <2>1, <2>4
<1>16. QED
    BY <1>4, <1>7, <1>14, <1>15 DEF l, f, F, n, L

(* A bitfield with all its bits set is full.                               *)
LEMMA AllSet ==
    ASSUME NEW w, NEW b, NEW n \in Nat \ {0}, b.Length = n, \A i \in 0 .. n - 1 : Has(w, b, i)
    PROVE  Progress(w, b)[1] = Progress(w, b)[2]
<1>1. Indexes(b) = 0 .. n - 1
    BY DEF Indexes
<1>2. {i \in Indexes(b) : Has(w, b, i)} = 0 .. n - 1
    BY <1>1
<1>3. Cardinality(0 .. n - 1) = IF 0 > n - 1 THEN 0 ELSE (n - 1) - 0 + 1
    BY FS_Interval
<1>4. Cardinality(0 .. n - 1) = n
    BY <1>3
<1>5. QED
    BY <1>2, <1>4 DEF Progress, CountSet

LEMMA SliceFacts ==
    ASSUME NEW V, NEW D \in Seq(V), NEW a \in Nat, NEW m \in Nat, a + m <= Len(D)
    PROVE  /\ Len(SubSeq(D, a + 1, a + m)) = m
           /\ \A j \in 1 .. m : SubSeq(D, a + 1, a + m)[j] = D[a + j]
OBVIOUS

(* Once all pieces are held, every file with a byte in it is shown full.   *)
LEMMA FileFull ==
    ASSUME info \in Infos, NEW w \in Nat \ {0}, NEW ours, ours = Packed(w, Cardinality(Pieces), Pieces),
           NEW k \in DOMAIN FileBits(w, ours), GetFiles(info)[k] # 0
    PROVE  LET p == Progress(w, FileBits(w, ours)[k]) IN p[1] = p[2]
<1> DEFINE n == Cardinality(Pieces)
           f == GetFiles(info)
           l == FileBytes(w)
           M == LastByte(w, n)
           x == FileBits(w, ours)[k]
<1>1. n \in Nat \ {0} /\ Pieces = 0 .. n - 1
    BY PieceCount
<1>2. /\ M \in Nat \ {0} /\ ours.Length = n /\ Len(ours.Data) = M
      /\ \A j \in 1 .. M : ours.Data[j] = BitsOf(w, j, Pieces)
      /\ ours.Data \in Seq(SUBSET Byte(w))
    <2> DEFINE b == Packed(w, n, Pieces)
    <2>1. n \in Nat /\ ours = b
        BY <1>1
    <2> HIDE DEF n
    <2>2. M \in Nat \ {0} /\ b.Length = n
        <3>1. M \in Nat \ {0}
            BY <2>1, PackedBytes
        <3>2. b.Length = n
            BY DEF Packed
        <3>3. QED
            BY <3>1, <3>2
    <2>3. Len(b.Data) = M
        BY <2>1, PackedBytes
    <2>4. \A j \in 1 .. M : b.Data[j] = BitsOf(w, j, Pieces)
        BY DEF Packed
    <2>5. b.Data \in Seq(SUBSET Byte(w))
        BY <2>1, PackedBytes
    <2> HIDE DEF b, M
    <2>6. QED
        BY <2>1, <2>2, <2>3, <2>4, <2>5
<1>3. CASE Len(f) = 1
    <2>1. FileBits(w, ours) = <<ours>>
        BY <1>3 DEF FileBits
    <2>2. x = ours
        BY <2>1
    <2>3. ASSUME NEW i \in 0 .. n - 1
          PROVE  Has(w, ours, i)
        <3>1. n \in Nat /\ i \in Pieces
            BY <1>1
        <3> HIDE DEF n
        <3>2. QED
            BY <3>1, PackedBit DEF n
    <2> HIDE DEF n, x
    <2>4. QED
        BY <1>1, <1>2, <2>2, <2>3, AllSet DEF x
<1>4. CASE Len(f) # 1
    <2> DEFINE a == Before(l)[k - 1]
               L == l[k]
    <2>1. /\ l \in Seq(Nat) /\ Len(l) = Len(f) /\ DOMAIN l = 1 .. Len(f)
          /\ \A j \in 0 .. Len(f) : Before(l)[j] \in Nat /\ Before(l)[j] * w \in Nat /\ Before(l)[j] * w <= n
          /\ \A j \in 1 .. Len(f) : f[j] # 0 => Before(l)[j - 1] * w < n
        BY FileBytesFacts
    <2>2. x = IF L = 0 THEN [Length |-> 1, Data |-> <<ours.Data[a + 1]>>]
              ELSE [Length |-> L, Data |-> SubSeq(ours.Data, a + 1, a + L)]
        BY <1>4 DEF FileBits
    <2>3. k \in 1 .. Len(f)
        BY <1>4, <2>1 DEF FileBits
    <2>4. Len(f) \in Nat /\ L \in Nat /\ Before(l)[k] = a + L
        <3>1. Len(f) \in Nat
            BY <2>1
        <3>2. QED
            BY <2>1, <2>3, <3>1, BeforeStep
    <2>5. a \in Nat /\ a * w \in Nat /\ a * w < n /\ (a + L) * w <= n
        <3> DEFINE F == Len(f)
        <3>1. F \in Nat /\ k \in 1 .. F
            BY <2>3, <2>4
        <3> HIDE DEF F
        <3>2. k - 1 \in 0 .. F /\ k \in 0 .. F
            BY <3>1
        <3>3. QED
            BY <2>1, <2>3, <2>4, <3>2 DEF F
    <2>6. ASSUME NEW y \in Nat, y * w + 0 \in 0 .. n - 1 \/ y * w + w <= n
          PROVE  y + 1 \in 1 .. M
        <3>1. y * w \in Nat
            BY <2>6, Products
        <3>2. y * w \in 0 .. n - 1
            BY <1>1, <2>6, <3>1
        <3>3. n \in Nat
            BY <1>1
        <3> HIDE DEF n
        <3>4. Idx(w, y * w) \in 1 .. M
            BY <3>2, <3>3, BitPlace
        <3>5. (y * w + 0) \div w = y
            BY <2>6, DivisionUnique
        <3>6. Idx(w, y * w) = y + 1
            BY <3>1, <3>5 DEF Idx
        <3>7. QED
            BY <3>4, <3>6
    <2>7. CASE L = 0
        <3>1. x.Length = 1 /\ x.Data = <<ours.Data[a + 1]>>
            BY <2>2, <2>7
        <3>2. a + 1 \in 1 .. M
            BY <1>1, <2>5, <2>6
        <3>3. ours.Data[a + 1] = BitsOf(w, a + 1, Pieces)
            BY <1>2, <3>2
        <3>4. 0 \div w = 0 /\ 0 % w = 0
            <4>1. (0 * w + 0) \div w = 0 /\ (0 * w + 0) % w = 0
                BY DivisionUnique
            <4>2. 0 * w + 0 = 0
                OBVIOUS
            <4>3. QED
                BY <4>1, <4>2
        <3>5. Idx(w, 0) = 1 /\ Mask(w, 0) = w - 1
            BY <3>4 DEF Idx, Mask
        <3>6. w - 1 \in Byte(w)
            BY DEF Byte
        <3>7. IndexOf(w, a + 1, w - 1) = a * w
            <4>1. (a + 1) - 1 = a /\ w - 1 - (w - 1) = 0
                BY <2>5
            <4>2. QED
                BY <2>5, <4>1 DEF IndexOf
        <3>8. w - 1 \in BitsOf(w, a + 1, Pieces)
            BY <1>1, <2>5, <3>6, <3>7 DEF BitsOf
        <3>9. Has(w, x, 0)
            BY <3>1, <3>3, <3>5, <3>8 DEF Has
        <3>10. \A i \in 0 .. 1 - 1 : Has(w, x, i)
            <4>1. \A i \in 0 .. 1 - 1 : i = 0
                OBVIOUS
            <4>2. QED
                BY <3>9, <4>1
        <3> HIDE DEF x
        <3>11. QED
            BY <3>1, <3>10, AllSet DEF x
    <2>8. CASE L # 0
        <3> DEFINE d == SubSeq(ours.Data, a + 1, a + L)
        <3>1. x.Length = L /\ x.Data = d /\ L \in Nat \ {0}
            <4>1. x = [Length |-> L, Data |-> d]
                BY <2>2, <2>8
            <4>2. L \in Nat \ {0}
                BY <2>4, <2>8
            <4> HIDE DEF x, d, L
            <4>3. QED
                BY <4>1, <4>2
        <3>2. a * w + L * w <= n /\ L * w \in Nat /\ L <= L * w
            <4>1. (a + L) * w = a * w + L * w
                BY <2>4, <2>5
            <4>2. L * w \in Nat /\ L <= L * w
                BY <2>4, Products
            <4>3. QED
                BY <2>5, <4>1, <4>2
        <3>3. a + L \in 1 .. M
            <4> DEFINE y == (a + L) - 1
            <4>1. y \in Nat /\ y + 1 = a + L
                BY <2>4, <2>5, <2>8
            <4> HIDE DEF y
            <4>2. y * w + w <= n
                <5>1. y * w + w = (y + 1) * w
                    BY <4>1, Products
                <5>2. QED
                    BY <2>5, <4>1, <5>1
            <4>3. QED
                BY <2>6, <4>1, <4>2
        <3>4. Len(d) = L /\ \A j \in 1 .. L : d[j] = ours.Data[a + j]
            <4> DEFINE D == ours.Data
            <4>1. D \in Seq(SUBSET Byte(w)) /\ Len(D) = M
                BY <1>2
            <4> HIDE DEF D, M
            <4>2. a + L \in Nat /\ a + L <= M /\ a \in Nat /\ L \in Nat
                BY <1>2, <2>4, <2>5, <3>3
            <4> HIDE DEF a, L
            <4>3. Len(SubSeq(D, a + 1, a + L)) = L /\ \A j \in 1 .. L : SubSeq(D, a + 1, a + L)[j] = D[a + j]
                BY <4>1, <4>2, SliceFacts
            <4>4. QED
                BY <4>3 DEF D
        <3>5. ASSUME NEW i \in 0 .. L - 1
              PROVE  Has(w, x, i)
            <4> DEFINE j == Idx(w, i)
                       m == Mask(w, i)
            <4>1. i \in Nat /\ i < L /\ L \in Nat
                BY <2>4
            <4>2. m \in Byte(w) /\ IndexOf(w, j, m) = i
                <5>1. m \in Byte(w)
                    BY <4>1, BitPlace
                <5>2. IndexOf(w, j, m) = i
                    BY <4>1, BitPlace
                <5>3. QED
                    BY <5>1, <5>2
            <4>3. j \in 1 .. L
                <5> DEFINE q == i \div w
                <5>1. q \in Nat /\ i % w \in Nat /\ i = q * w + (i % w)
                    BY <4>1, Division
                <5>2. j = q + 1
                    BY DEF Idx
                <5> HIDE DEF q, j
                <5>3. q <= q * w /\ q * w \in Nat
                    BY <5>1, Products
                <5>4. QED
                    BY <4>1, <5>1, <5>2, <5>3
            <4> HIDE DEF j, m
            <4>4. IndexOf(w, a + j, m) = a * w + i
                <5>1. (a + j) - 1 = a + (j - 1) /\ j - 1 \in Nat
                    BY <2>5, <4>3
                <5>2. (a + (j - 1)) * w = a * w + (j - 1) * w
                    BY <2>5, <5>1
                <5>3. (j - 1) * w + (w - 1 - m) = i
                    BY <4>2 DEF IndexOf
                <5>4. m \in Nat /\ (j - 1) * w \in Nat
                    <6>1. m \in Nat
                        BY <4>2 DEF Byte
                    <6>2. QED
                        BY <5>1, <6>1, Products
                <5>5. QED
                    BY <2>5, <5>1, <5>2, <5>3, <5>4 DEF IndexOf
            <4>5. a * w + i \in Pieces
                <5> DEFINE aw == a * w
                           Lw == L * w
                <5>1. aw \in Nat /\ Lw \in Nat /\ aw + Lw <= n /\ L <= Lw
                    BY <2>5, <3>2
                <5> HIDE DEF n, L, aw, Lw
                <5>2. aw + i \in 0 .. n - 1
                    BY <1>1, <4>1, <5>1
                <5>3. QED
                    BY <1>1, <5>2 DEF aw
            <4>6. a + j \in 1 .. M
                <5>1. M \in Nat /\ L \in Nat /\ a \in Nat /\ a + L <= M
                    BY <1>2, <2>4, <2>5, <3>3
                <5> HIDE DEF M, a, L
                <5>2. QED
                    BY <4>3, <5>1
            <4>7. m \in d[j]
                <5>1. d[j] = BitsOf(w, a + j, Pieces)
                    BY <1>2, <3>4, <4>3, <4>6
                <5>2. QED
                    BY <4>2, <4>4, <4>5, <5>1 DEF BitsOf
            <4> HIDE DEF x, d
            <4>8. QED
                BY <3>1, <3>4, <4>1, <4>3, <4>7 DEF Has, j, m
        <3> HIDE DEF x, L
        <3>6. QED
            BY <3>1, <3>5, AllSet DEF x
    <2>9. QED
        BY <2>7, <2>8
<1>5. QED
    BY <1>3, <1>4

(* The byte that a file's bits start in is one of the bitfield.            *)
LEMMA FileByteInside ==
    ASSUME info \in Infos, NEW w \in Nat \ {0}, NEW k \in DOMAIN FileBytes(w)
    PROVE  Before(FileBytes(w))[k - 1] < LastByte(w, Cardinality(Pieces))
<1> DEFINE n == Cardinality(Pieces)
           F == Len(GetFiles(info))
           a == Before(FileBytes(w))[k - 1]
           Q == n \div w
           R == n % w
<1>1. n \in Nat
    BY PieceCount
<1>2. k \in 1 .. F /\ F \in Nat
    <2>1. DOMAIN FileBytes(w) = 1 .. F /\ FileBytes(w) \in Seq(Nat) /\ Len(FileBytes(w)) = F
        BY FileBytesFacts
    <2>2. QED
        BY <2>1
<1>3. a \in Nat /\ a * w <= n
    <2>1. \A j \in 0 .. F : Before(FileBytes(w))[j] \in Nat /\ Before(FileBytes(w))[j] * w <= n
        BY FileBytesFacts
    <2> HIDE DEF F
    <2>2. k - 1 \in 0 .. F
        BY <1>2
    <2>3. QED
        BY <2>1, <2>2
<1> HIDE DEF n, a
<1>4. Q \in Nat /\ R \in 0 .. w - 1 /\ n = Q * w + R
    BY <1>1, Division
<1> HIDE DEF Q, R
<1>5. a <= Q
    <2>1. ASSUME Q < a
          PROVE  FALSE
        <3>1. Q * w + w <= a * w
            BY <1>3, <1>4, <2>1, Products
        <3>2. Q * w \in Nat /\ a * w \in Nat
            BY <1>3, <1>4, Products
        <3>3. QED
            BY <1>1, <1>3, <1>4, <3>1, <3>2
    <2>2. QED
        BY <1>3, <1>4, <2>1
<1>6. a < Q + 1
    BY <1>3, <1>4, <1>5
<1>7. QED
    BY <1>6 DEF LastByte, a, n, Q

(* What GetStatus shows.                                                   *)
LEMMA StatusFacts ==
    ASSUME info \in Infos, bf \in SUBSET Pieces, NEW w \in Nat \ {0}, NEW stopped \in BOOLEAN
    PROVE  LET ours   == Encode(w, bf)
               status == GetStatus(w, ours, FALSE, stopped)
               Full(p) == p[1] = p[2] IN
           /\ status.state = "seeding" <=> Done
           /\ \A k \in DOMAIN FileBytes(w) : Before(FileBytes(w))[k - 1] < Len(ours.Data)
           /\ \A k \in DOMAIN status.files :
                Done /\ GetFiles(info)[k] # 0 => Full(status.files[k])
           /\ Full(status.progress) <=> Done
<1> DEFINE n == Cardinality(Pieces)
           ours == Encode(w, bf)
           status == GetStatus(w, ours, FALSE, stopped)
<1>1. ours = Packed(w, n, bf)
    BY EncodeFacts
<1>2. status.state = IF Completed(w, ours) THEN "seeding" ELSE IF stopped THEN "stopped" ELSE "downloading"
    BY DEF GetStatus
<1>3. status.progress = Progress(w, ours)
    BY DEF GetStatus
<1>4. status.files = [k \in DOMAIN FileBits(w, ours) |-> Progress(w, FileBits(w, ours)[k])]
    BY DEF GetStatus
<1> HIDE DEF status, ours, n
<1>5. CountSet(w, ours) = Cardinality(bf) /\ (Completed(w, ours) <=> bf = Pieces)
    <2>1. CountSet(w, ours) = Cardinality(bf)
        BY <1>1, CountFacts DEF n
    <2>2. Completed(w, ours) <=> bf = Pieces
        BY <1>1, CountFacts DEF n
    <2>3. QED
        BY <2>1, <2>2
<1>6. ours.Length = n /\ Len(ours.Data) = LastByte(w, n)
    <2>1. n \in Nat
        BY PieceCount DEF n
    <2>2. QED
        BY <1>1, <2>1, PackedBytes
<1>7. status.state = "seeding" <=> Done
    BY <1>2, <1>5 DEF Done
<1>8. ASSUME NEW k \in DOMAIN FileBytes(w)
      PROVE  Before(FileBytes(w))[k - 1] < Len(ours.Data)
    BY <1>6, FileByteInside DEF n
<1>9. ASSUME Done, NEW k \in DOMAIN status.files, GetFiles(info)[k] # 0
      PROVE  status.files[k][1] = status.files[k][2]
    <2>1. ours = Packed(w, Cardinality(Pieces), Pieces)
        BY <1>1, <1>9 DEF Done, n
    <2>2. k \in DOMAIN FileBits(w, ours) /\ status.files[k] = Progress(w, FileBits(w, ours)[k])
        BY <1>4, <1>9
    <2>3. QED
        BY <1>9, <2>1, <2>2, FileFull
<1>10. status.progress[1] = status.progress[2] <=> Done
    <2>1. status.progress[1] = Cardinality(bf) /\ status.progress[2] = Cardinality(Pieces)
        BY <1>3, <1>5, <1>6 DEF Progress, n
    <2>2. Cardinality(bf) = Cardinality(Pieces) <=> bf = Pieces
        BY PieceCount, FS_Subset
    <2>3. QED
        BY <2>1, <2>2 DEF Done
<1>11. QED
    BY <1>7, <1>8, <1>9, <1>10 DEF status, ours

(* What a connection asks for, whatever the peer's spare bits are and in   *)
(* whatever order the counts come.                                         *)
LEMMA PickFacts ==
    ASSUME info \in Infos, bf \in SUBSET Pieces, NEW w \in Nat \ {0}, NEW S \in SUBSET Pieces,
           NEW theirs \in Payloads(w, S), NEW order \in Orders
    PROVE  LET found == FindRarest(w, theirs, Others(w), bf \union PendingPieces, order)
               able == (S \ bf) \ PendingPieces IN
           /\ found.has <=> able # {}
           /\ found.has => found.idx \in able
                           /\ \A i \in able : Holders(found.idx) <= Holders(i)
<1> DEFINE n == Cardinality(Pieces)
           others == Others(w)
           excluded == bf \union PendingPieces
           found == FindRarest(w, theirs, others, excluded, order)
           able == (S \ bf) \ PendingPieces
<1>1. n \in Nat /\ Pieces = 0 .. n - 1
    BY PieceCount
<1>2. \A p \in Peers : others[p] = Packed(w, n, Remote[p])
    BY PeersAssumption, EncodeFacts DEF Others
<1>3. DOMAIN others = Peers
    BY DEF Others
<1>4. /\ order \in [1 .. n -> Pieces] /\ \A i \in Pieces : \E k \in 1 .. n : order[k] = i
      /\ Len(order) = n
    <2>1. order \in [1 .. n -> Pieces] /\ \A i \in Pieces : \E k \in DOMAIN order : order[k] = i
        BY DEF Orders
    <2> HIDE DEF n
    <2>2. QED
        BY <1>1, <2>1
<1>5. \A i \in Pieces : Has(w, theirs, i) <=> i \in S
    BY DEF Payloads
<1> HIDE DEF n, others, excluded
<1>6. ASSUME NEW i \in Pieces
      PROVE  Count(w, others, i) = Holders(i) /\ Holders(i) \in Nat
    <2>1. ASSUME NEW p \in Peers
          PROVE  Has(w, others[p], i) <=> i \in Remote[p]
        <3>1. i \in 0 .. n - 1
            BY <1>1
        <3> DEFINE R == Remote[p]
        <3>2. others[p] = Packed(w, n, R)
            BY <1>2
        <3> HIDE DEF R
        <3>3. Has(w, Packed(w, n, R), i) <=> i \in R
            BY <1>1, <3>1, PackedBit
        <3>4. QED
            BY <3>2, <3>3 DEF R
    <2>2. {p \in DOMAIN others : Has(w, others[p], i)} = {p \in Peers : i \in Remote[p]}
        BY <1>3, <2>1
    <2>3. IsFiniteSet({p \in Peers : i \in Remote[p]})
        BY ConnectionsAssumption, FS_Subset
    <2>4. QED
        BY <2>2, <2>3, FS_CardinalityType DEF Count, Holders
<1>7. able \in SUBSET Pieces /\ \A i \in Pieces : i \in able <=> Has(w, theirs, i) /\ i \notin excluded
    BY <1>5 DEF excluded
<1>8. /\ \A k \in 1 .. n : order[k] \in Pieces
      /\ \A i \in Pieces : \E k \in 1 .. n : order[k] = i
      /\ \A i \in Pieces : Count(w, others, i) \in Nat
      /\ n \in Nat /\ n = Len(order)
    BY <1>1, <1>4, <1>6
<1>9. /\ found.has <=> able # {}
      /\ found.has => found.idx \in able
                      /\ \A i \in able : Count(w, others, found.idx) <= Count(w, others, i)
    <2> HIDE DEF able
    <2>1. found.has <=> able # {}
        BY <1>7, <1>8, RarestFacts
    <2>2. found.has => found.idx \in able
        BY <1>7, <1>8, RarestFacts
    <2>3. found.has => \A i \in able : Count(w, others, found.idx) <= Count(w, others, i)
        BY <1>7, <1>8, RarestFacts
    <2> HIDE DEF found
    <2>4. QED
        BY <2>1, <2>2, <2>3
<1>10. able \subseteq Pieces
    OBVIOUS
<1> HIDE DEF able, found
<1>11. found.has => \A i \in able : Holders(found.idx) <= Holders(i)
    BY <1>6, <1>9, <1>10
<1>12. QED
    BY <1>9, <1>11 DEF found, able, others, excluded

LEMMA BitsAgree ==
    ASSUME Typed, info \in Infos
    PROVE  BitfieldsAgree
<1>1. bf \in SUBSET Pieces
    BY DEF Typed, TypeOK
<1>2. ASSUME NEW w \in Widths
      PROVE  w \in Nat \ {0}
    BY WidthsAssumption
<1>3. ASSUME NEW w \in Widths
      PROVE  /\ Encode(w, bf) = EncodeDown(w, bf)
             /\ CountSet(w, Encode(w, bf)) = Cardinality(bf)
             /\ Completed(w, Encode(w, bf)) <=> Done
    <2> DEFINE b == Packed(w, Cardinality(Pieces), bf)
    <2>1. Encode(w, bf) = b /\ EncodeDown(w, bf) = b
        BY <1>1, <1>2, EncodeFacts
    <2>2. CountSet(w, b) = Cardinality(bf)
        BY <1>1, <1>2, CountFacts
    <2>3. Completed(w, b) <=> bf = Pieces
        BY <1>1, <1>2, CountFacts
    <2> HIDE DEF b
    <2>4. QED
        BY <2>1, <2>2, <2>3 DEF Done
<1>4. ASSUME NEW w \in Widths, NEW S \in SUBSET Pieces, NEW theirs \in Payloads(w, S)
      PROVE  checkInterested(w, Encode(w, bf), theirs) <=> S \ bf # {}
    <2>1. Encode(w, bf) = Packed(w, Cardinality(Pieces), bf)
        BY <1>1, <1>2, EncodeFacts
    <2>2. checkInterested(w, Packed(w, Cardinality(Pieces), bf), theirs) <=> S \ bf # {}
        BY <1>1, <1>2, InterestFacts
    <2>3. QED
        BY <2>1, <2>2
<1>5. ASSUME tick.pc = "pick", NEW w \in Widths
      PROVE  LET ours == Encode(w, bf) IN
             /\ ours = EncodeDown(w, bf)
             /\ CountSet(w, ours) = Cardinality(bf)
             /\ Completed(w, ours) <=> Done
             /\ \A S \in SUBSET Pieces : \A theirs \in Payloads(w, S) :
                  /\ checkInterested(w, ours, theirs) <=> S \ bf # {}
                  /\ \A order \in Orders :
                       LET found == FindRarest(w, theirs, Others(w), bf \union PendingPieces, order)
                           able == (S \ bf) \ PendingPieces IN
                       /\ found.has <=> able # {}
                       /\ found.has => found.idx \in able
                                       /\ \A i \in able : Holders(found.idx) <= Holders(i)
    <2>1. ASSUME NEW S \in SUBSET Pieces, NEW theirs \in Payloads(w, S), NEW order \in Orders
          PROVE  LET found == FindRarest(w, theirs, Others(w), bf \union PendingPieces, order)
                     able == (S \ bf) \ PendingPieces IN
                 /\ found.has <=> able # {}
                 /\ found.has => found.idx \in able
                                 /\ \A i \in able : Holders(found.idx) <= Holders(i)
        BY <1>1, <1>2, PickFacts
    <2>2. QED
        BY <1>3, <1>4, <2>1
<1>6. ASSUME NEW w \in Widths, NEW stopped \in BOOLEAN
      PROVE  LET ours   == Encode(w, bf)
                 status == GetStatus(w, ours, FALSE, stopped)
                 Full(p) == p[1] = p[2] IN
             /\ status.state = "seeding" <=> Done
             /\ \A k \in DOMAIN FileBytes(w) : Before(FileBytes(w))[k - 1] < Len(ours.Data)
             /\ \A k \in DOMAIN status.files :
                  Done /\ GetFiles(info)[k] # 0 => Full(status.files[k])
             /\ Full(status.progress) <=> Done
    BY <1>1, <1>2, StatusFacts
<1>7. QED
    BY <1>5, <1>6 DEF BitfieldsAgree

\* For every number of pieces, peers and bits of a byte, and every order of the
\* counts: what is counted, wanted, asked for and shown by the bytes of the
\* bitfields is what the sets of pieces say: BitfieldsAgree.
THEOREM BitsCorrect == BlocksSpec => []BitfieldsAgree
<1>1. BlocksInit => Typed /\ BytesInv
    BY TypedInit, BytesInit DEF BlocksInit
<1>2. Typed /\ BytesInv /\ [BlocksNext]_<<vars, info, files>> => Typed' /\ BytesInv'
    <2>1. [BlocksNext]_<<vars, info, files>> => [Next]_vars
        BY DEF BlocksNext
    <2>2. QED
        BY <2>1, TypedStep, BytesStep
<1>3. Typed /\ BytesInv => BitfieldsAgree
    BY BitsAgree DEF BytesInv
<1>4. QED
    BY <1>1, <1>2, <1>3, PTL DEF BlocksSpec

-----------------------------------------------------------------------------
(* What the bytes come to when all peers are honest.                       *)

(* The pieces whose bytes in the files pass the check of their hash.       *)
WholeFiles == {i \in Pieces : CheckPiece(WholePiece(i), GetPiece(info, files, WholePiece(i)))}

FileStore == INSTANCE PieceStore WITH have <- bf, whole <- WholeFiles

(* Whoever asks for a block of a piece we claim is sent the torrent's own  *)
(* bytes.                                                                  *)
Served ==
    \A s \in Slots :
        s[1] \in bf => handlePieceRequest(info, files, Request(s), None) = BytesOf("good", Request(s))

LEMMA WholeFilesFacts ==
    ASSUME Typed, BytesInv
    PROVE  WholeFiles = Whole
BY PieceChecked DEF WholeFiles, Whole

LEMMA FileStoreInit ==
    ASSUME BlocksInit
    PROVE  FileStore!Init
<1>1. Typed /\ BytesInv /\ Store!Init
    BY TypedInit, BytesInit, StoreInit DEF BlocksInit
<1>2. QED
    BY <1>1, WholeFilesFacts DEF Store!Init, FileStore!Init

LEMMA FileStoreStep ==
    ASSUME Typed, HaveInv, Typed', HaveInv', [Next]_vars,
           WholeFiles = Whole, (WholeFiles = Whole)'
    PROVE  [FileStore!Next]_<<bf, WholeFiles>>
<1>1. [Store!Next]_<<bf, Whole>>
    BY StoreStep
<1>2. QED
    BY <1>1 DEF Store!Next, Store!Arrive, Store!Claim,
                            FileStore!Next, FileStore!Arrive, FileStore!Claim

LEMMA BytesServed ==
    ASSUME Typed, BytesInv, HaveInv
    PROVE  Served
<1>1. SUFFICES ASSUME NEW s \in Slots, s[1] \in bf
               PROVE  handlePieceRequest(info, files, Request(s), None) = BytesOf("good", Request(s))
    BY DEF Served
<1>2. GoodOnDisk(s[1]) /\ s = <<s[1], s[2]>> /\ s[2] \in BlocksOf[s[1]]
    BY <1>1, SlotFacts DEF HaveInv, HaveIsValid
<1>3. disk[s] = "good"
    BY <1>2 DEF GoodOnDisk
<1>4. QED
    BY <1>3, BlockRead

\* When all peers are honest, the files themselves are a PieceStore: the pieces whose
\* bytes pass the check of their hash grow one at a time and none is damaged by a
\* block written to a neighbour or a second time, and the bitfield names such pieces
\* only (fs.go:193, 354).
THEOREM FilesImplementStore ==
    ASSUME Honest = Peers
    PROVE  BlocksSpec => FileStore!Spec
<1>1. BlocksInit => Typed /\ BytesInv /\ HaveInv /\ FileStore!Init
    BY TypedInit, BytesInit, FileStoreInit DEF BlocksInit, Init, HaveInv, HaveIsValid, RunSound, RunIdle
<1>2. Typed /\ BytesInv /\ HaveInv /\ [BlocksNext]_<<vars, info, files>>
      => Typed' /\ BytesInv' /\ HaveInv' /\ [Next]_vars
    <2>1. [BlocksNext]_<<vars, info, files>> => [Next]_vars
        BY DEF BlocksNext
    <2>2. QED
        BY <2>1, TypedStep, BytesStep, HaveStep
<1>3. Typed /\ BytesInv => WholeFiles = Whole
    BY WholeFilesFacts
<1>4. /\ Typed /\ HaveInv /\ Typed' /\ HaveInv' /\ [Next]_vars
      /\ WholeFiles = Whole /\ (WholeFiles = Whole)'
      => [FileStore!Next]_<<bf, WholeFiles>>
    BY FileStoreStep
<1>5. QED
    BY <1>1, <1>2, <1>3, <1>4, PTL DEF BlocksSpec, FileStore!Spec

\* When all peers are honest, XD serves what it claims: at any moment of the download
\* the answer to a request for a block of a piece in the bitfield is the torrent's own
\* data, read from whichever files it lies in (torrent.go:837, fs.go:327).
THEOREM ServedCorrect ==
    ASSUME Honest = Peers
    PROVE  BlocksSpec => []Served
<1>1. BlocksInit => Typed /\ BytesInv /\ HaveInv
    BY TypedInit, BytesInit DEF BlocksInit, Init, HaveInv, HaveIsValid, RunSound, RunIdle
<1>2. Typed /\ BytesInv /\ HaveInv /\ [BlocksNext]_<<vars, info, files>>
      => Typed' /\ BytesInv' /\ HaveInv'
    <2>1. [BlocksNext]_<<vars, info, files>> => [Next]_vars
        BY DEF BlocksNext
    <2>2. QED
        BY <2>1, TypedStep, BytesStep, HaveStep
<1>3. Typed /\ BytesInv /\ HaveInv => Served
    BY BytesServed
<1>4. QED
    BY <1>1, <1>2, <1>3, PTL DEF BlocksSpec

=============================================================================
