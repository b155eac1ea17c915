------------------------------ MODULE Bitfield ------------------------------
(***************************************************************************)
(* lib/bittorrent/bitfield.go: a bitfield of Length bits in Data, a         *)
(* sequence of bytes, and the operations the choice of pieces is made of.   *)
(* A byte of w bits is the set of its bits that are set, numbered from the  *)
(* least significant one; w is 8 in the code.                               *)
(***************************************************************************)
EXTENDS Naturals, Sequences, FiniteSets

Byte(w) == 0..w - 1

\* the byte (in a sequence, from 1) and the bit in it of an index
Idx(w, index) == (index \div w) + 1
Mask(w, index) == w - 1 - (index % w)

\* mutant: no byte for the bits after the last full byte
NewBitfieldShort(w, bits) == [Length |-> bits, Data |-> [k \in 1..bits \div w |-> {}]]

\* without a value; the last byte has no bit in use when bits is a multiple of 8
NewBitfield(w, bits) == [Length |-> bits, Data |-> [k \in 1..(bits \div w) + 1 |-> {}]]

Has(w, bf, index) ==
  /\ index < bf.Length
  /\ Idx(w, index) <= Len(bf.Data)
  /\ Mask(w, index) \in bf.Data[Idx(w, index)]

Set(w, bf, index) ==
  IF index < bf.Length /\ Idx(w, index) <= Len(bf.Data)
  THEN [bf EXCEPT !.Data[Idx(w, index)] = @ \union {Mask(w, index)}] ELSE bf

Unset(w, bf, index) ==
  IF index < bf.Length /\ Idx(w, index) <= Len(bf.Data)
  THEN [bf EXCEPT !.Data[Idx(w, index)] = @ \ {Mask(w, index)}] ELSE bf

Inverted(w, bf) == [bf EXCEPT !.Data = [k \in DOMAIN @ |-> Byte(w) \ @[k]]]

\* bytes the other one lacks are left as they are
AND(bf, other) ==
  [bf EXCEPT !.Data = [k \in DOMAIN @ |->
     IF k \in DOMAIN other.Data THEN @[k] \intersect other.Data[k] ELSE @[k]]]

Indexes(bf) == IF bf.Length = 0 THEN {} ELSE 0..bf.Length - 1

CountSet(w, bf)  == Cardinality({i \in Indexes(bf) : Has(w, bf, i)})
Progress(w, bf)  == <<CountSet(w, bf), bf.Length>>
AnySet(w, bf)    == \E i \in Indexes(bf) : Has(w, bf, i)
Completed(w, bf) == \A i \in Indexes(bf) : Has(w, bf, i)

\* peer.go checkInterested: is there anything in theirs we do not have?
checkInterested(w, ours, theirs) == AnySet(w, AND(Inverted(w, ours), theirs))

\* how many of the others have it
Count(w, others, i) == Cardinality({n \in DOMAIN others : Has(w, others[n], i)})

\* the loop's step for index i: s is the rarest one so far
Rarer(w, bf, others, excluded, s, i) ==
  IF i \in excluded \/ ~Has(w, bf, i) \/ (s.has /\ s.min <= Count(w, others, i)) THEN s
  ELSE [has |-> TRUE, idx |-> i, min |-> Count(w, others, i)]

\* the loop after k indexes: the map of counts is gone through in some order
Rarest(w, bf, others, excluded, order) ==
  LET s[k \in 0..Len(order)] ==
        IF k = 0 THEN [has |-> FALSE, idx |-> 0, min |-> 0]
        ELSE Rarer(w, bf, others, excluded, s[k - 1], order[k])
  IN s

FindRarest(w, bf, others, excluded, order) ==
  Rarest(w, bf, others, excluded, order)[Len(order)]

=============================================================================
