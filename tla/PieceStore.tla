----------------------------- MODULE PieceStore -----------------------------
(***************************************************************************)
(* What the download of a torrent from honest peers promises, without its   *)
(* goroutines, cached pieces and messages: pieces become whole on disk, one  *)
(* at a time and for good, and XD tells its peers that it has a set of whole *)
(* pieces.  It may have forgotten some of them, for bits set at the same     *)
(* time can be lost (lib/bittorrent/bitfield.go:202).                        *)
(***************************************************************************)
EXTENDS FiniteSets

CONSTANT Pieces

VARIABLES
  have,    \* the pieces of the bitfield we send and announce
  whole    \* the pieces whose data is complete and good on disk

Init == have = {} /\ whole = {}

Arrive ==
  /\ have' = have
  /\ \E i \in Pieces \ whole : whole' = whole \union {i}

Claim ==
  /\ whole' = whole
  /\ have' \in SUBSET whole

Next == Arrive \/ Claim

Spec == Init /\ [][Next]_<<have, whole>>
=============================================================================
