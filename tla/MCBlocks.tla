------------------------------ MODULE MCBlocks ------------------------------
\* An instance of Blocks for TLC: two pieces of four and of at most two bytes, in
\* blocks of two bytes, in up to three files.
EXTENDS Blocks

TwoPieces == [i \in Pieces |-> IF i = 0 THEN {0, 1} ELSE {0}]

Seeds == [p \in Peers |-> Pieces]

Cut(length, lengths) == [length |-> length, files |-> lengths, pieceLength |-> 4, hashes |-> 2]

\* a single file, one or two files with an empty one, and three files of five
\* bytes in all
Single == Cut(6, <<>>)
AllInfos ==
  {Single, Cut(5, <<>>), Cut(0, <<6, 0>>), Cut(0, <<0, 3, 3>>)}
    \union {Cut(0, <<a, b, c>>) : <<a, b, c>> \in
              {x \in (1..2) \X (0..3) \X (1..3) : x[1] + x[2] + x[3] = 5}}

\* the peer sends bad blocks of the first piece, in the single-file instance only
MCNext ==
  /\ BlocksNext
  /\ \A p \in Peers :
       run'[p].pc = "visit" /\ ~run'[p].good => info = Single /\ run'[p].req[1] = 0

MCSpec == BlocksInit /\ [][MCNext]_<<vars, info, files>>

=============================================================================
