----------------------------- MODULE MCDownload -----------------------------
\* Instances of Download for TLC.
EXTENDS Download

\* one piece of two blocks
OnePiece == [i \in Pieces |-> {0, 1}]

\* one block in each piece
SingleBlocks == [i \in Pieces |-> {0}]

\* every peer is a seed
Seeds == [p \in Peers |-> Pieces]

=============================================================================
