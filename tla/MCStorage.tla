----------------------------- MODULE MCStorage -----------------------------
\* Instances of Storage for TLC.
EXTENDS Storage, TLC

CONSTANTS f1, f2

\* the connections are alike
Alike == Permutations(Conns)

\* the second piece reaches into the second file
TwoFiles == [i \in Pieces |-> IF i = 0 THEN {f1} ELSE {f1, f2}]

=============================================================================
