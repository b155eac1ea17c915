\* Two connections share one piece of two blocks, one block on request each;
\* one choke, close, failed write or slow answer may happen.
SPECIFICATION FairSpec
CONSTANTS
  Peers = {p1, p2}
  Pieces = {0}
  BlocksOf <- OnePiece
  Remote <- Seeds
  Honest = {p1, p2}
  Objects = {1, 2, 3, 4}
  MaxParallel = 1
  MaxFaults = 1
  None = None
INVARIANTS ExpiryCancelsAll ObtainedOnDisk
PROPERTIES PendingReleased FirstPieceArrives TickReturns
