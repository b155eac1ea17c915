\* One connection, two pieces of one block each, no fault.
SPECIFICATION FairSpec
CONSTANTS
  Peers = {p1}
  Pieces = {0, 1}
  BlocksOf <- SingleBlocks
  Remote <- Seeds
  Honest = {p1}
  Objects = {1, 2, 3, 4}
  MaxParallel = 1
  MaxFaults = 0
  None = None
PROPERTY PicksNewPiece
