\* Two connections, two pieces in one byte of the bitfield, one fault.
SPECIFICATION Spec
CONSTANTS
  Peers = {p1, p2}
  Pieces = {0, 1}
  BlocksOf <- SingleBlocks
  Remote <- Seeds
  Honest = {p1, p2}
  Objects = {1, 2, 3, 4, 5}
  MaxParallel = 1
  MaxFaults = 1
  None = None
PROPERTY IsPieceStore
