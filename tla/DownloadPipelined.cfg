\* One connection with two requests in flight, two pieces of one or two blocks
\* in layouts of one to three files, no fault.
SPECIFICATION MCSpec
CONSTANTS
  Peers = {p1}
  Pieces = {0, 1}
  BlocksOf <- TwoPieces
  Remote <- Seeds
  Honest = {}
  Objects = {1, 2, 3, 4}
  MaxParallel = 2
  MaxFaults = 0
  None = None
  BlockSize = 2
  Infos <- AllInfos
  Widths = {1, 2, 3}
INVARIANTS RequestLimit BlocksLand BitfieldsAgree
PROPERTIES VerifiedWhenSet
