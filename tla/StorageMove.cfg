\* One connection, no fault, one crash.
SPECIFICATION Spec
CONSTANTS
  f1 = f1
  f2 = f2
  Files = {f1, f2}
  Pieces = {0, 1}
  Spans <- TwoFiles
  Conns = {c1}
  DataDir = downloads
  SeedingDir = seeds
  MaxFaults = 0
  MaxCrashes = 1
  None = None
  Empty = Empty
CHECK_DEADLOCK FALSE
PROPERTY MoveKeepsData
