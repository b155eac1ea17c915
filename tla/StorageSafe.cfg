\* One connection, one fault, two crashes.
SPECIFICATION FairSpec
CONSTANTS
  f1 = f1
  f2 = f2
  Files = {f1, f2}
  Pieces = {0, 1}
  Spans <- TwoFiles
  Conns = {c1}
  DataDir = downloads
  SeedingDir = seeds
  MaxFaults = 1
  MaxCrashes = 2
  None = None
  Empty = Empty
CHECK_DEADLOCK FALSE
INVARIANTS TypeOK ClaimedOnDisk
PROPERTY SeedsWhenDone
