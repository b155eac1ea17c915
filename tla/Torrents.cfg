SPECIFICATION MCSpec
CONSTANTS
    Torrents = {t1, t2}
    Complete = {t1}
    Users = {u1}
    QueueSize = 1
    MaxOps = 2
    MaxStarts = 2
    MaxCalls = 2
    Parts = {0, 1}
    MaxRequests = 1
    MaxElsewhere = 1
    None = None
CHECK_DEADLOCK FALSE
INVARIANTS AllTypeOK OpenIsRun NothingMissed InterestTold
PROPERTIES PlacesReturn SilentAfterStop AnnouncesGoOn NoStandstill
