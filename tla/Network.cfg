SPECIFICATION MCSpec
CONSTANTS
    Callers = {c1}
    MaxSessions = 5
    LookupCap = 1
    MaxFaults = 2
    Persistent = TRUE
    None = None
    Torn = Torn
    Senders = {s1}
    Cap = 2
    MaxCancel = 2
    MaxSkew = 0
    Names = {n1, n2}
    Size = 2
    MaxCallFaults = 1
    Users = {u1, u2, u3}
    Shared = {u1, u2}
    Workers = {w1, w2}
    Buffer = 1
    MaxOps = 3
CHECK_DEADLOCK FALSE
INVARIANTS AllTypeOK LostIsGone FaultCost SameDestination ChannelsHaveRoom SuccessIsDone
PROPERTIES BackOnline CallersServed RunLoopEnds OpsReturn
