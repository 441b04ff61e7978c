SPECIFICATION LiveSpec
CONSTANTS
    k1 = k1 k2 = k2 k3 = k3 f1 = f1 f2 = f2 c1 = c1 c2 = c2 c3 = c3
    p1 = p1 p2 = p2 p3 = p3 s1 = s1 s2 = s2
    Null = Null
    Keys = {k1, k2, k3}
    Files = {}
    Match <- AllMatch
    Confs = {c1}
    Protected <- NoneProtected
    Configured <- AllConfigured
    Pids = {p1, p2}
    Reusable = {p1}
    Slots = {s1}
    MaxSize = 2
    MaxEpoch = 2
    WalkEntries = 1
    MaxRetries = 1
    MaxRequests = 3
INVARIANTS TypeOK QueueConsistent WithinCapacity WaitTimeOfPending
PROPERTY AcceptedIsRetired
\* With no epoch left in any slot nginx runs without workers.
CHECK_DEADLOCK FALSE
