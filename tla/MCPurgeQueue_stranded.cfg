SPECIFICATION ShrunkSpec
CONSTANTS
    k1 = k1 k2 = k2 k3 = k3 f1 = f1 f2 = f2 c1 = c1 c2 = c2 c3 = c3
    p1 = p1 p2 = p2 p3 = p3 s1 = s1 s2 = s2
    Null = Null
    Keys = {k1}
    Files = {f1}
    Match <- AllMatch
    Confs = {c1}
    Protected <- NoneProtected
    Configured <- AllConfigured
    Pids = {p1, p2}
    Reusable = {p1}
    Slots = {s1, s2}
    MaxSize = 1
    MaxEpoch = 1
    WalkEntries = 1
    MaxRetries = 1
    MaxRequests = 1
PROPERTY
    OrphanIsRequeued
