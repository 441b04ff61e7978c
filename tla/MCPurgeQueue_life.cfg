SPECIFICATION Spec
CONSTANTS
    k1 = k1 k2 = k2 k3 = k3 f1 = f1 f2 = f2 c1 = c1 c2 = c2 c3 = c3
    p1 = p1 p2 = p2 p3 = p3 s1 = s1 s2 = s2
    Null = Null
    Keys = {k1}
    Files = {f1, f2}
    Match <- AllMatch
    Confs = {c1, c2, c3}
    Protected <- ReloadProtected
    Configured <- ReloadConfigured
    Pids = {p1, p2}
    Reusable = {p1, p2}
    Slots = {s1, s2}
    MaxSize = 1
    MaxEpoch = 2
    WalkEntries = 1
    MaxRetries = 1
    MaxRequests = 2
SYMMETRY Symmetry
INVARIANTS HolderKeepsTask SuccessorExposesOrphan NoLostPurge NewestProtection
