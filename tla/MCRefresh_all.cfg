\* One client, pages of two over three entries, two changes by others; or one and
\* two pages of two clients, one probe and one worker that dies with it.
CONSTANTS
    c1 = c1 c2 = c2 s1 = s1 s2 = s2
    Null = Null
    Hashes = {1, 2, 3}
    Unmappable = {2}
    Batch = 2
    Probes = 1
    Clients = {c1, c2}
    Slots = {s1, s2}
    Pooled = {s1}
    MaxPages = 3
    MaxDeaths = 1
    MaxChanges = 2
SPECIFICATION LiveSpec
CONSTRAINT Scenario
CHECK_DEADLOCK FALSE
INVARIANTS JobsConsistent ProbesAccounted ContinuationSkipsNothing
PROPERTIES PageEnds
