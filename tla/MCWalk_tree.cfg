\* Two trees, one change by others, two faults, slices of two entries.
CONSTANTS
    Bytes <- MCBytes
    Sep = "/"
    Root <- MCRoot
    Protected <- MCProtected
    Names <- MCNames
    CacheNames <- OneCacheName
    Trees <- MCTrees
    Kinds = {"file", "dir", "link"}
    Limit = 2
    MaxChanges = 1
    MaxFaults = 2
    Null = Null
SPECIFICATION FairSpec
INVARIANTS CursorConsistent NothingMissed KeepsProtected
PROPERTIES WalkEnds
CHECK_DEADLOCK FALSE
