\* Two purges, a store, two faults and a restart; a key with a variant, or
\* with one fault and without the store (Scenario).
CONSTANTS
    p1 = p1 p2 = p2 n1 = n1 n2 = n2
    Nodes = {n1, n2}
    Purgers = {p1, p2}
    MaxStores = 1
    MaxFaults = 2
    MaxRestarts = 1
    Null = Null
SPECIFICATION Spec
CONSTRAINT Scenario
SYMMETRY Symmetry
INVARIANTS SizeExact FilesAccounted PurgedStaysGone
CHECK_DEADLOCK FALSE
