\* One request at a time, whose response may come late, REFRESH and a sweep race
\* for one file; memory for two rules, a restart.
CONSTANTS
    Keys <- StarKeys
    Texts <- StarTexts
    Star = "*"
    Lower <- MCLower
    Epochs = {e1, e2}
    MaxSerial = 3
    Capacity = 3
    Reclaim = 1
    Requests = {r1}
    Refreshers = {j1}
    Sweepers = {w1}
    MaxFiles = 1
    Null = Null
SPECIFICATION Spec
INVARIANTS NeverServesStale
PROPERTIES SweepKeepsCurrent RefreshActsOnCurrent
