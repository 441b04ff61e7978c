\* Builds of 32 and of 64 bits; one death, two updates of counters.
CONSTANTS
    NSlots = 2
    Narrows = {TRUE, FALSE}
    Base = 3
    MaxTries = 2
    MaxUpdates = 2
    MaxDeaths = 1
    None = None
SPECIFICATION MetricsSpec
INVARIANTS CountersConsistent SampleWhole QuietSampleExact
CHECK_DEADLOCK FALSE
