\* Rules only: three trie nodes for texts of up to three bytes, freed one by
\* one, so that most orders of invalidations exhaust the zone.
CONSTANTS
    Keys <- TwoKeys
    Texts <- TwoTexts
    Star = "*"
    Lower <- MCLower
    Epochs = {e1, e2}
    MaxSerial = 6
    Capacity = 3
    Reclaim = 1
    Requests = {}
    Refreshers = {}
    Sweepers = {}
    MaxFiles = 0
    Null = Null
SPECIFICATION Spec
INVARIANTS TypeOK ViewTruthful
PROPERTIES ImplementsVersions
