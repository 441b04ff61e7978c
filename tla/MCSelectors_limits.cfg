\* Keys of up to four bytes against limits of two and three; some files have a
\* newline in their key.
CONSTANTS
    Star = "*"
    LF = "n"
    Lower <- MCLower
    KeyMax = 2
    LogicalMax = 3
    Namespaces <- MCNamespaces
    Keys <- MCKeys
    Stored <- MCStored
    None = None
SPECIFICATION SelectorsSpec
INVARIANTS DeletesWhatIsMeant CoalescedMeanTheSame
CHECK_DEADLOCK FALSE
