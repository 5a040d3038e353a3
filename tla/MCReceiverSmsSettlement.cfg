SPECIFICATION FairSpec
CONSTANTS
    r1 = r1
    c1 = c1
    c2 = c2
    None = None
    References = {r1}
    Customers = {c1, c2}
    MaxMessages = 2
    Hour = 2
CHECK_DEADLOCK FALSE
INVARIANT
    NoMissedMatch
PROPERTIES
    PaysOnce
    EverySubmissionDecided
    QueuedEnds
