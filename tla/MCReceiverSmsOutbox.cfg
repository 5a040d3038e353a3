SPECIFICATION FairSpec
CONSTANTS
    m1 = m1
    m2 = m2
    r1 = r1
    r2 = r2
    x = x
    y = y
    None = None
    Messages = {m1, m2}
    References = {r1, r2}
    Texts = {x, y}
    Bills <- FewBills
    Hold = 1
    MaxEras = 2
    MaxDisturbances = 2
CHECK_DEADLOCK FALSE
INVARIANT
    OwnRetryIsReplay
PROPERTIES
    MessageIsKept
    QueueMovesOn
