SPECIFICATION FairSpec
CONSTANTS
    c1 = c1
    c2 = c2
    p1 = p1
    p2 = p2
    h1 = h1
    h2 = h2
    None = None
    Torn = Torn
    Customers = {c1, c2}
    Players = {p1, p2}
    Shown = {p1}
    Handlers = {h1, h2}
    MaxMessages = 2
    MaxAssignments = 2
    MaxFaults = 1
    TornWrites = FALSE
CHECK_DEADLOCK FALSE
PROPERTY
    EveryRequestDecided
