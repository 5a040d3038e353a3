SPECIFICATION Spec
CONSTANTS
    c1 = c1
    c2 = c2
    p1 = p1
    p2 = p2
    h1 = h1
    h2 = h2
    None = None
    Torn = Torn
    Customers = {c1}
    Players = {p1, p2}
    Shown = {p1, p2}
    Handlers = {h1, h2}
    MaxMessages = 3
    MaxAssignments = 2
    MaxFaults = 2
    TornWrites = TRUE
CHECK_DEADLOCK FALSE
INVARIANTS
    OneActive
    FindNotRepeated
    ResultKeptUntilDecided
PROPERTIES
    SignedIsKept
    ChoiceIsVerified
SYMMETRY PlayersAndHandlers
