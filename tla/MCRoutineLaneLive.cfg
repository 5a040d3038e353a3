SPECIFICATION FairSpec
CONSTANTS
    i1 = i1
    i2 = i2
    p1 = p1
    p2 = p2
    None = None
    Intents = {i1, i2}
    Players = {p1, p2}
    PlayerOf <- OfTwoPlayers
    MaxLate = 0
    MaxCrashes = 2
INVARIANTS
    PageIsOwn
    ExecutedIsCredited
PROPERTY
    EveryDepositSettles
