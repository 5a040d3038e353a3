SPECIFICATION Spec
CONSTANTS
    i1 = i1
    i2 = i2
    p1 = p1
    p2 = p2
    None = None
    Intents = {i1, i2}
    Players = {p1, p2}
    PlayerOf <- OfOnePlayer
    MaxLate = 2
    MaxCrashes = 1
INVARIANTS
    NeverPaidTwice
    OneDoubtPerPlayer
SYMMETRY Exchange
PROPERTIES
    TransferOnlyInDoubt
    LaneKeepsPromise
