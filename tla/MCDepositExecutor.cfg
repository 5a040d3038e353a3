SPECIFICATION ExecutorSpec
CONSTANTS
    i1 = i1
    i2 = i2
    g1 = g1
    w1 = w1
    w2 = w2
    h1 = h1
    h2 = h2
    h3 = h3
    Intents <- MCIntents
    Agents <- MCAgents
    Workers <- MCWorkers
    References <- MCReferences
    None = None
    ObservationLimit = 2
    LeaseLimit = 1
    MaxRevisions = 1
    Revocable = {}
    Retirable = {}
    MaxFaults = 2
    MaxStrayCredits = 1
SYMMETRY Symmetric
CHECK_DEADLOCK FALSE
INVARIANTS
    LaneHeldWhileCreditMayLand
    OneHandOnTheAgent
    AtMostOnePost
    CancelledWasNeverPosted
PROPERTY
    KeepsPromise
