SPECIFICATION FairExecutorSpec
CONSTANTS
    i1 = i1
    i2 = i2
    g1 = g1
    w1 = w1
    w2 = w2
    h1 = h1
    h2 = h2
    h3 = h3
    Intents = {i1}
    Agents <- MCAgents
    Workers <- MCWorkers
    References = {h1, h2}
    None = None
    ObservationLimit = 2
    LeaseLimit = 2
    MaxRevisions = 2
    Revocable = {}
    Retirable = {}
    MaxFaults = 1
    MaxStrayCredits = 0
CHECK_DEADLOCK FALSE
PROPERTIES
    FencedSettles
    PreparedMovesOn
