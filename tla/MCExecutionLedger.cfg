SPECIFICATION Spec
CONSTANTS
    i1 = i1
    i2 = i2
    g1 = g1
    g2 = g2
    h1 = h1
    h2 = h2
    Intents <- MCIntents
    Agents <- MCAgents
    References <- MCReferences
    None = None
    ObservationLimit = 3
    LeaseLimit = 2
    MaxRevisions = 2
    Revocable <- MCIntents
    Retirable <- MCAgents
SYMMETRY Symmetric
CHECK_DEADLOCK FALSE
INVARIANTS
    TypeOK
    LaneSerialized
    StatusesCorrespond
    OnlyCurrentRevisionAtWork
    NoStrandedObservation
PROPERTIES
    HandoffIsFinal
    StopIsFinal
