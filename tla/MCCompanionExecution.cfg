\* Two assignments, two faults, one restore of an older data directory.
CONSTANTS
    a1 = a1
    a2 = a2
    None = None
    Assignments = {a1, a2}
    MaxFaults = 2
    MaxRestores = 1
SYMMETRY TwoAssignments
SPECIFICATION Spec
INVARIANTS
    AtMostOnePost
    NoLocalActionIsTrue
    PostedIsRemembered
    NeverTwiceInDoubt
PROPERTY
    CompanionKeepsPromise
CHECK_DEADLOCK FALSE
