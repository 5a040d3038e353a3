\* Nothing fails: what the device is told of an attempt nobody saw.
CONSTANTS
    a1 = a1
    a2 = a2
    None = None
    Assignments = {a1, a2}
    MaxFaults = 0
    MaxRestores = 0
SPECIFICATION Spec
INVARIANTS
    AbsenceIsNotFailure
CHECK_DEADLOCK FALSE
