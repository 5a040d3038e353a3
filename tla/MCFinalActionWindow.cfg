SPECIFICATION WindowSpec
CONSTANTS
    Window = 3
    Checks = 2
    Expiries <- MCExpiries
    Skews <- MCSkews
    Steps <- MCSteps
    MaxClock = 7
    MaxSteps = 2
    MaxSlept = 2
CHECK_DEADLOCK FALSE
PROPERTY
    PostInTime
