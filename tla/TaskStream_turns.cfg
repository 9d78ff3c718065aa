SPECIFICATION FairSpec
CONSTANTS
    a = a
    b = b
    Tasks = {a, b}
    Ways <- MCWays
    MaxTokens = 1
    MaxInFlight = 1
    MaxFaults = 1
INVARIANTS
    TypeOK
    GateHeld
    AnswerKept
PROPERTIES
    PromiseKept
    WorkingStateKept
    InputReturns
CHECK_DEADLOCK FALSE
