SPECIFICATION FairSpec
CONSTANTS
    c1 = c1
    c2 = c2
    Calls <- MCCalls
INVARIANTS
    TypeOK
    ExitExplained
    NoneLeftRunning
PROPERTY Stops
CHECK_DEADLOCK FALSE
