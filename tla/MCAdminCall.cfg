SPECIFICATION Spec
CONSTANTS
    c1 = c1
    c2 = c2
    id = id
    NoId = NoId
    Callers <- MCCallers
    ClientIds = {id}
    Levels <- MCLevels
    MaxResends = 1
INVARIANTS
    TypeOK
    CommandEffect
    Traceable
CHECK_DEADLOCK FALSE
