SPECIFICATION Spec
CONSTANTS
    user = user
    p1 = p1
    p2 = p2
    Procs <- MCProcs
    Keys = {user}
    Limit <- MCLimit
    Window <- MCWindow
    Suffixes = {1, 2}
    Skew <- MCSkew
    MaxSkew = 1
    MaxResends = 1
    MaxGrants = 2
    MaxTime = 4
    Nil = Nil
INVARIANTS
    TypeOK
    RecentStored
PROPERTY ImplementsPort
