SPECIFICATION Spec
CONSTANTS
    Procs = {p1, p2}
    user = user
    nolimit = nolimit
    nowindow = nowindow
    Keys <- MCKeys
    Limit <- MCLimit
    Window <- MCWindow
    MaxTime = 5
    Nil = Nil
INVARIANTS
    TypeOK
    SingleTimeline
    WindowBound
    TimelineBound
PROPERTIES
    RefusalJustified
    ImplementsPort
