SPECIFICATION Spec
CONSTANTS
    net = net
    other = other
    bad = bad
    addr = addr
    Ips = {addr}
    Valid <- MCValid
    Covers <- MCCovers
    None = None
    Cidrs = {net, bad}
    Admins = {a1, a2}
    Checkers = {q}
SYMMETRY Symmetry
INVARIANTS
    TypeOK
    SoloFresh
    ReplyHonest
    CalmCheckRight
    OverlapBounded
CHECK_DEADLOCK FALSE
