SPECIFICATION Spec
CONSTANTS
    net = net
    other = other
    bad = bad
    addr = addr
    Ips = {addr}
    Valid <- MCValid
    Covers <- MCCovers
    None = None
    Cidrs = {net, other}
    Admins = {a1}
    Checkers = {q}
INVARIANT EveryCheckRight
CHECK_DEADLOCK FALSE
