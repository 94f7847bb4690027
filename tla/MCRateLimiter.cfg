SPECIFICATION Spec
CONSTANTS
    addr = addr
    white = white
    black = black
    junk = junk
    Procs = {p1, p2}
    Logins = {u}
    Passwords = {empty}
    Ips = {addr, white, black}
    BadIps = {junk}
    Policy <- MCPolicy
    LimitOf <- MCLimitOf
    CfgWindow = 2
    MaxTime = 2
    MaxGrants = 2
    Nil = Nil
SYMMETRY Symmetry
INVARIANTS
    TypeOK
    PassedWithinLimits
