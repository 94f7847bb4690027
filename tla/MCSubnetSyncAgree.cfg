SPECIFICATION Spec
CONSTANTS
    net = net
    bad = bad
    addr = addr
    Empty = Empty
    Cidrs <- MCCidrs
    Valid <- MCValid
    Ips = {addr}
    Covers <- MCCovers
    Instances = {i1, i2}
    MaxWrites = 2
    MaxFaults = 0
INVARIANT InstancesAgree
CHECK_DEADLOCK FALSE
