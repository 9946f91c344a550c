SPECIFICATION FairSpec
CONSTANTS
    c1 = c1
    c2 = c2
    d1 = d1
    e1 = e1
    server = server
    world = world
    acc1 = acc1
    acc2 = acc2
    coming = coming
    joining = joining
    leaving = leaving
    other = other
    between = between
    inside = inside
    six = six
    Flows = {coming, joining, leaving, other, between, inside}
    Addrs <- AllAddrs
    Junk = junk
    From <- Sources
    To <- Targets
    V6 = {}
    Exclusions <- LocalNets
    Gates <- AllGates
    Details = {"addr", "gate", "acc", "accaddr"}
    UInt = 3
    MaxLines = 3
    MaxBytes = 2
CHECK_DEADLOCK FALSE
INVARIANTS ChargedToAccount
PROPERTIES Ends
