SPECIFICATION FairSpec
CONSTANTS
    e1 = e1
    r1 = r1
    c1 = c1
    c2 = c2
    Elevs = {e1}
    Reqs = {r1}
    Conns = {c1}
    Keys <- OneVm
    VmOf <- VmOfMC
    ElevOf <- ElevOfMC
    Kind <- KindMC
    BodyGrant <- BodyGrantMC
    NoConn = NoConn
    NoKey = NoKey
PROPERTIES
    ApprovalEnds
