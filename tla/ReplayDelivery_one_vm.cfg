SPECIFICATION Spec
CONSTANTS
    c1 = c1
    c2 = c2
    m1 = m1
    m2 = m2
    Conns = {c1, c2}
    Msgs = {m1, m2}
    Keys <- OneVm
    Dest <- DestPair
    NoConn = NoConn
    NoKey = NoKey
SYMMETRY ConnMsgSymmetry
INVARIANTS
    PrefixDelivered
    MarkedWasWritten
PROPERTIES
    ImplementsOutbox
