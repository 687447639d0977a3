SPECIFICATION Spec
CONSTANTS
    c1 = c1
    c2 = c2
    m1 = m1
    m2 = m2
    Conns = {c1, c2}
    Msgs = {m1}
    Keys <- OneVm
    Dest <- DestSolo
    NoConn = NoConn
    NoKey = NoKey
INVARIANTS
    QueueEmptyAfterAck
