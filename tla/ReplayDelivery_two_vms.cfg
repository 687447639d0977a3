SPECIFICATION Spec
CONSTANTS
    c1 = c1
    c2 = c2
    m1 = m1
    m2 = m2
    Conns = {c1, c2}
    Msgs = {m1, m2}
    Keys <- TwoVms
    Dest <- DestTwo
    NoConn = NoConn
    NoKey = NoKey
SYMMETRY ConnSymmetry
INVARIANTS
    TypeOK
    BoundIsLive
    VmScoped
    NothingForgotten
PROPERTIES
    BindingStable
