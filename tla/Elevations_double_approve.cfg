SPECIFICATION Spec
CONSTANTS
    e1 = e1
    e2 = e2
    r1 = r1
    r2 = r2
    r3 = r3
    Elevs = {e1, e2}
    Reqs = {r1, r2, r3}
    ElevOf <- ElevOfMC
    Kind <- KindMC
    BodyGrant <- BodyGrantMC
PROPERTIES
    ApprovesOnlyPending
