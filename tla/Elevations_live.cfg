SPECIFICATION FairSpec
CONSTANTS
    e1 = e1
    e2 = e2
    r1 = r1
    r2 = r2
    r3 = r3
    Elevs = {e1}
    Reqs = {r1, r2}
    ElevOf <- ElevOfOne
    Kind <- KindOne
    BodyGrant <- BodyGrantOne
PROPERTIES
    DueElevationSettles
