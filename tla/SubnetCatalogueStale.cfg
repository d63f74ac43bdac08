SPECIFICATION Spec
CONSTANTS
    None = None
    Unknown = Unknown
    n1 = n1
    w1 = w1
    w2 = w2
    d1 = d1
    d2 = d2
    c1 = c1
    c2 = c2
    MaxId = 2
    Networks = {w1, w2}
    Names = {n1}
    Displays = {d1, d2}
    Scopes = {}
    Syncs = {}
    Changes = {c1}
    Effect <- StaleEffects
    AdminEffects <- PageAdmin
    InitialSubnets <- PageSubnets
    HasHook = TRUE
    SendsMembership = TRUE
    Budget <- StaleBudget
SYMMETRY Symmetry
INVARIANTS
    ServedAfterChanges
