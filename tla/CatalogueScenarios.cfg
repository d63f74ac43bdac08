SPECIFICATION MCSpec
CONSTANTS
    None = None
    Unknown = Unknown
    n1 = n1
    w1 = w1
    w2 = w2
    d1 = d1
    d2 = d2
    c1 = c1
    c2 = c2
    MaxId = 2
    Networks = {w1, w2}
    Names = {n1}
    Displays = {d1, d2}
    Scopes = {scope}
    Syncs = {sync}
    Changes = {c1, c2}
    Effect <- PageEffects
    AdminEffects <- AllAdmin
    InitialSubnets <- AllSubnets
    HasHook = TRUE
    SendsMembership = TRUE
    Budget <- AllBudget
SYMMETRY Symmetry
INVARIANTS
    ServedAfterChanges
    CompleteIsLive
    CreatesOnFreeIdentity
