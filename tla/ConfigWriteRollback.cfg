SPECIFICATION Spec
CONSTANTS
    None = None
    Outside = Outside
    a = a
    b = b
    n1 = n1
    n2 = n2
    w1 = w1
    w2 = w2
    p1 = p1
    d1 = d1
    v0 = v0
    v1 = v1
    Ops = {a, b}
    MaxId = 1
    Networks = {w1, w2}
    Names = {n1, n2}
    Pools = {p1}
    Definitions = {d1}
    Values = {v0, v1}
    Empty = v0
    PersistConfig = TRUE
    InitialConfigs <- RollbackConfigs
    Requests <- RollbackRequests
    AdminCommands <- RollbackAdmin
    Budget <- RollbackBudget
PROPERTIES
    RollbackSparesOthers
