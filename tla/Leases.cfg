SPECIFICATION MCSpec
CONSTANTS
    a1 = a1  a2 = a2  p1 = p1  c1 = c1  c2 = c2  n1 = n1  n2 = n2
    r1 = r1  r2 = r2  s1 = s1  i1 = i1  i2 = i2
    None = None  Keep = Keep  Infinite = Infinite  Global = Global
    Addresses = {a1, a2}  Pages = {p1}  Clients = {c1, c2}  Names = {n1, n2}  Lives = {1, 2, Infinite}
    Imports <- TwoRows  MaxKept = 1  MaxTime = 2  MaxClients = 2  MaxFaults = 1
INVARIANTS ReadsHold OffersAgree ClaimsRequested
PROPERTY WrittenAsSeen
CHECK_DEADLOCK FALSE
