SPECIFICATION MCSpec
CONSTANTS
    r1 = r1  r2 = r2  p1 = p1  p2 = p2  a1 = a1  a2 = a2  o1 = o1
    None = None  Unknown = Unknown  Labels <- Letters  Lowered <- LowerCase
    Ids = {r1, r2}  Pages = {p1, p2}  Addresses = {a1, a2}  PoolAddresses = {a2}
    Hostnames <- AllHostnames  Entered <- AllEntered  OptionData = {o1}  Suffixes <- AllSuffixes
    Documents <- AllDocuments  MaxKea = 1  MaxDns = 1  MaxFaults = 1
SYMMETRY Interchangeable
INVARIANTS ImportStops TraversalsHold
PROPERTIES EditKeepsTheRest PublishesTheName
CHECK_DEADLOCK FALSE
