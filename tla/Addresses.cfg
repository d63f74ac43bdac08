SPECIFICATION MCSpec
CONSTANTS
    s1 = s1  s2 = s2  v1 = v1  g = g  x = x  w1 = w1  w2 = w2  host = host  other = other
    None = None  NoName = NoName  Global = g  Elsewhere = x
    Servers <- MCServers  Vrf <- InVrf  Reserving <- OneServer  Facts <- NamedOrNot
    Mode = "deprecate"  Actors = {w1, w2}  Orders <- EveryOrder  Moves <- EveryMove
    Edits = {"create", "release", "mark", "move", "delete", "refer", "barrier", "drop"}
    StartRows <- EveryStart  StartKea <- KeaLease  Rows = {1, 2, 3, 4}
    MaxOrders = 3  MaxMoves = 3  MaxEdits = 1  MaxFaults = 1
SYMMETRY Workers
INVARIANTS KeptWhileReported SettledAfterRounds
PROPERTIES RetiredWhenUnreported CuratedUntouched OneObjectPerIdentity
