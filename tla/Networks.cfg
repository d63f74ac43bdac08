SPECIFICATION MCSpec
CONSTANTS
    s1 = s1  s2 = s2  w1 = w1  w2 = w2  None = None
    Servers <- TwoServers  Sources <- AllSources  Lengths = {24, 25}  Deprecating <- OneServer
    Actors = {w1, w2}  Orders <- EveryOrder  Moves <- EveryMove
    Edits = {"create", "release", "mark", "delete", "refer", "barrier", "drop"}
    StartNets <- EveryStart  StartKea <- KeaEmpty
    MaxOrders = 3  MaxMoves = 2  MaxEdits = 2  MaxFaults = 1
SYMMETRY Workers
INVARIANTS KeptWhileReported MarkerShowsOwners SettledAfterRounds
PROPERTIES AdoptionWaitsOnce
