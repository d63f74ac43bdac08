SPECIFICATION MCSpec
CONSTANTS
    w1 = w1  w2 = w2  s1 = s1  s2 = s2  i1 = i1  i2 = i2  i3 = i3  i4 = i4
    op1 = op1  op2 = op2  n1 = n1  n2 = n2  net1 = net1  v0 = v0  v1 = v1  Outside = Outside
    r1 = r1  r2 = r2  r3 = r3  a1 = a1  a2 = a2  Global = Global
    None = None  Workers = {w1, w2}  Servers = {s1, s2}  Slots = {i1, i2, i3, i4}  Intervals = {5, 10}
    MaxFaults = 1  MaxCrashes = 0  MaxKills = 1  MaxRaces = 0  MaxSaves = 2
INVARIANT RunsHold
PROPERTIES PeriodicRunsGoOn EveryChangeEnds LookupsEnd
CHECK_DEADLOCK FALSE
