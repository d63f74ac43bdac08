SPECIFICATION MCSpec
CONSTANTS
    t1 = t1  e1 = e1  e2 = e2  w1 = w1  w2 = w2
    v1 = v1  v2 = v2  s1 = s1  s2 = s2  c1 = c1  c2 = c2  d1 = d1  d2 = d2  d3 = d3  p1 = p1  DHCPServer = DHCPServer
    g4 = g4  g6 = g6  h6 = h6  s6 = s6  i1 = i1  i2 = i2  Global = Global
    mt1 = mt1  mt2 = mt2  m1 = m1  m2 = m2  me1 = me1  None = None
    Targets = {t1}  Endpoints = {e1, e2}  Workers = {w1, w2}  Kinds = {"import", "edit", "delete"}  MaxOps = 3
INVARIANTS ShownWhenAlone PrefixKept MappingsHold KeyWaitsAlone
PROPERTIES WholeAndApart NewerMainKept ProtectedUnderKey
CHECK_DEADLOCK FALSE
