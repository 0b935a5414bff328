CONSTANTS
  Node = {n1, n2, n3}
  SH = {k1}
  Null = Null
  Rebind = FALSE
  SharedKeys = FALSE
  Session = {s1, s2}
  MaxId = 2
  Token = {1}
  Types = {"NODE_REGISTER", "NODE_UNREGISTER"}
  MaxInFlight = 1
SPECIFICATION APISpec
SYMMETRY MCSymmetry
INVARIANT NoUseAfterDelete
CHECK_DEADLOCK FALSE
