CONSTANTS
  Node = {n1, n2, n3}
  SH = {k1}
  Null = Null
  Rebind = FALSE
  SharedKeys = TRUE
  Session = {s1, s2}
  MaxId = 3
  Token = {0, 1}
  Types = {"NODE_REGISTER", "NODE_UNREGISTER", "NODE_BIND", "NODE_LISTEN", "NODE_CONNECT", "NODE_ACCEPT"}
  MaxInFlight = 1
  Object = {o1, o2}
  MaxToken = 1
  Unset = Unset
  Crash = TRUE
SPECIFICATION ClientSpec
SYMMETRY MCSymmetry
INVARIANTS ClientTypeOK NodesMatchHandles RepliesAwaited 
CHECK_DEADLOCK FALSE
