CONSTANTS
  Node = {n1, n2}
  SH = {k1}
  Null = Null
  Rebind = FALSE
  SharedKeys = FALSE
  Session = {s1, s2}
  MaxId = 2
  Token = {0, 1}
  Types = {"NODE_REGISTER", "NODE_UNREGISTER", "NODE_BIND", "NODE_LISTEN"}
  MaxInFlight = 1
  Object = {o1}
  MaxToken = 1
  Unset = Unset
  Crash = FALSE
SPECIFICATION ClientLiveSpec
INVARIANT NeverInconsistent
 
CHECK_DEADLOCK FALSE
