CONSTANTS
  Node = {n1, n2, n3}
  SH = {k1, k2}
  Null = Null
  Rebind = TRUE
  SharedKeys = FALSE
  Session = {s1, s2}
  MaxId = 3
  Token = {1}
  Types = {"NODE_REGISTER", "NODE_UNREGISTER", "NODE_BIND", "NODE_LISTEN", "SOCKET_UNREGISTER"}
  MaxInFlight = 1
SPECIFICATION APISpec
SYMMETRY MCSymmetry
INVARIANTS SessionsOwnLiveNodes DBConsistent NextIdIsLeastFree
PROPERTIES DBSpec OrphanedOnlyByDrop HandsOutLeastIds
CHECK_DEADLOCK FALSE
