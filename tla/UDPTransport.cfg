CONSTANTS
  Conn = {c1, c2}
  Endpoint = {e1}
  Timeout = 2
  outgoing_only = FALSE
  MaxReady = 1
  Null = Null
SPECIFICATION UDPSpec
INVARIANTS RegisteredServed
PROPERTIES ExpiresAfterSilence SilentPeersDropped KeepalivesContinue
CHECK_DEADLOCK FALSE
