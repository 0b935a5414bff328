CONSTANTS
  Conn = {c1, c2}
  Address = {h1}
  Port = {p1}
  Endpoint <- MCEndpoint
  SizeOf <- MCSizeOf
  Bootstrap <- MCBootstrap
  MaxConnecting = 1
  Timeout = 1
  outgoing_only = FALSE
  MaxReady = 1
  Null = Null
SPECIFICATION DiscoverySpec
INVARIANTS RegisteredServed
 
CHECK_DEADLOCK FALSE
