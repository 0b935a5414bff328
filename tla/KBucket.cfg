CONSTANTS
  a = a
  d = d
  e = e
  DHTNode = {a, d, e}
  HashOf <- MCHashOf
  OwnHash <- MCOwnHash
  Target <- MCTarget
  Peer = {p1}
  alpha = 3
  Bits = 4
  k = 2
  MaxLeaf = 3
  Null = Null
SPECIFICATION DHTSpec
INVARIANTS DHTTypeOK PlacedByPrefix
PROPERTIES OverfullOnlyByForce NodesKept ForcedIsStored AddReturns
CHECK_DEADLOCK FALSE
