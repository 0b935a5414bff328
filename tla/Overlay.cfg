CONSTANTS
  Conn = {c1, c2}
  TH = {h1, h2}
  Transport = {t1}
  Call = {f1, f2}
  Timeout = 2
  Null = Null
SPECIFICATION OverlaySpec
INVARIANTS NeverToldEarly  WaitsOnLiveConnection
PROPERTIES DroppedOnlyBySuccessor WaitsEnd
CHECK_DEADLOCK FALSE
