CONSTANTS
  Daemon = {d1, d2, r1}
  Client = {c1}
  System = {r1}
  Confined = {}
  Directory <- MCDirectory
  OpenToAll = TRUE
  Null = Null
SPECIFICATION StartupSpec
INVARIANTS ConnectsToFirst RacingStartsServe
PROPERTIES RestartServes
CHECK_DEADLOCK FALSE
