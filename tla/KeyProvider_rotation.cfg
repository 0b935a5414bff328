CONSTANTS
  Key = {k1, k2, k3, k4}
  Nil = Nil
  history_size = 1
  renew_interval = 2
  Modulus = 16
  Slack = 1
SPECIFICATION KPLiveSpec
INVARIANTS  ChainUnbroken
PROPERTIES KeptUntilLost KeysRotate
