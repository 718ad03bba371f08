SPECIFICATION Spec
CONSTANTS
  x = x
  y = y
  ActiveProxys <- TwoProxys
  Udp = {y}
  MinTimeoutInvoke = 1
  CheckTimeoutInterval = 0
  FrequenceFailInvoke = 2
  MinFrequenceFailTime = 1
  TryTimeInterval = 1
  MaxConnectExc = 1
  ConnectThrows = TRUE
  KeepAlive = TRUE
  Siblings = TRUE
  Reconnect = TRUE
  MaxInvoke = 2
  MaxReconnects = 1
INVARIANTS
    FlagsAgree
    PrefersConnected
PROPERTIES
    NoEarlyRetry
