SPECIFICATION FairSpec
CONSTANTS
  x = x
  y = y
  ActiveProxys <- TwoProxys
  Udp = {}
  MinTimeoutInvoke = 1
  CheckTimeoutInterval = 0
  FrequenceFailInvoke = 2
  MinFrequenceFailTime = 0
  TryTimeInterval = 1
  MaxConnectExc = 1
  ConnectThrows = FALSE
  KeepAlive = FALSE
  Siblings = FALSE
  Reconnect = FALSE
  MaxInvoke = 2
  MaxReconnects = 1
PROPERTIES
  EveryoneServed
  ShieldedRetried
