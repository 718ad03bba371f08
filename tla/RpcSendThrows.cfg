SPECIFICATION FairSpec
CONSTANTS
  s1 = s1
  s2 = s2
  a1 = a1
  n1 = n1
  o1 = o1
  Sync = {s1}
  Async = {}
  NetAsync = {}
  OneWay = {}
  Ping = {}
  Hash = {}
  Adapters = {x}
  NoMsg = NoMsg
  NoAdapter = NoAdapter
  Modes <- ThrowModes
PROPERTY
  SyncCallReturns
