SPECIFICATION FairSpec
CONSTANTS
  s1 = s1
  s2 = s2
  a1 = a1
  n1 = n1
  o1 = o1
  Sync = {s1}
  Async = {a1}
  NetAsync = {}
  OneWay = {}
  Ping = {p1}
  Hash = {s1}
  Adapters = {x}
  NoMsg = NoMsg
  NoAdapter = NoAdapter
  Modes <- LiveModes
INVARIANTS
    CallsHeld
PROPERTIES
    SyncCallReturns
    AsyncOnAdapterCalledBack
