SPECIFICATION Spec
CONSTANTS
  s1 = s1
  s2 = s2
  a1 = a1
  n1 = n1
  o1 = o1
  Sync = {s1, s2}
  Async = {a1}
  NetAsync = {n1}
  OneWay = {o1}
  Ping = {}
  Hash = {s1}
  Adapters = {x, y}
  NoMsg = NoMsg
  NoAdapter = NoAdapter
  Modes <- SafetyModes
SYMMETRY AdapterSymmetry
INVARIANTS
    OneOwner
    AnswersOwnRequest
    NoStall
    SendOrderKept
PROPERTIES
    ImplementsContract
