SPECIFICATION Spec
CONSTANTS
  b1 = b1
  b2 = b2
  b3 = b3
  k1 = k1
  k2 = k2
  k3 = k3
  i1 = i1
  NULL = NULL
  Blocks = {b1, b2, b3}
  Keys = {k1, k2, k3}
  Buckets = {i1}
  Hash <- OneBucket
  EraseCount = 1
  MaxCount = 7
  Modes <- HashModes
  Addr <- HashAddr
  Value <- HashValue
  Groups <- HashGroups
  Links <- HashLinks
  Words <- HashWords
SYMMETRY Symmetry
INVARIANTS
    MapSound
    CountsDrift
    RoundsCover
PROPERTIES
    LogSpec
    AllOrNothing
