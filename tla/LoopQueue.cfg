SPECIFICATION Spec
CONSTANTS
  Values = {v1, v2, v3}
  Size = 3
  MaxBatch = 3
  NoValue = NoValue
INVARIANTS
    Consistent
PROPERTIES
    ImplementsBoundedFifo
