SPECIFICATION Spec
CONSTANTS
  Ptrs = {p1, p2}
  MaxId = 3
  Horizon = 2
SYMMETRY PtrSymmetry
INVARIANTS
    Consistent
PROPERTIES
    ImplementsCallStore
