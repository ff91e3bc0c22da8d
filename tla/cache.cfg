\* a default capacity above the constructor's, and more keys than either
CONSTANTS
  Keys = {k1, k2, k3, k4}
  Values = {v1, v2}
  Nodes = {n1, n2, n3, n4}
  END = END
  Capacity = 2
  DefaultCapacity = 3
SPECIFICATION Spec
SYMMETRY Symmetry
INVARIANTS
  ListMapAgree
  ResultValid
PROPERTIES
  IsLRU
