SPECIFICATION Spec
CONSTANTS
  Proc = {a, b}
  Node = {n1, n2, n3, n4}
  NULL = NULL
  Data = Data
  Batch = 2
  ValueCAS = FALSE
SYMMETRY Symmetric
INVARIANTS ListExact OnePlace
PROPERTY ImplementsFreeList
