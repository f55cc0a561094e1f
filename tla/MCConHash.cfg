SPECIFICATION Spec
CONSTANTS
  Nodes = {n1, n2, n3}
  None = None
  N = 2
  MaxReplicas = 2
  H = 4
  MallocFails = TRUE
SYMMETRY Symmetry
INVARIANTS
  TypeOK
  RingExact
  LookupIsNearest
PROPERTIES
  MinimalDisruption
