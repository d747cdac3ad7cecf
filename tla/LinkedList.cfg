SPECIFICATION Spec
CONSTANTS
  Node = {n1, n2, n3, n4}
  Object = {o1, o2, o3}
  NULL = NULL
SYMMETRY Symmetry
INVARIANTS TypeOK WellLinked
PROPERTIES ImplementsList
