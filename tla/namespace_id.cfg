CONSTANTS
  Callers = {p1, p2, p3}
  Namespaces = {n1, n2}
  Ids = {i1, i2, i3}
  NoId = NoId
  NoMap = NoMap
SPECIFICATION Spec
INVARIANTS IdInv AgreedID
SYMMETRY Symmetries
