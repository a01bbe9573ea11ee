SPECIFICATION Spec
CONSTANTS
  Peers = {p1}
  Names = {n1, n2}
  MaxTag = 2
  NoRow = NoRow
  NoParent = NoParent
  Requests = {r1, r2}
  Faulty = TRUE
SYMMETRY Symmetry
INVARIANTS
  StoreTypeOK
  Hierarchy
  NoDangling
  SettledAgree
