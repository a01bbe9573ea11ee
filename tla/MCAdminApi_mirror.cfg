SPECIFICATION Spec
CONSTANTS
  Peers = {p1}
  Names = {n1}
  MaxTag = 0
  NoRow = NoRow
  NoParent = NoParent
  Requests = {r1, r2}
  Faulty = FALSE
INVARIANT RegisterFollowsDb
