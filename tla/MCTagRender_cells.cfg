SPECIFICATION Spec
CONSTANTS
  Peers = {p1, p2}
  Names = {n1}
  MaxTag = 1
  NoRow = NoRow
  NoParent = NoParent
  Pairs <- MCPairs
  Values <- MCValues
  MaxChanges = 1
SYMMETRY Symmetry
INVARIANTS
  TypeOK
  CellsSummarise
  OutStaysOut
