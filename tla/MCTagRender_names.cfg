SPECIFICATION Spec
CONSTANTS
  Peers = {p1, p2}
  Names = {n1}
  MaxTag = 1
  NoRow = NoRow
  NoParent = NoParent
  Pairs <- MCPairs
  Values <- OneValue
  MaxChanges = 2
SYMMETRY Symmetry
INVARIANT NamesFound
