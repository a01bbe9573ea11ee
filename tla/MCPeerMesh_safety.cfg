SPECIFICATION Spec
CONSTANTS
  Peers = {p1, p2}
  Running = {p1}
  Addrs = {a1}
  Sessions = {s1, s2}
  NoAddr = NoAddr
  Absent = Absent
  NoSession = NoSession
  RingCap = 1
  StreamCap = 1
  CtrlCap = 1
  OutCap = 1
  MaxChanges = 2
SYMMETRY Symmetry
INVARIANTS
  TypeOK
  QueuesBounded
  SessionsWellFormed
  NoLostUpdate
  NeverOwnNeighbour
