CONSTANTS
  c1 = c1
  c2 = c2
  p1 = p1
  Clients <- MCClients
  Names <- MCNames
  MaxRequests = 4
  Absent = Absent
SPECIFICATION Spec
SYMMETRY Symmetry
CHECK_DEADLOCK FALSE
INVARIANTS DeployDetermines
