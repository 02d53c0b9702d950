SPECIFICATION Spec
CONSTANTS
  r1 = r1
  r2 = r2
  c1 = c1
  c2 = c2
  NoCall = NoCall
  Requests = {r1, r2}
  Clients = {c1, c2}
  Limit = 2
  WindowLength = 2
  CleanupSize = 2
  MaxDelay = 1
  MaxTime = 5
SYMMETRY MCSymmetry
INVARIANTS
  SlidingBound
