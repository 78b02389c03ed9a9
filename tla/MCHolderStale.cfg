SPECIFICATION Spec
CONSTANTS
  r1 = r1
  r2 = r2
  r3 = r3
  a2a = a2a
  p1 = p1
  p2 = p2
  Requests <- MCRequests
  Refreshing <- MCRefreshing
  Probes <- MCProbes
SYMMETRY Symmetry
CHECK_DEADLOCK FALSE
INVARIANT TokenIsPassed
