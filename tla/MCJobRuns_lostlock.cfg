SPECIFICATION Spec
CONSTANTS
  p1 = p1
  p2 = p2
  Procs = {p1, p2}
  MaxTroubles = 1
  MaxLosses = 1
CHECK_DEADLOCK FALSE
INVARIANTS
  SentOnce
