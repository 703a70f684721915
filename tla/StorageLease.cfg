CONSTANTS
  p1 = p1
  p2 = p2
  Procs = {p1, p2}
  STALE = 2
  PATIENCE = 4
  MaxTime = 5
SPECIFICATION Spec
INVARIANTS TypeOK ValidMeansOwner
PROPERTIES LiveLeaseNeverRemoved DeadHolderIsBroken
