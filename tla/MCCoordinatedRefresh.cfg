CONSTANTS
  p1 = p1
  p2 = p2
  Procs = {p1, p2}
  MaxRotations = 3
  MaxFaults = 3
  Hazards = {}
SPECIFICATION AnySpec
INVARIANTS TypeOK TokensSafe
PROPERTIES SuccessMeansLive JournalsHeal
