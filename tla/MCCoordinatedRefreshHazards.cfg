CONSTANTS
  p1 = p1
  p2 = p2
  Procs = {p1, p2}
  MaxRotations = 3
  MaxFaults = 2
  Hazards = {"lease_loss", "unreadable_journal"}
SPECIFICATION Spec
SYMMETRY ProcSymmetry
INVARIANT AdoptedTokenIsNewer
PROPERTIES TokensNeverRegress JournalNotClobbered
