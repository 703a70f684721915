CONSTANTS
  m1 = m1
  m2 = m2
  Managers = {m1, m2}
  MaxTime = 3
  Budgets <- PassBudgets
  Hazards = {}
SPECIFICATION Spec
SYMMETRY ManagerSymmetry
INVARIANT RecordsSafe
PROPERTIES CredentialsNeverRegress MembershipRespected BlocksRespected
CHECK_DEADLOCK FALSE
