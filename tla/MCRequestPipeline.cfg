CONSTANTS
  a1 = a1
  a2 = a2
  m1 = m1
  m2 = m2
  Requests = {r1}
  Accounts = {a1, a2}
  Login <- OneLogin
  Chain <- Cycle
  Family <- OneFamily
  FirstModel = m1
  Plans <- EachPlan
  MaxAuthFailures = 2
  MaxSwitches = 1
  MaxEmpties = 1
  WaitUnit = 2
  TokenCap = 1
  MaxChanges = 1
  HostStoreFails = TRUE
SPECIFICATION FairSpec
PROPERTY EveryFetchEnds
CHECK_DEADLOCK FALSE
