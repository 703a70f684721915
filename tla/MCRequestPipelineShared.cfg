CONSTANTS
  a1 = a1
  a2 = a2
  m1 = m1
  m2 = m2
  Requests = {r1, r2}
  Accounts = {a1, a2}
  Login <- OneLogin
  Chain <- NoChain
  Family <- OwnFamily
  FirstModel = m1
  Plans <- OnlyBackoff
  MaxAuthFailures = 2
  MaxSwitches = 1
  MaxEmpties = 1
  WaitUnit = 2
  TokenCap = 1
  MaxChanges = 1
  HostStoreFails = FALSE
SPECIFICATION Spec
SYMMETRY Symmetric
PROPERTIES AutoDisableJustified PoolAnswerMeansPoolTried
CHECK_DEADLOCK FALSE
