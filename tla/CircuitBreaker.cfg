CONSTANTS
  r1 = r1
  r2 = r2
  r3 = r3
  Requests = {r1, r2, r3}
  FailureThreshold = 3
  FailureWindow = 4
  ResetTimeout = 2
  HalfOpenMaxAttempts = 1
SPECIFICATION FairSpec
INVARIANTS TypeOK OneFreshProbe
PROPERTIES CooldownIsFixed ImplementsGate GateReopens
