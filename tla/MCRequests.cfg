CONSTANTS
  Parts = {"body", "choice", "account", "dropped account", "verdict", "two verdicts", "answer", "repair"}
  Case = "sound"
SPECIFICATION Spec
INVARIANTS RequestSafe AccountSafe VerdictSafe AnswerSafe
CHECK_DEADLOCK FALSE
