CONSTANTS
  Parts = {"queue", "cache", "alerts", "two alerts", "guard", "line", "switched line", "host prompt", "codex prompt", "file", "held file", "joined file",
           "pool line", "moved pool", "shared lock", "lone lock", "policy", "two policies", "monitor", "wide monitor"}
  Case = "sound"
SPECIFICATION Spec
INVARIANTS SharedSafe QuotaSafe ReadingsSafe
CHECK_DEADLOCK FALSE
