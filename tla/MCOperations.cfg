CONSTANTS
  Parts = {"store", "wipe", "edit", "shared edit", "match", "flow", "check", "raced check", "disturbed check", "install", "update", "update beside a checkout"}
  Case = "sound"
SPECIFICATION Spec
INVARIANTS StoresSafe LoginsSafe ChecksSafe PluginSafe
PROPERTY NothingLost
CHECK_DEADLOCK FALSE
