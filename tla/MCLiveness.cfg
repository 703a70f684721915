CONSTANT Parts = {"guard", "line", "prompt", "flow", "answer"}
SPECIFICATION Spec
PROPERTIES ReadingsSettle WaitsEnd
CHECK_DEADLOCK FALSE
