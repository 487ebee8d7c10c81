SPECIFICATION MCSpec
CONSTANTS
  Loops = {"python"}
  Manifests = {"first", "second"}
  Executors = {"current", "multi"}
  MaxTasks = 3
  MaxBegun = 3
  MaxDepth = 2
INVARIANT FuturesAreKept
PROPERTY OwnResults
PROPERTY AwaitsReturn
CHECK_DEADLOCK FALSE
