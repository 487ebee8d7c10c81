SPECIFICATION WatchdogFairSpec
CONSTANTS
  Guests = {js, py}
  Others = {}
  RuntimeNone = none
  HostRuntime = py
  Timeouts = {1, 2}
  TaskTimeout = 1
  Kinds = {"task", "call", "cli"}
  MaxArms = 2
  MaxDepth = 2
  MaxStarts = 2
INVARIANT NestingIsKept
PROPERTY NothingHangs
PROPERTY FiresAsArmed
CHECK_DEADLOCK FALSE
