\* Callers and loops are fair; a waiting task and its goroutine.
CONSTANTS
  s1 = s1
  s2 = s2
  None = None
  SyncTasks = {s1, s2}
  AsyncTasks = {}
  Spawned = {s2}
  Loops = {"top", "install", "host"}
  MayPanic = FALSE
  TaskCapacity = 1
  FastCapacity = 1
SPECIFICATION FairSpec
PROPERTY ImplementsGoldenThread
PROPERTY NobodyWaitsForEver
CHECK_DEADLOCK FALSE
