\* Every loop, nested waits, shutdown and cancelled contexts.
CONSTANTS
  s1 = s1
  s2 = s2
  a1 = a1
  None = None
  SyncTasks = {s1, s2}
  AsyncTasks = {a1}
  Spawned = {s2}
  Loops = {"top", "install", "host"}
  MayPanic = TRUE
  TaskCapacity = 1
  FastCapacity = 1
SPECIFICATION Spec
INVARIANT AnswersAreTrue
INVARIANT QueuedTasksAreSignalled
INVARIANT FastIsOvertakenAtMostOnce
CHECK_DEADLOCK FALSE
