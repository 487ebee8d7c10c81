SPECIFICATION FairSpec
CONSTANTS
  c1 = c1
  c2 = c2
  Calls <- TwoCalls
  Menu <- TwoMenus
  Closers = {k1}
  py = py
  js = js
  RegOrder <- Order
  Deaf = {js}
  NoRuntime = NoRuntime
  NoCall = NoCall
  Capacity = 1
  TaskTimed = TRUE
  DrainTimed = TRUE
  MaxInits = 1
  Items = 2
INVARIANT NoCodeInDeadRuntimes
INVARIANT TimeoutHitsItsTask
PROPERTY TeardownIsOrdered
PROPERTY EverybodyReturns
CHECK_DEADLOCK FALSE
