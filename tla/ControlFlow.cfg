SPECIFICATION Spec
CONSTANTS
  ch = ch
  Channels = {ch}
  MaxIterations = 2
  MaxDepth = 5
  MaxOps = 6
INVARIANT EverythingIsClosed
PROPERTY SignalsArrive
CHECK_DEADLOCK FALSE
