SPECIFICATION FairSpec
CONSTANTS
  Workers = {w1, w2}
  Main = main
  Sizes = {0, 1}
  Modes = {TRUE, FALSE}
  Batch = 2
  MaxOps = 4
  MaxValues = 3
INVARIANT ValuesAreKept
INVARIANT PanicNeedsRace
PROPERTY LiveStreamsStay
PROPERTY WaitsReturn
CHECK_DEADLOCK FALSE
