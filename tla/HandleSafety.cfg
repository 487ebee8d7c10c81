\* Two threads, two handles of one scope with edges, a queue and a spill of one place each.
CONSTANTS
  t1 = t1
  t2 = t2
  s1 = s1
  Threads = {t1, t2}
  Scopes = {s1}
  MaxHandles = 2
  MaxRefs = 2
  MaxEdges = 1
  MaxDrain = 1
  MaxQueued = 3
  QueueCapacity = 1
  SpillLimit = 1
SPECIFICATION Spec
SYMMETRY ThreadSymmetry
INVARIANT ReleasedAtMostOnce
INVARIANT BooksBalance
PROPERTY SweepIsComplete
PROPERTY ImplementsLifetime
