SPECIFICATION MCSpec
CONSTANTS
  Foreign = {f1}
  MaxExecs = 3
  MaxCalls = 3
  MaxEntries = 4
  w1 = w1
  w2 = w2
  g1 = g1
  g2 = g2
  Procs = {w1, w2}
  Threads = {g1, g2}
  ProcessOf <- OneEach
  Units = {"good", "other", "bad"}
  Bad = {"bad"}
  Nobody = nobody
  CacheMaxArtifacts = 1
  MaxVersion = 1
  MaxUpsets = 1
  MaxBuilds = 2
INVARIANT LockIsAccounted
INVARIANT CallbacksReachTheirOwn
PROPERTY NothingIsCutOff
PROPERTY RunsEnd
PROPERTY BuildsKeepTheirOwn
PROPERTY BuildsReturn
CHECK_DEADLOCK FALSE
