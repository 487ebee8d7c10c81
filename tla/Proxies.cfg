\* Two guests, one Go value that can be reached through two runtimes, one job.
CONSTANTS
  py = py
  js = js
  o1 = o1
  None = None
  Guests = {py, js}
  Untagged = {py}
  Objects = {o1}
  Owners = {"go", "ruby"}
  Jobs = {2}
  JobGuests = {py}
  MaxHandles = 2
  MaxDepth = 1
  MaxPending = 1
SPECIFICATION FairSpec
INVARIANT ReferencesAreOwned
INVARIANT OwnedProxiesAreLive
INVARIANT IdentityIsKept
PROPERTY UnusedIsReleased
