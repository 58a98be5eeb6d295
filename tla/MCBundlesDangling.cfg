SPECIFICATION Spec
CONSTANTS
  b1 = b1
  b2 = b2
  x = x
  y = y
  Bundles <- MCBundleSet
  Ptrs <- MCPtrs
  InitBundle <- MCInitBundle
  Updates <- MCUpdates
  NoPtr = NoPtr
  NoBundle = NoBundle
  NumProcs = 2
  Updaters = {1}
  Queriers = {1, 2}
  Getters = {}
  Cleanup = TRUE
  InitClock = 2
  Pending = 99
  MaxClock = 4
INVARIANTS
  NoDanglingRead
