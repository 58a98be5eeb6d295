SPECIFICATION FairSpec
CONSTANTS
  b1 = b1
  b2 = b2
  x = x
  y = y
  Bundles <- MCBundleSet
  Ptrs <- MCPtrs
  InitBundle <- MCInitBundle
  Updates <- MCUpdates
  NoPtr = NoPtr
  NoBundle = NoBundle
  NumProcs = 3
  Updaters = {1, 2}
  Queriers = {3}
  Getters = {3}
  Cleanup = FALSE
  InitClock = 2
  Pending = 99
  MaxClock = 4
INVARIANTS
  TypeOK
  BundleOrder
  LabelsReached
  ReadsSnapshot
PROPERTIES
  PastIsSettled
  ImplementsStore
  ReadReturns
  UpdateReturns
