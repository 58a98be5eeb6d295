SPECIFICATION FairListSpec
CONSTANTS
  Bundles <- MCNodes
  Ptrs <- MCNodes
  InitBundle <- ListOf2
  InitKey <- KeysOf2
  InitClock = 3
  HeadNode = 1
  MaxNode = 5
  NoPtr = 0
  NoBundle = 0
  NumProcs = 3
  Updaters = {1, 2, 3}
  Queriers = {1, 2, 3}
  Getters = {1, 2, 3}
  Updates <- MCUpdates
  Cleanup = FALSE
  Pending = 99
  MaxClock = 50
  Clients = {1, 2, 3}
  SetKeys <- MCKeys
  Workloads <- ListWorkloads
  ObserveAbsent = FALSE
INVARIANTS
  ListTypeOK
  Linearizable
  EntryFound
  EverySnapshotIsAList
  CollectsSnapshot
  LinksMatchBundles
  OwnersHoldLocks
PROPERTIES
  OperationsReturn
