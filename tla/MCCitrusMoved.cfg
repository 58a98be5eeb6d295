SPECIFICATION TreeSpec
CONSTANTS
  Nodes <- MCNodes
  Null = 0
  Root = 8
  RootChild = 9
  NoKey = 8
  InitKey <- MCKey
  Bundles <- MCBundles
  Ptrs <- MCPtrs
  InitBundle <- BushyTree
  InitClock = 3
  NoPtr = NoPtr
  NoBundle = NoBundle
  NumProcs = 3
  RcuThreads = 3
  Updaters = {1, 2, 3}
  Queriers = {1, 2, 3}
  Getters = {1, 2, 3}
  Updates = {}
  Cleanup = FALSE
  Pending = 99
  MaxClock = 50
  Clients = {1, 2, 3}
  SetKeys <- MCKeys
  Workloads <- MovedWorkloads
  Observed = {"insert", "erase", "contains", "range"}
INVARIANT
  Linearizable
