SPECIFICATION RwlockListSpec
CONSTANTS
  Nodes <- MCNodes
  HeadNode = 1
  MaxNode = 5
  InitKey <- MCKeysOf
  InitNodes = {1, 2, 5}
  InitNext <- MCNext
  NoProc = 0
  Workloads <- MCWorkloads
  Clients = {1, 2, 3}
  SetKeys <- MCKeys
  NumProcs = 3
  RqNodes <- MCNodes
  NoNode = 0
  InitITime <- MCTimes
INVARIANTS
  Linearizable
  CollectsAlive
  DeletedIsFound
PROPERTIES
  OperationsReturn
