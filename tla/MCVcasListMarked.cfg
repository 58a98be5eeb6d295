SPECIFICATION VcasListSpec
CONSTANTS
  Nodes <- MCNodes
  HeadNode = 1
  MaxNode = 5
  InitKey <- MCKeysOf
  InitNodes = {1, 2, 5}
  NoProc = 0
  Workloads <- MarkedWorkloads
  Clients = {1, 2, 3}
  SetKeys <- MCKeys
  Objects <- MCObjects
  Values = {0, 1, 2, 3, 4, 5, 6}
  NoVal = 99
  Procs = {1, 2, 3}
  InitTime = 1
  InitVersions <- MCVersions
  ObserveAbsent = TRUE
INVARIANTS
  Linearizable
