SPECIFICATION DebraSpec
CONSTANTS
  NumProcesses = 2
  r1 = r1
  Records = {r1}
  InitLinked = {}
  EpochBags = 4
  AlwaysEmpty = 1
  MinOps = 2
  MaxEpoch = 8
INVARIANTS
  DebraTypeOK
  HeldNotFreed
  SafeBagsSuffice
  EpochHeldBack
CHECK_DEADLOCK FALSE
