SPECIFICATION Spec
CONSTANTS
  Sectors = 3
  BlockBytes = 2
  Nums = {0, 1, 2}
  Tries = 3
  MaxBusy = 3
  MaxFault = 1
  MaxCall = 3
INVARIANTS
  BlocksExact
  InitAgrees
  FailsOnlyWhen
PROPERTIES
  CallsReturn
CHECK_DEADLOCK FALSE
