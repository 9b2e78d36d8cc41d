SPECIFICATION SessionSpec
CONSTANTS
  Programs = {"gpio", "gprof", "text"}
  Texts <- TextsValue
  TxSize = 2
  Rounds = 1
  Code = {0, 1}
  Samples = 3
  Every = 2
  MinVal = 1
  MaxTurn = 3
  MaxTick = 4
  MaxFault = 2
  Parts = {"debug", "raw", "user", "single", "pc"}
  Runs <- RunsValue
  HeapStart = 10
  Switch <- SwitchValue
  Addrs = {0, 1, 4}
  MaxOps = 5
INVARIANTS
  NothingLost
  ExitMeansDone
  CountsHonest
  FaultsSorted
  EachStepOnce
PROPERTIES
  SessionEnds
CHECK_DEADLOCK FALSE
