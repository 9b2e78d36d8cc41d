CONSTANTS
  W = 4
  FifoSize = 8
  AddrSpace = 16
  ArmBase = 2
  BootCode = 6
  BootStart = 14
  ProgLen = 5
  Garbage <- TtyGarbage
  JunkNumbers = {1, 3, 13, 15}
  MaxUnread = 8
  MaxLoss = 0
  MaxCorrupt = 0
  MaxKill = 0
  MaxPower = 0
  MaxFaults = 0
SPECIFICATION MCSpec
INVARIANT NeverOverwritesItself
CHECK_DEADLOCK FALSE
