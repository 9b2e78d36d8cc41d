CONSTANTS
  W = 4
  FifoSize = 8
  AddrSpace = 16
  ArmBase = 2
  BootCode = 6
  BootStart = 14
  ProgLen = 2
  Garbage <- TtyGarbage
  JunkNumbers = {1, 3, 13, 15}
  MaxUnread = 24
  MaxLoss = 1
  MaxCorrupt = 1
  MaxKill = 1
  MaxPower = 1
  MaxFaults = 3
SPECIFICATION MCSpec
INVARIANT TransferSound
PROPERTIES BootCompletes UnixEnds
CHECK_DEADLOCK FALSE
