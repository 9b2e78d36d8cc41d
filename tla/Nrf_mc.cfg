SPECIFICATION Spec
CONSTANTS
  Tick = 3
  Gaps = {2}
  MsgBytes = 2
  QueueMax = 5
  ReadSizes = {3}
  Limits = {4}
  Retran = 1
  MaxSend = 3
  MaxFaults = 2
INVARIANTS
  BytesConserved
  NoLostInterrupt
  AckedExactlyOnce
  StopsOnlyWhen
  TimeoutsHonest
PROPERTY
  CallsEnd
CHECK_DEADLOCK FALSE
