SPECIFICATION Spec
CONSTANTS
  Messages <- MCMessages
  MsgLen = 2
  MaxRestart = 1
  RestartOps <- MCRestartOps
  MaxBusy = 1
INVARIANTS
  InStep
  PingPong
  NoDeadlock
  ResetRecovers
CHECK_DEADLOCK FALSE
