CONSTANTS
  MaxTid = 6
  HeapStart = 8
  HeapMax = 6
  Starts = {12}
  Maxima = {5}
  Sizes = {1, 5, 6}
  Alignments = {2, 8, 16}
  MemEnd = 100
  ThreadBytes = 5
  ClientEnd = 28
  MaxOthers = 1
SPECIFICATION KernelSpec
INVARIANTS BlocksInPlace Disjoint
PROPERTIES ImplementsRoundRobin ReadyRuns StartReturns ImplementsAllocator
CHECK_DEADLOCK FALSE
