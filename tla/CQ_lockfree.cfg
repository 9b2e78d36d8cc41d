CONSTANTS
  N = 4
  Word = 16
  a = a
  b = b
  c = c
  d = d
  Values = {a, b, c, d}
  Batches <- RecordBatches
  Ops = {"pop", "pop_nonblock", "pop_n", "pop_n_noblk", "peek", "peek_n"}
  Sizes = {2}
  MaskedPeek = TRUE
  MaxPush = 6
SPECIFICATION FairSpec
INVARIANTS Conserved NoImpossiblePanic NoblkNeverBlocks ResultsExact
PROPERTIES Delivered ImplementsFifo
CHECK_DEADLOCK FALSE
