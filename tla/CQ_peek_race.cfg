CONSTANTS
  N = 4
  Word = 16
  a = a
  b = b
  c = c
  d = d
  Values = {a, b}
  Batches <- MixedBatches
  Ops = {"peek_n"}
  Sizes = {2}
  MaskedPeek = FALSE
  MaxPush = 4
SPECIFICATION Spec
INVARIANT PeekSizeAssertHolds
CHECK_DEADLOCK FALSE
