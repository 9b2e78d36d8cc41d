--------------------------- MODULE MCCircularQueue ---------------------------
(* Small instances of CircularQueue.  N = 4 slots of a word of 16 values.  *)
EXTENDS CircularQueue, TLC

CONSTANTS a, b, c, d

\* single elements and pairs
MixedBatches  == {<<a>>, <<b>>, <<a, b>>}
\* two-element records whose halves tell which record they are of
RecordBatches == {<<a, b>>, <<c, d>>}
==============================================================================
