-------------------------------- MODULE Fifo --------------------------------
(***************************************************************************)
(* What circular.h promises its clients: a bounded first-in first-out      *)
(* queue whose insertions and removals are atomic.                         *)
(***************************************************************************)
EXTENDS Naturals, Sequences

CONSTANTS Capacity, Values

VARIABLES in, out

\* What was inserted and not yet removed.
Contents == SubSeq(in, Len(out) + 1, Len(in))

Init == in = <<>> /\ out = <<>>

Insert == /\ Len(Contents) < Capacity
          /\ \E v \in Values : in' = Append(in, v)
          /\ out' = out

Remove == /\ Contents # <<>>
          /\ out' = Append(out, Head(Contents))
          /\ in' = in

Next == Insert \/ Remove

Spec == Init /\ [][Next]_<<in, out>>
=============================================================================
