----------------------------- MODULE LinkedQueue -----------------------------
(***************************************************************************)
(* The intrusive singly linked queue of libpi/libc/Q.h.  A queue is the    *)
(* record of its Q_t fields; the `next` fields of all elements are one     *)
(* function nx, shared by every queue an element may be on.  NULL is 0.    *)
(* An insertion returns the queue and the next fields it leaves.           *)
(***************************************************************************)
EXTENDS Naturals, Sequences

NULL == 0

QInit == [head |-> NULL, tail |-> NULL, cnt |-> 0]

QEmpty(q) == q.head = NULL

\* Q_pop of a non-empty queue; the popped element keeps its stale next field.
QPop(q, nx) ==
  [head |-> nx[q.head],
   tail |-> IF nx[q.head] = NULL THEN NULL ELSE q.tail,
   cnt  |-> q.cnt - 1]

QAppend(q, nx, e) ==
  [q  |-> [head |-> IF q.tail = NULL THEN e ELSE q.head, tail |-> e, cnt |-> q.cnt + 1],
   nx |-> IF q.tail = NULL THEN [nx EXCEPT ![e] = NULL]
                           ELSE [nx EXCEPT ![e] = NULL, ![q.tail] = e]]

-----------------------------------------------------------------------------
\* The elements in list order (Q_start, Q_next), walked for cnt steps.
QSeq(q, nx) ==
  LET walk[k \in 1 .. q.cnt] == IF k = 1 THEN q.head ELSE nx[walk[k - 1]]
  IN  walk

\* A Q_t whose head, tail, cnt and next chain agree.
QWellFormed(q, nx) ==
  /\ q.head = NULL <=> q.cnt = 0
  /\ q.tail = NULL <=> q.cnt = 0
  /\ \A i \in 1 .. q.cnt : QSeq(q, nx)[i] \in DOMAIN nx
  /\ \A i, j \in 1 .. q.cnt : QSeq(q, nx)[i] = QSeq(q, nx)[j] => i = j
  /\ q.cnt > 0 => QSeq(q, nx)[q.cnt] = q.tail /\ nx[q.tail] = NULL
=============================================================================
