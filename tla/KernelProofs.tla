---------------------------- MODULE KernelProofs ----------------------------
(***************************************************************************)
(* Proofs about RpiThread.tla: its invariant BlocksInPlace, and that the   *)
(* intrusive queues implement RoundRobin.tla, for every number of threads. *)
(*                                                                         *)
(* The walk along the next fields (QSeq) is recursive.  What it computes   *)
(* is settled by well-founded induction on sets of naturals (NatLeast),    *)
(* then one lemma for each queue operation says what it does to the walk.  *)
(*                                                                         *)
(* At the end, the heap the threads' blocks come from (Kmalloc.tla): for   *)
(* every heap, every set of sizes and every set of alignments it           *)
(* implements an allocator that is only freed as a whole.                  *)
(***************************************************************************)
EXTENDS Kernel, FiniteSetTheorems, SequenceTheorems, TLAPS

\* Every nonempty set of naturals has a least element.
LEMMA NatLeast ==
  ASSUME NEW T \in SUBSET Nat, T # {}
  PROVE  \E m \in T : \A n \in T : m <= n
<1> DEFINE Up == {0 .. m : m \in T}
<1>1. Up \subseteq FiniteSubsetsOf(Nat) /\ Up # {}
  <2>1. \A m \in T : 0 .. m \subseteq Nat /\ IsFiniteSet(0 .. m)
    BY FS_Interval
  <2> QED BY <2>1 DEF FiniteSubsetsOf
<1>2. PICK U \in Up : \A V \in Up : ~ (<<V, U>> \in StrictSubsetOrdering(Nat))
  BY <1>1, FS_StrictSubsetOrderingWellFounded, WFMin
<1>3. PICK m \in T : U = 0 .. m
  OBVIOUS
<1>4. \A n \in T : m <= n
  <2> TAKE n \in T
  <2>1. <<0 .. n, 0 .. m>> \notin StrictSubsetOrdering(Nat)
    BY <1>2, <1>3
  <2>2. ~ (0 .. n \subseteq 0 .. m /\ 0 .. n # 0 .. m)
    BY <2>1 DEF StrictSubsetOrdering
  <2>3. n < m => (0 .. n \subseteq 0 .. m /\ m \in 0 .. m /\ m \notin 0 .. n)
    OBVIOUS
  <2> QED BY <2>2, <2>3
<1> QED BY <1>4

-----------------------------------------------------------------------------
\* s is a function on 1 .. n.
IsList(s, n) == s = [k \in 1 .. n |-> s[k]]

\* w walks the next fields nx for n steps from head.
IsWalk(w, n, head, nx) ==
  w = [k \in 1 .. n |-> IF k = 1 THEN head ELSE nx[w[k - 1]]]

\* There is a walk of every length, and only one.
LEMMA WalkExists ==
  ASSUME NEW head, NEW nx, NEW n \in Nat
  PROVE  \E w : IsWalk(w, n, head, nx)
<1> DEFINE T == {m \in Nat : ~ \E w : IsWalk(w, m, head, nx)}
<1>1. SUFFICES ASSUME T # {} PROVE FALSE
  OBVIOUS
<1>2. PICK m \in T : \A i \in T : m <= i
  BY <1>1, NatLeast
<1>3. m # 0
  <2>1. IsWalk([k \in 1 .. 0 |-> head], 0, head, nx)
    BY DEF IsWalk
  <2> QED BY <2>1, <1>2
<1>4. PICK w : IsWalk(w, m - 1, head, nx)
  BY <1>2, <1>3
<1> DEFINE v == [k \in 1 .. m |-> IF k = m THEN (IF m = 1 THEN head ELSE nx[w[m - 1]]) ELSE w[k]]
<1>5. \A k \in 1 .. m : v[k] = IF k = 1 THEN head ELSE nx[v[k - 1]]
  <2> TAKE k \in 1 .. m
  <2>1. k # m => v[k] = w[k] /\ w[k] = IF k = 1 THEN head ELSE nx[w[k - 1]]
    BY <1>4 DEF IsWalk
  <2>2. k # 1 => v[k - 1] = w[k - 1]
    OBVIOUS
  <2>3. k = m => v[k] = IF m = 1 THEN head ELSE nx[w[m - 1]]
    OBVIOUS
  <2> HIDE DEF v
  <2> QED BY <2>1, <2>2, <2>3
<1>6. IsWalk(v, m, head, nx)
  <2>1. v = [k \in 1 .. m |-> v[k]]
    OBVIOUS
  <2> HIDE DEF v
  <2> QED BY <1>5, <2>1, Zenon DEF IsWalk
<1> QED BY <1>2, <1>6

LEMMA WalkUnique ==
  ASSUME NEW head, NEW nx, NEW n \in Nat, NEW v, NEW w,
         IsWalk(v, n, head, nx), IsWalk(w, n, head, nx)
  PROVE  v = w
<1> DEFINE T == {k \in 1 .. n : v[k] # w[k]}
<1>1. CASE T = {}
  <2>1. \A k \in 1 .. n : v[k] = w[k]
    BY <1>1
  <2> QED BY <2>1 DEF IsWalk
<1>2. CASE T # {}
  <2> T \in SUBSET Nat
    OBVIOUS
  <2>1. PICK k \in T : \A i \in T : k <= i
    BY <1>2, NatLeast
  <2>2. v[k] = (IF k = 1 THEN head ELSE nx[v[k - 1]]) /\ w[k] = IF k = 1 THEN head ELSE nx[w[k - 1]]
    BY DEF IsWalk
  <2>3. k # 1 => v[k - 1] = w[k - 1]
    BY <2>1
  <2> QED BY <2>2, <2>3
<1> QED BY <1>1, <1>2

LEMMA QSeqIsWalk ==
  ASSUME NEW q, q.cnt \in Nat, NEW nx
  PROVE  IsWalk(QSeq(q, nx), q.cnt, q.head, nx)
<1>1. QSeq(q, nx) = CHOOSE w : IsWalk(w, q.cnt, q.head, nx)
  BY Zenon DEF QSeq, IsWalk
<1> QED BY <1>1, WalkExists, Zenon

\* The walk, element by element.
LEMMA QSeqSteps ==
  ASSUME NEW q, q.cnt \in Nat, NEW nx
  PROVE  /\ DOMAIN QSeq(q, nx) = 1 .. q.cnt
         /\ IsList(QSeq(q, nx), q.cnt)
         /\ q.cnt > 0 => QSeq(q, nx)[1] = q.head
         /\ \A k \in 1 .. q.cnt : k > 1 => QSeq(q, nx)[k] = nx[QSeq(q, nx)[k - 1]]
<1> DEFINE w == QSeq(q, nx)
<1>1. w = [k \in 1 .. q.cnt |-> IF k = 1 THEN q.head ELSE nx[w[k - 1]]]
  BY QSeqIsWalk DEF IsWalk
<1> HIDE DEF w
<1>2. \A k \in 1 .. q.cnt : w[k] = IF k = 1 THEN q.head ELSE nx[w[k - 1]]
  BY <1>1
<1>3. DOMAIN w = 1 .. q.cnt /\ IsList(w, q.cnt)
  BY <1>1 DEF IsList
<1>4. /\ DOMAIN w = 1 .. q.cnt
      /\ IsList(w, q.cnt)
      /\ q.cnt > 0 => w[1] = q.head
      /\ \A k \in 1 .. q.cnt : k > 1 => w[k] = nx[w[k - 1]]
  BY <1>2, <1>3
<1> QED BY <1>4 DEF w

\* A function that starts at the head and follows the next fields is the walk.
LEMMA QSeqIs ==
  ASSUME NEW q, q.cnt \in Nat, NEW nx, NEW s,
         IsList(s, q.cnt),
         q.cnt > 0 => s[1] = q.head,
         \A k \in 1 .. q.cnt : k > 1 => s[k] = nx[s[k - 1]]
  PROVE  QSeq(q, nx) = s
<1>1. \A k \in 1 .. q.cnt : s[k] = IF k = 1 THEN q.head ELSE nx[s[k - 1]]
  OBVIOUS
<1>2. IsWalk(s, q.cnt, q.head, nx)
  BY <1>1, Zenon DEF IsWalk, IsList
<1> QED BY <1>2, QSeqIsWalk, WalkUnique, Zenon

-----------------------------------------------------------------------------
\* The elements of a queue.
On(q, nx) == {QSeq(q, nx)[i] : i \in 1 .. q.cnt}

Links(B) == [B -> B \cup {NULL}]

\* Insertion of an element that is not on the queue puts it last.
LEMMA AppendLast ==
  ASSUME NEW B, NULL \notin B, NEW nx \in Links(B), NEW q, q.cnt \in Nat,
         QWellFormed(q, nx), NEW e \in B, e \notin On(q, nx), 
         NEW q2, q2 = QAppend(q, nx, e).q, NEW nx2, nx2 = QAppend(q, nx, e).nx
  PROVE  /\ nx2 \in Links(B) /\ q2.cnt = q.cnt + 1
         /\ \A b \in B : b # e /\ b # q.tail => nx2[b] = nx[b]
         /\ q2.head = IF q.cnt = 0 THEN e ELSE q.head
         /\ q2.tail = e
         /\ QSeq(q2, nx2) = [k \in 1 .. q.cnt + 1 |-> IF k = q.cnt + 1 THEN e ELSE QSeq(q, nx)[k]]
         /\ QWellFormed(q2, nx2)
         /\ On(q2, nx2) = On(q, nx) \cup {e}
<1> DEFINE w == QSeq(q, nx)
           n == q.cnt
           s == [k \in 1 .. n + 1 |-> IF k = n + 1 THEN e ELSE w[k]]
<1>1. /\ n = 0 <=> q.head = NULL
      /\ n = 0 <=> q.tail = NULL
      /\ \A i \in 1 .. n : w[i] \in B /\ w[i] # e
      /\ \A i, j \in 1 .. n : w[i] = w[j] => i = j
      /\ n > 0 => w[1] = q.head /\ w[n] = q.tail /\ nx[q.tail] = NULL
      /\ \A k \in 1 .. n : k > 1 => w[k] = nx[w[k - 1]]
  <2>1. DOMAIN nx = B
    BY DEF Links
  <2> QED BY <2>1, QSeqSteps DEF QWellFormed, On
<1> HIDE DEF w
<1>2. /\ q2 = [head |-> IF n = 0 THEN e ELSE q.head, tail |-> e, cnt |-> n + 1]
      /\ nx2 = IF n = 0 THEN [nx EXCEPT ![e] = NULL] ELSE [nx EXCEPT ![e] = NULL, ![q.tail] = e]
  BY <1>1 DEF QAppend
<1>3. nx2 \in Links(B) /\ nx2[e] = NULL /\ (n > 0 => nx2[q.tail] = e /\ q.tail \in B /\ q.tail # e)
  BY <1>1, <1>2 DEF Links
<1>4. \A b \in B : b # e /\ b # q.tail => nx2[b] = nx[b]
  BY <1>2 DEF Links
<1>5. /\ IsList(s, n + 1) /\ s[n + 1] = e
      /\ \A k \in 1 .. n : s[k] = w[k]
  BY DEF IsList
<1> HIDE DEF s
<1>6. q2.cnt = n + 1 /\ q2.tail = e /\ q2.head = IF n = 0 THEN e ELSE q.head
  BY <1>2
<1>7. \A k \in 1 .. n + 1 : k > 1 => s[k] = nx2[s[k - 1]]
  <2> SUFFICES ASSUME NEW k \in 1 .. n + 1, k > 1 PROVE s[k] = nx2[s[k - 1]]
    OBVIOUS
  <2>1. CASE k = n + 1
    BY <2>1, <1>1, <1>3, <1>5
  <2>2. CASE k # n + 1
    <3>1. k - 1 \in 1 .. n /\ k - 1 # n /\ n \in 1 .. n /\ k \in 1 .. n
      BY <2>2
    <3>2. w[k - 1] # q.tail /\ w[k - 1] # e /\ w[k - 1] \in B
      BY <1>1, <3>1
    <3> QED BY <1>1, <1>4, <1>5, <3>1, <3>2
  <2> QED BY <2>1, <2>2
<1>8. s[1] = q2.head
  BY <1>1, <1>5, <1>6
<1>9. QSeq(q2, nx2) = s
  <2>1. IsList(s, q2.cnt)
    BY <1>5, <1>6
  <2>2. \A k \in 1 .. q2.cnt : k > 1 => s[k] = nx2[s[k - 1]]
    BY <1>6, <1>7
  <2>3. q2.cnt \in Nat /\ (q2.cnt > 0 => s[1] = q2.head)
    BY <1>6, <1>8
  <2> QED BY <2>1, <2>2, <2>3, QSeqIs, SMTT(60)
<1>10. QWellFormed(q2, nx2)
  <2>1. q2.head # NULL /\ q2.tail # NULL /\ q2.cnt # 0
    BY <1>1, <1>6
  <2>2. \A i \in 1 .. q2.cnt : s[i] \in DOMAIN nx2
    BY <1>1, <1>3, <1>5, <1>6 DEF Links
  <2>3. \A i, j \in 1 .. q2.cnt : s[i] = s[j] => i = j
    <3> SUFFICES ASSUME NEW i \in 1 .. n + 1, NEW j \in 1 .. n + 1, s[i] = s[j] PROVE i = j
      BY <1>6
    <3>1. CASE i = n + 1 \/ j = n + 1
      BY <3>1, <1>1, <1>5
    <3>2. CASE i # n + 1 /\ j # n + 1
      BY <3>2, <1>1, <1>5
    <3> QED BY <3>1, <3>2
  <2>4. s[q2.cnt] = q2.tail /\ nx2[q2.tail] = NULL
    BY <1>3, <1>5, <1>6
  <2> QED BY <1>9, <2>1, <2>2, <2>3, <2>4 DEF QWellFormed
<1>11. On(q2, nx2) = {w[i] : i \in 1 .. n} \cup {e}
  <2>1. {s[i] : i \in 1 .. n + 1} = {w[i] : i \in 1 .. n} \cup {e}
    <3>1. \A i \in 1 .. n + 1 : s[i] = e \/ (i \in 1 .. n /\ s[i] = w[i])
      BY <1>5
    <3>2. n + 1 \in 1 .. n + 1 /\ \A i \in 1 .. n : i \in 1 .. n + 1
      OBVIOUS
    <3> QED BY <1>5, <3>1, <3>2
  <2> QED BY <2>1, <1>6, <1>9 DEF On
<1> QED BY <1>3, <1>4, <1>6, <1>9, <1>10, <1>11 DEF s, w, On

\* A change of the next fields of other elements leaves a queue alone.
LEMMA OtherQueue ==
  ASSUME NEW B, NULL \notin B, NEW nx \in Links(B), NEW nx2 \in Links(B), NEW q, q.cnt \in Nat,
         QWellFormed(q, nx), \A b \in On(q, nx) : nx2[b] = nx[b]
  PROVE  /\ QSeq(q, nx2) = QSeq(q, nx) /\ QWellFormed(q, nx2) /\ On(q, nx2) = On(q, nx)
<1> DEFINE w == QSeq(q, nx)
<1>1. \A k \in 1 .. q.cnt : k > 1 => w[k] = nx2[w[k - 1]]
  <2> SUFFICES ASSUME NEW k \in 1 .. q.cnt, k > 1 PROVE w[k] = nx2[w[k - 1]]
    OBVIOUS
  <2>1. w[k] = nx[w[k - 1]]
    BY QSeqSteps
  <2>2. w[k - 1] \in On(q, nx)
    BY DEF On
  <2> QED BY <2>1, <2>2
<1>2. IsList(w, q.cnt) /\ (q.cnt > 0 => w[1] = q.head)
  BY QSeqSteps
<1> HIDE DEF w
<1>3. QSeq(q, nx2) = w
  BY <1>1, <1>2, QSeqIs
<1>4. q.cnt > 0 => q.tail \in On(q, nx)
  BY DEF On, QWellFormed
<1> QED BY <1>3, <1>4 DEF w, QWellFormed, On, Links

\* Removal takes the head; the rest keeps its order.
LEMMA PopFirst ==
  ASSUME NEW B, NULL \notin B, NEW nx \in Links(B), NEW q, q.cnt \in Nat,
         QWellFormed(q, nx), q.cnt > 0, NEW p, p = QPop(q, nx)
  PROVE  /\ p.cnt = q.cnt - 1
         /\ p.head \in B \cup {NULL} /\ p.tail \in B \cup {NULL}
         /\ QSeq(p, nx) = [k \in 1 .. q.cnt - 1 |-> QSeq(q, nx)[k + 1]]
         /\ QWellFormed(p, nx)
         /\ On(p, nx) = On(q, nx) \ {q.head} /\ q.head \in On(q, nx)
<1> DEFINE w == QSeq(q, nx)
           n == q.cnt
           s == [k \in 1 .. n - 1 |-> w[k + 1]]
<1>1. /\ q.head # NULL /\ q.tail # NULL
      /\ \A i \in 1 .. n : w[i] \in B
      /\ \A i, j \in 1 .. n : w[i] = w[j] => i = j
      /\ w[1] = q.head /\ w[n] = q.tail /\ nx[q.tail] = NULL
      /\ \A k \in 1 .. n : k > 1 => w[k] = nx[w[k - 1]]
  <2>1. DOMAIN nx = B
    BY DEF Links
  <2> QED BY <2>1, QSeqSteps DEF QWellFormed
<1> HIDE DEF w
<1>2. p.cnt = n - 1 /\ p.head = nx[q.head] /\ p.tail = IF nx[q.head] = NULL THEN NULL ELSE q.tail
  BY DEF QPop
<1>3. /\ IsList(s, n - 1)
      /\ \A k \in 1 .. n - 1 : s[k] = w[k + 1]
  BY DEF IsList
<1> HIDE DEF s
<1>4. n > 1 => p.head = w[2] /\ w[2] \in B /\ p.tail = q.tail
  <2>1. n > 1 => w[2] = nx[w[1]]
    BY <1>1
  <2> QED BY <2>1, <1>1, <1>2
<1>5. n = 1 => p.head = NULL /\ p.tail = NULL
  BY <1>1, <1>2
<1>6. QSeq(p, nx) = s
  <2>1. p.cnt \in Nat /\ IsList(s, p.cnt)
    BY <1>2, <1>3
  <2>2. p.cnt > 0 => s[1] = p.head
    BY <1>2, <1>3, <1>4
  <2>3. \A k \in 1 .. p.cnt : k > 1 => s[k] = nx[s[k - 1]]
    <3> SUFFICES ASSUME NEW k \in 1 .. n - 1, k > 1 PROVE s[k] = nx[s[k - 1]]
      BY <1>2
    <3>1. s[k] = w[k + 1] /\ s[k - 1] = w[k] /\ w[k + 1] = nx[w[k]]
      BY <1>1, <1>3
    <3> QED BY <3>1
  <2> QED BY <2>1, <2>2, <2>3, QSeqIs
<1>7. QWellFormed(p, nx)
  <2>1. /\ p.head = NULL <=> p.cnt = 0
        /\ p.tail = NULL <=> p.cnt = 0
    BY <1>1, <1>2, <1>4, <1>5
  <2>2. \A i \in 1 .. p.cnt : s[i] \in DOMAIN nx
    BY <1>1, <1>2, <1>3 DEF Links
  <2>3. \A i, j \in 1 .. p.cnt : s[i] = s[j] => i = j
    BY <1>1, <1>2, <1>3
  <2>4. p.cnt > 0 => s[p.cnt] = p.tail /\ nx[p.tail] = NULL
    BY <1>1, <1>2, <1>3, <1>4
  <2> QED BY <1>6, <2>1, <2>2, <2>3, <2>4 DEF QWellFormed
<1>8. {s[i] : i \in 1 .. n - 1} = {w[i] : i \in 1 .. n} \ {w[1]}
  <2>1. \A i \in 1 .. n - 1 : i + 1 \in 1 .. n /\ s[i] = w[i + 1] /\ w[i + 1] # w[1]
    BY <1>1, <1>3
  <2>2. \A i \in 1 .. n : i # 1 => i - 1 \in 1 .. n - 1 /\ w[i] = s[i - 1]
    BY <1>3
  <2> QED BY <2>1, <2>2
<1>9. On(p, nx) = {w[i] : i \in 1 .. n} \ {q.head} /\ q.head \in {w[i] : i \in 1 .. n}
  BY <1>1, <1>2, <1>6, <1>8 DEF On
<1>10. p.head \in B \cup {NULL} /\ p.tail \in B \cup {NULL}
  <2>1. w[n] \in B /\ (n = 1 \/ n > 1)
    BY <1>1
  <2> QED BY <2>1, <1>1, <1>4, <1>5
<1> QED BY <1>2, <1>6, <1>7, <1>9, <1>10, Zenon DEF s, w, On
-----------------------------------------------------------------------------
\* The blocks on the two queues, and those that threads live on.
RQ == On(runq, next)
FQ == On(freeq, next)
Active == (RQ \cup {cur_thread}) \ {NULL}
Current == IF cur_thread = NULL THEN 0 ELSE 1

\* Every block handed out is in one place ...
Apart ==
  /\ RQ \cap FQ = {} /\ cur_thread \notin RQ \cup FQ
  /\ on # NULL => scheduler_thread \notin RQ \cup FQ /\ scheduler_thread # cur_thread
\* ... and came from kmalloc, with an id taken at the time.
Known ==
  /\ nalloced < tid
  /\ \A b \in RQ \cup FQ \cup {cur_thread, scheduler_thread} : b <= nalloced
\* A live thread has a block and an id of its own ...
Tids ==
  /\ live = {tidOf[b] : b \in Active}
  /\ \A b \in Active : tidOf[b] \in 1 .. tid - 1
  /\ \A a, b \in Active : tidOf[a] = tidOf[b] => a = b
\* ... so the counters of the queues account for every block.
Counted ==
  /\ IsFiniteSet(live) /\ Cardinality(live) = runq.cnt + Current /\ Cardinality(live) <= peak
  /\ nalloced = runq.cnt + freeq.cnt + Current + nstarts
  /\ BlocksRecycled
Resumable ==
  /\ \A b \in RQ : ctx[b] \in {"trampoline", "yield"}
  /\ on = cur_thread
  /\ on # NULL => /\ scheduler_thread # NULL
                  /\ ctx[scheduler_thread] = "start" /\ ctx[on] = "running"

\* The inductive invariant.
IInv == TypeOK /\ QueuesWellFormed /\ Apart /\ Known /\ Tids /\ Counted /\ Resumable

LEMMA QueueFacts ==
  ASSUME TypeOK, QueuesWellFormed
  PROVE  /\ NULL \notin Blocks /\ next \in Links(Blocks)
         /\ \A q \in {runq, freeq} :
              /\ q.cnt \in Nat /\ QWellFormed(q, next)
              /\ On(q, next) \subseteq Blocks
              /\ QEmpty(q) <=> q.cnt = 0
              /\ q.cnt > 0 => q.head \in On(q, next)
              /\ q.cnt = 0 => On(q, next) = {}
<1>1. NULL \notin Blocks
  BY DEF Blocks, NULL
<1>2. next \in Links(Blocks)
  <2>1. Blocks \cup {NULL} = 0 .. MaxTid
    BY MaxTidAssumption DEF Blocks, NULL
  <2> QED BY <2>1 DEF Links, TypeOK
<1>3. ASSUME NEW q \in {runq, freeq}
      PROVE  /\ q.cnt \in Nat /\ QWellFormed(q, next)
             /\ On(q, next) \subseteq Blocks
             /\ QEmpty(q) <=> q.cnt = 0
             /\ q.cnt > 0 => q.head \in On(q, next)
             /\ q.cnt = 0 => On(q, next) = {}
  <2>1. q.cnt \in Nat /\ QWellFormed(q, next) /\ DOMAIN next = Blocks
    BY DEF TypeOK, QueuesWellFormed
  <2>2. On(q, next) \subseteq Blocks
    BY <2>1 DEF QWellFormed, On
  <2>3. QEmpty(q) <=> q.cnt = 0
    BY <2>1, Zenon DEF QWellFormed, QEmpty
  <2>4. q.cnt > 0 => q.head \in On(q, next)
    <3>1. q.cnt > 0 => QSeq(q, next)[1] = q.head /\ 1 \in 1 .. q.cnt
      BY <2>1, QSeqSteps
    <3> QED BY <3>1 DEF On
  <2>5. q.cnt = 0 => On(q, next) = {}
    BY DEF On
  <2> QED BY <2>1, <2>2, <2>3, <2>4, <2>5
<1> QED BY <1>1, <1>2, <1>3, Zenon

\* th_alloc hands out a block that no thread has.
LEMMA AllocEffect ==
  ASSUME IInv, Alloc, tid < MaxTid
  PROVE  /\ Fresh \in Blocks /\ Fresh \notin RQ /\ Fresh # cur_thread
         /\ on # NULL => Fresh # scheduler_thread
         /\ freeq'.cnt \in Nat /\ freeq'.head \in 0 .. MaxTid /\ freeq'.tail \in 0 .. MaxTid
         /\ QWellFormed(freeq', next) /\ On(freeq', next) = FQ \ {Fresh}
         /\ nalloced' \in nalloced .. MaxTid /\ nalloced' < tid' /\ Fresh <= nalloced'
         /\ nalloced' = nalloced + 1 => freeq.cnt = 0 /\ freeq'.cnt = 0
         /\ nalloced' # nalloced + 1 => nalloced' = nalloced /\ freeq'.cnt = freeq.cnt - 1 /\ freeq.cnt > 0
<1> USE DEF IInv
<1>1. /\ NULL \notin Blocks /\ next \in Links(Blocks) /\ freeq.cnt \in Nat /\ QWellFormed(freeq, next)
      /\ FQ \subseteq Blocks /\ RQ \subseteq Blocks /\ (QEmpty(freeq) <=> freeq.cnt = 0)
      /\ (freeq.cnt > 0 => freeq.head \in FQ) /\ (freeq.cnt = 0 => FQ = {})
  BY QueueFacts DEF RQ, FQ
<1>2. /\ nalloced \in 0 .. MaxTid /\ tid \in 1 .. MaxTid /\ tid' = tid + 1 /\ MaxTid \in Nat
      /\ freeq.head \in 0 .. MaxTid /\ freeq.tail \in 0 .. MaxTid
      /\ cur_thread \in 0 .. MaxTid /\ scheduler_thread \in 0 .. MaxTid
  BY MaxTidAssumption DEF TypeOK, Alloc
<1>3. CASE QEmpty(freeq)
  <2>1. Fresh = nalloced + 1 /\ freeq' = freeq /\ nalloced' = nalloced + 1
    BY <1>3 DEF Fresh, Alloc
  <2>2. \A b \in RQ \cup FQ \cup {cur_thread, scheduler_thread} : b # Fresh
    BY <2>1, <1>1, <1>2 DEF Known, Blocks, NULL
  <2>3. Fresh \in Blocks
    BY <2>1, <1>2 DEF Known, Blocks
  <2> QED BY <1>1, <1>2, <1>3, <2>1, <2>2, <2>3 DEF Known, FQ
<1>4. CASE ~ QEmpty(freeq)
  <2>1. Fresh = freeq.head /\ freeq' = QPop(freeq, next) /\ nalloced' = nalloced
    BY <1>4 DEF Fresh, Alloc
  <2>2. freeq.cnt > 0 /\ Fresh \in FQ
    BY <1>1, <1>4, <2>1
  <2>3. /\ freeq'.cnt = freeq.cnt - 1
        /\ freeq'.head \in Blocks \cup {NULL} /\ freeq'.tail \in Blocks \cup {NULL}
        /\ QWellFormed(freeq', next) /\ On(freeq', next) = FQ \ {Fresh}
    BY <1>1, <2>1, <2>2, PopFirst DEF FQ
  <2>4. Blocks \cup {NULL} = 0 .. MaxTid
    BY <1>2 DEF Blocks, NULL
  <2> QED BY <1>1, <1>2, <2>1, <2>2, <2>3, <2>4 DEF Known, Apart
<1> QED BY <1>3, <1>4

\* rpi_fork keeps every block in its place.
LEMMA ForkKeeps ==
  ASSUME IInv, Fork
  PROVE  IInv'
<1> USE DEF IInv
<1> DEFINE e == Fresh
           nq == QAppend(runq, next, e).q
           nx == QAppend(runq, next, e).nx
<1>1. /\ NULL \notin Blocks /\ next \in Links(Blocks)
      /\ runq.cnt \in Nat /\ QWellFormed(runq, next) /\ RQ \subseteq Blocks /\ FQ \subseteq Blocks
      /\ freeq.cnt \in Nat /\ (runq.cnt > 0 => runq.head \in RQ)
      /\ runq.head \in 0 .. MaxTid /\ runq.tail \in 0 .. MaxTid
  BY QueueFacts DEF RQ, FQ, TypeOK
<1>2. /\ e \in Blocks /\ e \notin RQ /\ e # cur_thread
      /\ on # NULL => e # scheduler_thread
      /\ freeq'.cnt \in Nat /\ freeq'.head \in 0 .. MaxTid /\ freeq'.tail \in 0 .. MaxTid
      /\ QWellFormed(freeq', next) /\ On(freeq', next) = FQ \ {e}
      /\ nalloced' \in nalloced .. MaxTid /\ nalloced' < tid' /\ e <= nalloced'
      /\ nalloced' = nalloced + 1 => freeq.cnt = 0 /\ freeq'.cnt = 0
      /\ nalloced' # nalloced + 1 => nalloced' = nalloced /\ freeq'.cnt = freeq.cnt - 1 /\ freeq.cnt > 0
  BY AllocEffect DEF Fork
<1>3. /\ runq' = nq /\ next' = nx
      /\ ctx' = [ctx EXCEPT ![e] = "trampoline"]
      /\ tidOf' = [tidOf EXCEPT ![e] = tid] /\ tid' = tid + 1 /\ tid < MaxTid
      /\ live' = live \cup {tid} /\ peak' = Larger(peak, Cardinality(live'))
      /\ UNCHANGED <<cur_thread, scheduler_thread, on, nstarts>>
  BY DEF Fork, Alloc
<1> HIDE DEF e, nq, nx
<1>4. /\ nx \in Links(Blocks) /\ nq.cnt = runq.cnt + 1
      /\ \A b \in Blocks : b # e /\ b # runq.tail => nx[b] = next[b]
      /\ nq.head = IF runq.cnt = 0 THEN e ELSE runq.head
      /\ nq.tail = e
      /\ QWellFormed(nq, nx)
      /\ On(nq, nx) = RQ \cup {e}
  <2>1. e \notin On(runq, next) /\ On(runq, next) = RQ
    BY <1>2 DEF RQ
  <2>2. nq = QAppend(runq, next, e).q /\ nx = QAppend(runq, next, e).nx
    BY DEF nq, nx
  <2> QED BY <1>1, <1>2, <2>1, <2>2, AppendLast
<1>5. runq.tail # NULL => runq.tail \in RQ
  <2>1. runq.tail # NULL => runq.cnt # 0 /\ QSeq(runq, next)[runq.cnt] = runq.tail
    BY <1>1 DEF QWellFormed
  <2> QED BY <1>1, <2>1 DEF RQ, On
<1>6. QWellFormed(freeq', next') /\ On(freeq', next') = FQ \ {e}
  <2>1. \A b \in On(freeq', next) : nx[b] = next[b]
    BY <1>1, <1>2, <1>4, <1>5 DEF Apart
  <2>2. ASSUME NEW q, q = freeq' PROVE QWellFormed(q, nx) /\ On(q, nx) = On(q, next)
    BY <1>1, <1>2, <1>4, <2>1, <2>2, OtherQueue
  <2> QED BY <1>2, <1>3, <2>2
<1>7. RQ' = RQ \cup {e} /\ FQ' = FQ \ {e} /\ QueuesWellFormed'
  BY <1>3, <1>4, <1>6 DEF RQ, FQ, QueuesWellFormed
<1>8. Active' = Active \cup {e} /\ e \notin Active /\ Active \subseteq Blocks
  BY <1>1, <1>2, <1>3, <1>7, SMTT(60) DEF Active, NULL, Blocks, TypeOK
<1>9. IsFiniteSet(live') /\ Cardinality(live') = Cardinality(live) + 1 /\ Cardinality(live) \in Nat
  <2>1. tid \notin live
    BY DEF Tids, TypeOK
  <2> QED BY <1>3, <2>1, FS_AddElement, FS_CardinalityType DEF Counted
<1>10. TypeOK'
  <2>1. next' \in [Blocks -> 0 .. MaxTid]
    BY <1>3, <1>4, MaxTidAssumption DEF Links, Blocks, NULL
  <2>2. tidOf' \in [Blocks -> Nat] /\ ctx' \in [Blocks -> Contexts]
    <3>1. tid \in Nat /\ "trampoline" \in Contexts
      BY MaxTidAssumption DEF TypeOK, Contexts
    <3> QED BY <1>3, <3>1 DEF TypeOK
  <2>3. nalloced' \in 0 .. MaxTid /\ tid' \in 1 .. MaxTid /\ live' \subseteq Nat
    BY <1>2, <1>3, MaxTidAssumption DEF TypeOK
  <2>4. peak' \in Nat
    BY <1>3, <1>9 DEF TypeOK, Larger
  <2>5. runq'.head \in 0 .. MaxTid /\ runq'.tail \in 0 .. MaxTid /\ runq'.cnt \in Nat
    BY <1>1, <1>2, <1>3, <1>4 DEF Blocks
  <2>6. \A q \in {runq', freeq'} : q.head \in 0 .. MaxTid /\ q.tail \in 0 .. MaxTid /\ q.cnt \in Nat
    BY <1>2, <2>5
  <2> QED BY <1>3, <2>1, <2>2, <2>3, <2>4, <2>6 DEF TypeOK
<1>11. Apart'
  BY <1>2, <1>3, <1>7 DEF Apart
<1>12. Known'
  <2>1. nalloced' >= nalloced /\ nalloced \in Nat /\ nalloced' \in Nat
    BY <1>2, MaxTidAssumption DEF TypeOK
  <2>2. \A b \in RQ \cup FQ \cup {cur_thread, scheduler_thread} : b \in Nat /\ b <= nalloced
    BY <1>1, MaxTidAssumption DEF Known, Blocks, TypeOK
  <2>3. \A b \in RQ' \cup FQ' \cup {cur_thread', scheduler_thread'} :
          b = e \/ b \in RQ \cup FQ \cup {cur_thread, scheduler_thread}
    BY <1>3, <1>7
  <2>4. \A b \in RQ' \cup FQ' \cup {cur_thread', scheduler_thread'} : b <= nalloced'
    BY <1>2, <2>1, <2>2, <2>3
  <2> QED BY <1>2, <2>4 DEF Known
<1>13. Tids'
  <2>1. \A b \in Active : tidOf'[b] = tidOf[b] /\ tidOf[b] < tid /\ tidOf[b] \in 1 .. tid - 1
    BY <1>3, <1>8 DEF Tids, TypeOK
  <2>2. tidOf'[e] = tid /\ tid \in Nat /\ tid >= 1
    BY <1>2, <1>3 DEF TypeOK
  <2>3. live' = {tidOf'[b] : b \in Active'}
    BY <1>3, <1>8, <2>1, <2>2 DEF Tids
  <2>4. \A b \in Active' : tidOf'[b] \in 1 .. tid' - 1
    BY <1>3, <1>8, <2>1, <2>2
  <2>5. \A a, b \in Active' : tidOf'[a] = tidOf'[b] => a = b
    BY <1>8, <2>1, <2>2 DEF Tids
  <2> QED BY <2>3, <2>4, <2>5 DEF Tids
<1>14. Counted'
  <2>1. Current' = Current /\ runq'.cnt = runq.cnt + 1 /\ Current \in 0 .. 1 /\ nstarts' = nstarts
    BY <1>3, <1>4 DEF Current
  <2>2. /\ peak' >= peak /\ peak' >= Cardinality(live')
        /\ peak \in Nat /\ peak' \in Nat /\ nstarts \in Nat /\ nalloced \in Nat /\ nalloced' \in Nat
    BY <1>3, <1>9, <1>10 DEF Larger, TypeOK
  <2>3. nalloced' = runq'.cnt + freeq'.cnt + Current' + nstarts'
    BY <1>1, <1>2, <2>1, <2>2 DEF Counted
  <2>4. nalloced' <= peak' + nstarts'
    BY <1>1, <1>2, <1>9, <2>1, <2>2, <2>3 DEF Counted, BlocksRecycled
  <2>5. Cardinality(live') = runq'.cnt + Current'
    BY <1>1, <1>9, <2>1 DEF Counted
  <2> QED BY <1>9, <2>2, <2>3, <2>4, <2>5 DEF Counted, BlocksRecycled
<1>15. Resumable'
  BY <1>1, <1>2, <1>3, <1>7, SMTT(60) DEF Resumable, TypeOK, Blocks, NULL
<1> QED BY <1>7, <1>10, <1>11, <1>12, <1>13, <1>14, <1>15

\* The first thread in line is the current one, and the rest move up.
HeadLeft ==
  runq.cnt > 0 => /\ cur_thread' = RunSeq[1] /\ runq'.cnt = runq.cnt - 1
                  /\ \A k \in 1 .. runq'.cnt : RunSeq'[k] = RunSeq[k + 1]

\* What rpi_thread_start does to the queues and to who runs.
LEMMA StartEffect ==
  ASSUME IInv, Start
  PROVE  /\ QueuesWellFormed' /\ FQ' = FQ \ {Fresh} /\ cur_thread = NULL /\ on = NULL
         /\ runq'.head \in 0 .. MaxTid /\ runq'.tail \in 0 .. MaxTid /\ runq'.cnt \in Nat
         /\ runq'.cnt + Current' = runq.cnt
         /\ on' = cur_thread' /\ cur_thread' \in 0 .. MaxTid
         /\ RQ' \subseteq RQ /\ Active' = RQ /\ Active = RQ /\ cur_thread' \notin RQ'
         /\ \/ cur_thread' = NULL /\ ctx' = ctx
            \/ /\ cur_thread' \in RQ
               /\ ctx' = [ctx EXCEPT ![Fresh] = "start", ![cur_thread'] = "running"]
         /\ HeadLeft /\ (runq.cnt = 0 => cur_thread' = NULL)
<1> USE DEF IInv
<1>1. /\ NULL \notin Blocks /\ next \in Links(Blocks) /\ RQ \subseteq Blocks
      /\ runq.cnt \in Nat /\ QWellFormed(runq, next) /\ (QEmpty(runq) <=> runq.cnt = 0)
      /\ (runq.cnt > 0 => runq.head \in RQ) /\ (runq.cnt = 0 => RQ = {})
      /\ runq.head \in 0 .. MaxTid /\ runq.tail \in 0 .. MaxTid
  BY QueueFacts DEF RQ, TypeOK
<1>2. Blocks \cup {NULL} = 0 .. MaxTid
  BY MaxTidAssumption DEF Blocks, NULL
<1>3. QWellFormed(freeq', next') /\ FQ' = FQ \ {Fresh} /\ next' = next
  BY AllocEffect DEF Start, FQ
<1>4. on = NULL /\ cur_thread = NULL /\ Active = RQ
  <2>1. on = NULL /\ cur_thread = NULL
    BY DEF Start, Resumable
  <2> QED BY <2>1, <1>1 DEF Active
<1>5. CASE QEmpty(runq)
  <2>1. runq' = runq /\ cur_thread' = NULL /\ on' = on /\ ctx' = ctx
    BY <1>5 DEF Start, QEmpty
  <2>2. RQ' = RQ
    BY <2>1, <1>3 DEF RQ
  <2>3. RQ = {} /\ runq.cnt = 0 /\ Current' = 0 /\ Active' = {}
    BY <1>1, <1>5, <2>1, <2>2 DEF Current, Active
  <2>4. NULL \in 0 .. MaxTid /\ runq'.cnt + Current' = runq.cnt
    BY <2>1, <2>3, MaxTidAssumption DEF NULL
  <2> QED BY <1>1, <1>3, <1>4, <2>1, <2>2, <2>3, <2>4 DEF QueuesWellFormed, HeadLeft
<1>6. CASE ~ QEmpty(runq)
  <2>s. QSeq(runq, next)[1] = runq.head
    BY <1>1, <1>6, QSeqSteps
  <2> DEFINE p == QPop(runq, next)
  <2>1. /\ runq' = p /\ cur_thread' = runq.head /\ runq.cnt > 0
        /\ on' = (IF ctx[runq.head] = "start" THEN NULL ELSE runq.head)
        /\ ctx' = [ctx EXCEPT ![Fresh] = "start", ![runq.head] = "running"]
    BY <1>1, <1>6 DEF Start, Cswitch
  <2>2. /\ p.cnt = runq.cnt - 1
        /\ p.head \in Blocks \cup {NULL} /\ p.tail \in Blocks \cup {NULL}
        /\ QWellFormed(p, next) /\ On(p, next) = RQ \ {runq.head}
        /\ QSeq(p, next) = [k \in 1 .. runq.cnt - 1 |-> QSeq(runq, next)[k + 1]]
    BY <1>1, <2>1, PopFirst DEF RQ
  <2> HIDE DEF p
  <2>3. RQ' = RQ \ {runq.head}
    BY <1>3, <2>1, <2>2 DEF RQ
  <2>4. runq.head \in RQ /\ runq.head # NULL /\ ctx[runq.head] # "start"
    BY <1>1, <2>1 DEF Resumable
  <2>5. Current' = 1 /\ Active' = RQ
    BY <1>1, <2>1, <2>3, <2>4 DEF Current, Active
  <2>6. HeadLeft
    BY <1>3, <2>1, <2>2, <2>s DEF HeadLeft, RunSeq
  <2> QED BY <1>1, <1>2, <1>3, <1>4, <2>1, <2>2, <2>3, <2>4, <2>5, <2>6 DEF QueuesWellFormed
<1> QED BY <1>5, <1>6

\* rpi_thread_start keeps every block in its place.
LEMMA StartKeeps ==
  ASSUME IInv, Start
  PROVE  IInv'
<1> USE DEF IInv
<1> DEFINE e == Fresh
<1>1. /\ RQ \subseteq Blocks /\ FQ \subseteq Blocks /\ NULL \notin Blocks
      /\ runq.cnt \in Nat /\ freeq.cnt \in Nat
  BY QueueFacts DEF RQ, FQ
<1>2. /\ e \in Blocks /\ e \notin RQ
      /\ freeq'.cnt \in Nat /\ freeq'.head \in 0 .. MaxTid /\ freeq'.tail \in 0 .. MaxTid
      /\ nalloced' \in nalloced .. MaxTid /\ nalloced' < tid' /\ e <= nalloced'
      /\ nalloced' = nalloced + 1 => freeq.cnt = 0 /\ freeq'.cnt = 0
      /\ nalloced' # nalloced + 1 => nalloced' = nalloced /\ freeq'.cnt = freeq.cnt - 1 /\ freeq.cnt > 0
  BY AllocEffect DEF Start
<1>3. /\ QueuesWellFormed' /\ FQ' = FQ \ {e} /\ cur_thread = NULL /\ on = NULL
      /\ runq'.head \in 0 .. MaxTid /\ runq'.tail \in 0 .. MaxTid /\ runq'.cnt \in Nat
      /\ runq'.cnt + Current' = runq.cnt
      /\ on' = cur_thread' /\ cur_thread' \in 0 .. MaxTid
      /\ RQ' \subseteq RQ /\ Active' = RQ /\ Active = RQ /\ cur_thread' \notin RQ'
      /\ \/ cur_thread' = NULL /\ ctx' = ctx
         \/ /\ cur_thread' \in RQ
            /\ ctx' = [ctx EXCEPT ![e] = "start", ![cur_thread'] = "running"]
  BY StartEffect
<1>4. /\ tidOf' = [tidOf EXCEPT ![e] = tid] /\ tid' = tid + 1 /\ tid < MaxTid
      /\ scheduler_thread' = e /\ nstarts' = nstarts + 1 /\ next' = next
      /\ live' = live /\ peak' = peak
  BY DEF Start, Alloc
<1> HIDE DEF e
<1>5. TypeOK'
  <2>1. tidOf' \in [Blocks -> Nat] /\ tid' \in 1 .. MaxTid
    <3>1. tid \in Nat /\ tid >= 1
      BY MaxTidAssumption DEF TypeOK
    <3>2. tidOf' \in [Blocks -> Nat]
      BY <1>4, <3>1 DEF TypeOK
    <3> QED BY <1>4, <3>1, <3>2, MaxTidAssumption
  <2>2. ctx' \in [Blocks -> Contexts]
    <3>1. "start" \in Contexts /\ "running" \in Contexts
      BY DEF Contexts
    <3> QED BY <1>3, <3>1 DEF TypeOK
  <2>3. nalloced' \in 0 .. MaxTid /\ nstarts' \in Nat /\ scheduler_thread' \in 0 .. MaxTid
    BY <1>2, <1>4, MaxTidAssumption DEF TypeOK, Blocks
  <2>4. \A q \in {runq', freeq'} : q.head \in 0 .. MaxTid /\ q.tail \in 0 .. MaxTid /\ q.cnt \in Nat
    BY <1>2, <1>3
  <2> QED BY <1>3, <1>4, <2>1, <2>2, <2>3, <2>4 DEF TypeOK
<1>6. Apart'
  <2>1. cur_thread' \notin FQ'
    BY <1>1, <1>3 DEF Apart
  <2> QED BY <1>1, <1>2, <1>3, <1>4, <2>1 DEF Apart
<1>7. Known'
  <2>1. nalloced' >= nalloced /\ nalloced \in Nat /\ nalloced' \in Nat
    BY <1>2, MaxTidAssumption DEF TypeOK
  <2>2. \A b \in RQ \cup FQ : b \in Nat /\ b <= nalloced
    BY <1>1, MaxTidAssumption DEF Known, Blocks
  <2>3. \A b \in RQ' \cup FQ' \cup {cur_thread', scheduler_thread'} :
          b = e \/ b = NULL \/ b \in RQ \cup FQ
    BY <1>3, <1>4
  <2>4. \A b \in RQ' \cup FQ' \cup {cur_thread', scheduler_thread'} : b <= nalloced'
    <3> SUFFICES ASSUME NEW b, b = e \/ b = NULL \/ b \in RQ \cup FQ PROVE b <= nalloced'
      BY <2>3, Zenon
    <3>1. CASE b = e
      BY <3>1, <1>2
    <3>2. CASE b = NULL
      BY <3>2, <2>1 DEF NULL
    <3>3. CASE b \in RQ \cup FQ
      <4>1. b \in Nat /\ b <= nalloced
        BY <3>3, <2>2
      <4> QED BY <4>1, <2>1
    <3> QED BY <3>1, <3>2, <3>3
  <2> QED BY <1>2, <2>4 DEF Known
<1>8. Tids'
  <2>1. \A b \in RQ : tidOf'[b] = tidOf[b]
    BY <1>1, <1>2, <1>4 DEF TypeOK
  <2>2. tid' > tid /\ tid' \in Nat /\ tid \in Nat
    BY <1>4, MaxTidAssumption DEF TypeOK
  <2>3. \A b \in RQ : tidOf'[b] \in 1 .. tid' - 1
    BY <1>3, <2>1, <2>2 DEF Tids
  <2> QED BY <1>3, <1>4, <2>1, <2>3 DEF Tids
<1>9. Counted'
  <2>1. Current = 0 /\ Current' \in 0 .. 1
    BY <1>3 DEF Current
  <2>2. peak \in Nat /\ nstarts \in Nat /\ nalloced \in Nat /\ nalloced' \in Nat /\ Cardinality(live) \in Nat
    BY <1>2, MaxTidAssumption, FS_CardinalityType DEF TypeOK, Counted
  <2>3. nalloced' = runq'.cnt + freeq'.cnt + Current' + nstarts'
    BY <1>1, <1>2, <1>3, <1>4, <2>1, <2>2 DEF Counted
  <2>4. nalloced' <= peak' + nstarts'
    BY <1>2, <1>4, <2>2 DEF Counted, BlocksRecycled
  <2>5. Cardinality(live') = runq'.cnt + Current'
    BY <1>1, <1>3, <1>4, <2>1 DEF Counted
  <2> QED BY <1>4, <2>3, <2>4, <2>5 DEF Counted, BlocksRecycled
<1>10. Resumable'
  <2>1. \A b \in RQ' : ctx'[b] \in {"trampoline", "yield"}
    BY <1>1, <1>2, <1>3 DEF Resumable, TypeOK
  <2>2. on' # NULL => ctx'[e] = "start" /\ ctx'[on'] = "running" /\ e # NULL
    BY <1>1, <1>2, <1>3 DEF TypeOK
  <2> QED BY <1>3, <1>4, <2>1, <2>2 DEF Resumable
<1> QED BY <1>3, <1>5, <1>6, <1>7, <1>8, <1>9, <1>10

\* A change of the next fields of blocks of the other queue, or of one that is
\* on neither, leaves the free queue alone.
LEMMA FreeSpared ==
  ASSUME IInv, NEW nx \in Links(Blocks), NEW e \in Blocks, e \notin FQ,
         \A b \in Blocks : b # e /\ b # runq.tail => nx[b] = next[b]
  PROVE  QWellFormed(freeq, nx) /\ On(freeq, nx) = FQ
<1> USE DEF IInv
<1>1. /\ NULL \notin Blocks /\ next \in Links(Blocks) /\ FQ \subseteq Blocks
      /\ runq.cnt \in Nat /\ freeq.cnt \in Nat
      /\ QWellFormed(runq, next) /\ QWellFormed(freeq, next)
  BY QueueFacts DEF FQ
<1>2. runq.tail # NULL => runq.tail \in RQ
  <2>1. runq.tail # NULL => runq.cnt # 0 /\ QSeq(runq, next)[runq.cnt] = runq.tail
    BY <1>1 DEF QWellFormed
  <2> QED BY <1>1, <2>1 DEF RQ, On
<1>3. \A b \in On(freeq, next) : nx[b] = next[b]
  BY <1>1, <1>2 DEF Apart, FQ
<1> QED BY <1>1, <1>3, OtherQueue DEF FQ

\* What rpi_yield does to the queues and to who runs.
LEMMA YieldEffect ==
  ASSUME IInv, Yield
  PROVE  /\ QueuesWellFormed' /\ next' \in Links(Blocks) /\ FQ' = FQ
         /\ runq'.head \in 0 .. MaxTid /\ runq'.tail \in 0 .. MaxTid /\ runq'.cnt = runq.cnt
         /\ runq.head \in RQ /\ runq.head # cur_thread /\ cur_thread \in Blocks
         /\ RQ' = (RQ \cup {cur_thread}) \ {runq.head}
         /\ cur_thread' = runq.head /\ on' = runq.head
         /\ ctx' = [ctx EXCEPT ![cur_thread] = "yield", ![runq.head] = "running"]
         /\ runq.cnt > 0 /\ cur_thread' = RunSeq[1]
         /\ \A k \in 1 .. runq.cnt : RunSeq'[k] = IF k = runq.cnt THEN cur_thread ELSE RunSeq[k + 1]
<1> USE DEF IInv
<1> DEFINE e == cur_thread
           nq == QAppend(runq, next, e).q
           nx == QAppend(runq, next, e).nx
           p == QPop(nq, nx)
           h == runq.head
<1>1. /\ NULL \notin Blocks /\ next \in Links(Blocks) /\ RQ \subseteq Blocks
      /\ runq.cnt \in Nat /\ QWellFormed(runq, next) /\ (QEmpty(runq) <=> runq.cnt = 0)
      /\ (runq.cnt > 0 => h \in RQ)
  BY QueueFacts DEF RQ
<1>2. Blocks \cup {NULL} = 0 .. MaxTid
  BY MaxTidAssumption DEF Blocks, NULL
<1>3. /\ runq.cnt > 0 /\ h \in RQ /\ e \in Blocks /\ e \notin RQ /\ e \notin FQ /\ h # e
  <2>1. e \in 0 .. MaxTid /\ e # NULL /\ e \notin RQ /\ e \notin FQ
    BY DEF Yield, Resumable, Apart, TypeOK
  <2>2. e \in Blocks
    BY <1>2, <2>1
  <2> QED BY <1>1, <2>1, <2>2 DEF Yield
<1>4. /\ nx \in Links(Blocks) /\ nq.cnt = runq.cnt + 1
      /\ \A b \in Blocks : b # e /\ b # runq.tail => nx[b] = next[b]
      /\ nq.head = h /\ QWellFormed(nq, nx) /\ On(nq, nx) = RQ \cup {e}
      /\ QSeq(nq, nx) = [k \in 1 .. runq.cnt + 1 |-> IF k = runq.cnt + 1 THEN e ELSE RunSeq[k]]
  <2>1. e \notin On(runq, next) /\ On(runq, next) = RQ
    BY <1>3 DEF RQ
  <2>2. ASSUME NEW nq2, nq2 = QAppend(runq, next, e).q, NEW nx2, nx2 = QAppend(runq, next, e).nx
        PROVE  /\ nx2 \in Links(Blocks) /\ nq2.cnt = runq.cnt + 1
               /\ \A b \in Blocks : b # e /\ b # runq.tail => nx2[b] = next[b]
               /\ nq2.head = h /\ QWellFormed(nq2, nx2) /\ On(nq2, nx2) = RQ \cup {e}
               /\ QSeq(nq2, nx2) = [k \in 1 .. runq.cnt + 1 |-> IF k = runq.cnt + 1 THEN e ELSE RunSeq[k]]
    <3> HIDE DEF e, h
    <3>1. nq2.head = runq.head
      BY <1>1, <1>3, <2>1, <2>2, AppendLast
    <3> QED BY <1>1, <1>3, <2>1, <2>2, <3>1, AppendLast DEF h, RunSeq
  <2> HIDE DEF e, h
  <2> QED BY <2>2, ZenonT(60)
<1>5. runq' = p /\ next' = nx
  BY DEF Yield, Yielded
<1>6. cur_thread' = nq.head /\ on' = (IF ctx[nq.head] = "start" THEN NULL ELSE nq.head)
      /\ ctx' = [ctx EXCEPT ![e] = "yield", ![nq.head] = "running"]
  BY DEF Yield, Yielded, Cswitch, YieldSaves
<1> HIDE DEF e, nq, nx, h
<1>7. /\ p.cnt = runq.cnt
      /\ p.head \in Blocks \cup {NULL} /\ p.tail \in Blocks \cup {NULL}
      /\ QWellFormed(p, nx) /\ On(p, nx) = (RQ \cup {e}) \ {h}
      /\ QSeq(p, nx) = [k \in 1 .. nq.cnt - 1 |-> QSeq(nq, nx)[k + 1]]
  <2>1. nq.cnt \in Nat /\ nq.cnt > 0
    BY <1>1, <1>3, <1>4
  <2> QED BY <1>1, <1>3, <1>4, <2>1, PopFirst
<1> HIDE DEF p
<1>8. QWellFormed(freeq, nx) /\ On(freeq, nx) = FQ
  BY <1>3, <1>4, FreeSpared
<1>9. freeq' = freeq
  BY DEF Yield
<1>10. RQ' = (RQ \cup {e}) \ {h} /\ FQ' = FQ /\ QueuesWellFormed'
  BY <1>5, <1>7, <1>8, <1>9 DEF RQ, FQ, QueuesWellFormed
<1>11. ctx[h] # "start"
  BY <1>3 DEF Resumable
<1>12. cur_thread' = h /\ on' = h
  BY <1>4, <1>6, <1>11
<1>13. \A k \in 1 .. runq.cnt : RunSeq'[k] = IF k = runq.cnt THEN e ELSE RunSeq[k + 1]
  <2> SUFFICES ASSUME NEW k \in 1 .. runq.cnt PROVE RunSeq'[k] = IF k = runq.cnt THEN e ELSE RunSeq[k + 1]
    OBVIOUS
  <2>1. RunSeq' = QSeq(p, nx)
    BY <1>5 DEF RunSeq
  <2>2. k \in 1 .. nq.cnt - 1 /\ k + 1 \in 1 .. runq.cnt + 1
    BY <1>1, <1>4
  <2>3. QSeq(p, nx)[k] = QSeq(nq, nx)[k + 1]
    BY <1>7, <2>2
  <2>4. QSeq(nq, nx)[k + 1] = IF k = runq.cnt THEN e ELSE RunSeq[k + 1]
    BY <1>1, <1>4, <2>2
  <2> QED BY <2>1, <2>3, <2>4
<1>14. RunSeq[1] = h
  BY <1>1, <1>3, QSeqSteps DEF h, RunSeq
<1> QED BY <1>2, <1>3, <1>4, <1>5, <1>6, <1>7, <1>10, <1>12, <1>13, <1>14 DEF e, h

\* rpi_yield keeps every block in its place.
LEMMA YieldKeeps ==
  ASSUME IInv, Yield
  PROVE  IInv'
<1> USE DEF IInv
<1>1. /\ RQ \subseteq Blocks /\ FQ \subseteq Blocks /\ NULL \notin Blocks
      /\ runq.cnt \in Nat /\ freeq.cnt \in Nat
  BY QueueFacts DEF RQ, FQ
<1>2. /\ QueuesWellFormed' /\ next' \in Links(Blocks) /\ FQ' = FQ
      /\ runq'.head \in 0 .. MaxTid /\ runq'.tail \in 0 .. MaxTid /\ runq'.cnt = runq.cnt
      /\ runq.head \in RQ /\ runq.head # cur_thread /\ cur_thread \in Blocks
      /\ RQ' = (RQ \cup {cur_thread}) \ {runq.head}
      /\ cur_thread' = runq.head /\ on' = runq.head
      /\ ctx' = [ctx EXCEPT ![cur_thread] = "yield", ![runq.head] = "running"]
  BY YieldEffect
<1>3. /\ UNCHANGED <<freeq, tidOf, nalloced, tid, scheduler_thread, live, peak, nstarts>>
      /\ on # NULL
  BY DEF Yield
<1>4. on = cur_thread /\ cur_thread # NULL /\ runq.head # NULL /\ runq.head \in Blocks
  BY <1>1, <1>2, <1>3 DEF Resumable
<1>5. Active' = Active /\ Current' = Current
  BY <1>1, <1>2, <1>4 DEF Active, Current
<1>6. TypeOK'
  <2>1. next' \in [Blocks -> 0 .. MaxTid]
    BY <1>2, MaxTidAssumption DEF Links, Blocks, NULL
  <2>2. ctx' \in [Blocks -> Contexts]
    <3>1. "yield" \in Contexts /\ "running" \in Contexts
      BY DEF Contexts
    <3> QED BY <1>2, <3>1 DEF TypeOK
  <2>3. \A q \in {runq', freeq'} : q.head \in 0 .. MaxTid /\ q.tail \in 0 .. MaxTid /\ q.cnt \in Nat
    BY <1>1, <1>2, <1>3 DEF TypeOK
  <2>4. cur_thread' \in 0 .. MaxTid /\ on' \in 0 .. MaxTid
    BY <1>2, <1>4, MaxTidAssumption DEF Blocks
  <2> QED BY <1>3, <2>1, <2>2, <2>3, <2>4 DEF TypeOK
<1>7. Apart'
  BY <1>2, <1>3, <1>4 DEF Apart
<1>8. Known'
  BY <1>2, <1>3 DEF Known
<1>9. Tids' /\ Counted'
  BY <1>2, <1>3, <1>5 DEF Tids, Counted, BlocksRecycled
<1>10. Resumable'
  <2>1. \A b \in RQ' : ctx'[b] \in {"trampoline", "yield"}
    BY <1>1, <1>2 DEF Resumable, TypeOK
  <2>2. ctx'[scheduler_thread] = "start" /\ ctx'[on'] = "running" /\ scheduler_thread # NULL
    <3>1. scheduler_thread \in Blocks
      BY <1>3, MaxTidAssumption DEF Resumable, TypeOK, Blocks, NULL
    <3> QED BY <1>2, <1>3, <1>4, <3>1 DEF Resumable, Apart, TypeOK
  <2> QED BY <1>2, <1>3, <2>1, <2>2 DEF Resumable
<1> QED BY <1>2, <1>6, <1>7, <1>8, <1>9, <1>10

\* The same for the run queue when a block goes to the free queue.
LEMMA RunSpared ==
  ASSUME IInv, NEW nx \in Links(Blocks), NEW e \in Blocks, e \notin RQ,
         \A b \in Blocks : b # e /\ b # freeq.tail => nx[b] = next[b]
  PROVE  QWellFormed(runq, nx) /\ On(runq, nx) = RQ /\ QSeq(runq, nx) = RunSeq
<1> USE DEF IInv
<1>1. /\ NULL \notin Blocks /\ next \in Links(Blocks) /\ RQ \subseteq Blocks
      /\ runq.cnt \in Nat /\ freeq.cnt \in Nat
      /\ QWellFormed(runq, next) /\ QWellFormed(freeq, next)
  BY QueueFacts DEF RQ
<1>2. freeq.tail # NULL => freeq.tail \in FQ
  <2>1. freeq.tail # NULL => freeq.cnt # 0 /\ QSeq(freeq, next)[freeq.cnt] = freeq.tail
    BY <1>1 DEF QWellFormed
  <2> QED BY <1>1, <2>1 DEF FQ, On
<1>3. \A b \in On(runq, next) : nx[b] = next[b]
  BY <1>1, <1>2 DEF Apart, RQ
<1> QED BY <1>1, <1>3, OtherQueue DEF RQ, RunSeq

\* What rpi_exit does to the queues and to who runs.
LEMMA ExitEffect ==
  ASSUME IInv, Exit
  PROVE  /\ QueuesWellFormed' /\ next' \in Links(Blocks) /\ FQ' = FQ \cup {cur_thread}
         /\ freeq'.head \in 0 .. MaxTid /\ freeq'.tail \in 0 .. MaxTid /\ freeq'.cnt = freeq.cnt + 1
         /\ runq'.head \in 0 .. MaxTid /\ runq'.tail \in 0 .. MaxTid /\ runq'.cnt \in Nat
         /\ runq'.cnt + Current' = runq.cnt /\ Current = 1
         /\ cur_thread \in Blocks /\ cur_thread \notin RQ
         /\ RQ' \subseteq RQ /\ Active = RQ \cup {cur_thread} /\ Active' = RQ
         /\ on' = cur_thread' /\ cur_thread' \in 0 .. MaxTid /\ cur_thread' \notin RQ'
         /\ \/ /\ cur_thread' = NULL
               /\ ctx' = [ctx EXCEPT ![cur_thread] = "exit", ![scheduler_thread] = "running"]
               /\ RQ = {}
            \/ /\ cur_thread' \in RQ
               /\ ctx' = [ctx EXCEPT ![cur_thread] = "exit", ![cur_thread'] = "running"]
         /\ HeadLeft /\ (runq.cnt = 0 => cur_thread' = NULL)
<1> USE DEF IInv
<1> DEFINE e == cur_thread
           nq == QAppend(freeq, next, e).q
           nx == QAppend(freeq, next, e).nx
           h == runq.head
<1>1. /\ NULL \notin Blocks /\ next \in Links(Blocks) /\ RQ \subseteq Blocks
      /\ freeq.cnt \in Nat /\ QWellFormed(freeq, next) /\ freeq.head \in 0 .. MaxTid
      /\ runq.cnt \in Nat /\ QWellFormed(runq, next) /\ (QEmpty(runq) <=> runq.cnt = 0)
      /\ (runq.cnt > 0 => h \in RQ) /\ (runq.cnt = 0 => RQ = {})
      /\ runq.head \in 0 .. MaxTid /\ runq.tail \in 0 .. MaxTid
  BY QueueFacts DEF RQ, TypeOK
<1>2. Blocks \cup {NULL} = 0 .. MaxTid
  BY MaxTidAssumption DEF Blocks, NULL
<1>3. e \in Blocks /\ e \notin RQ /\ e \notin FQ /\ on = e /\ e # NULL
  <2>1. e \in 0 .. MaxTid /\ e # NULL /\ e \notin RQ /\ e \notin FQ /\ on = e
    BY DEF Exit, Resumable, Apart, TypeOK
  <2> QED BY <1>2, <2>1
<1>4. /\ nx \in Links(Blocks) /\ nq.cnt = freeq.cnt + 1
      /\ \A b \in Blocks : b # e /\ b # freeq.tail => nx[b] = next[b]
      /\ nq.head = (IF freeq.cnt = 0 THEN e ELSE freeq.head) /\ nq.tail = e
      /\ QWellFormed(nq, nx) /\ On(nq, nx) = FQ \cup {e}
  <2>1. e \notin On(freeq, next) /\ On(freeq, next) = FQ
    BY <1>3 DEF FQ
  <2>2. nq = QAppend(freeq, next, e).q /\ nx = QAppend(freeq, next, e).nx
    OBVIOUS
  <2> HIDE DEF e, nq, nx
  <2> QED BY <1>1, <1>3, <2>1, <2>2, AppendLast
<1>5. /\ freeq' = nq /\ next' = nx
      /\ QEmpty(runq) => cur_thread' = NULL /\ runq' = runq
                         /\ on' = (IF ctx[scheduler_thread] = "start" THEN NULL ELSE scheduler_thread)
                         /\ ctx' = [ctx EXCEPT ![e] = "exit", ![scheduler_thread] = "running"]
      /\ ~ QEmpty(runq) => cur_thread' = h /\ runq' = QPop(runq, nx)
                           /\ on' = (IF ctx[h] = "start" THEN NULL ELSE h)
                           /\ ctx' = [ctx EXCEPT ![e] = "exit", ![h] = "running"]
  BY DEF Exit, Retired, NoneLeft, Cswitch
<1> HIDE DEF e, nq, nx, h
<1>6. QWellFormed(runq, nx) /\ On(runq, nx) = RQ /\ QSeq(runq, nx) = RunSeq
  BY <1>3, <1>4, RunSpared
<1>7. nq.head \in 0 .. MaxTid /\ nq.tail \in 0 .. MaxTid
  BY <1>1, <1>2, <1>3, <1>4
<1>8. Active = RQ \cup {e} /\ Current = 1
  BY <1>1, <1>3 DEF Active, Current, e
<1>9. CASE QEmpty(runq)
  <2>1. RQ' = RQ /\ RQ = {} /\ FQ' = FQ \cup {e} /\ QueuesWellFormed'
    BY <1>1, <1>4, <1>5, <1>6, <1>9 DEF RQ, FQ, QueuesWellFormed
  <2>2. on' = NULL /\ cur_thread' = NULL /\ NULL \in 0 .. MaxTid
    BY <1>2, <1>3, <1>5, <1>9 DEF Resumable
  <2>3. Active' = {} /\ Current' = 0 /\ runq'.cnt = 0 /\ runq.cnt = 0
    BY <1>1, <1>5, <1>9, <2>1, <2>2 DEF Active, Current
  <2> QED BY <1>1, <1>3, <1>4, <1>5, <1>7, <1>8, <1>9, <2>1, <2>2, <2>3 DEF e, HeadLeft
<1>10. CASE ~ QEmpty(runq)
  <2> DEFINE p == QPop(runq, nx)
  <2>1. runq.cnt > 0 /\ h \in RQ /\ h # e
    BY <1>1, <1>3, <1>10
  <2>2. /\ p.cnt = runq.cnt - 1
        /\ p.head \in Blocks \cup {NULL} /\ p.tail \in Blocks \cup {NULL}
        /\ QWellFormed(p, nx) /\ On(p, nx) = RQ \ {h}
        /\ QSeq(p, nx) = [k \in 1 .. runq.cnt - 1 |-> RunSeq[k + 1]]
    BY <1>1, <1>4, <1>6, <2>1, PopFirst DEF h
  <2>3. runq' = p
    BY <1>5, <1>10
  <2> HIDE DEF p
  <2>4. RQ' = RQ \ {h} /\ FQ' = FQ \cup {e} /\ QueuesWellFormed'
    BY <1>4, <1>5, <2>2, <2>3 DEF RQ, FQ, QueuesWellFormed
  <2>5. on' = h /\ cur_thread' = h /\ h # NULL
    BY <1>1, <1>5, <1>10, <2>1 DEF Resumable
  <2>6. Active' = RQ /\ Current' = 1
    BY <1>1, <2>1, <2>4, <2>5 DEF Active, Current
  <2>7. runq'.head \in 0 .. MaxTid /\ runq'.tail \in 0 .. MaxTid /\ h \in 0 .. MaxTid
    BY <1>1, <1>2, <2>1, <2>2, <2>3
  <2>8. runq'.cnt \in Nat /\ runq'.cnt + Current' = runq.cnt
    BY <1>1, <2>1, <2>2, <2>3, <2>6
  <2>9. HeadLeft
    <3>1. RunSeq[1] = h
      BY <1>1, <2>1, QSeqSteps DEF h, RunSeq
    <3>2. RunSeq' = QSeq(p, nx)
      BY <1>5, <2>3 DEF RunSeq
    <3> QED BY <1>1, <2>2, <2>3, <2>5, <3>1, <3>2 DEF HeadLeft
  <2> QED BY <1>1, <1>3, <1>4, <1>5, <1>7, <1>8, <1>10, <2>1, <2>4, <2>5, <2>6, <2>7, <2>8, <2>9 DEF e
<1> QED BY <1>9, <1>10

\* rpi_exit keeps every block in its place.
LEMMA ExitKeeps ==
  ASSUME IInv, Exit
  PROVE  IInv'
<1> USE DEF IInv
<1>1. /\ RQ \subseteq Blocks /\ FQ \subseteq Blocks /\ NULL \notin Blocks
      /\ runq.cnt \in Nat /\ freeq.cnt \in Nat
  BY QueueFacts DEF RQ, FQ
<1>2. /\ QueuesWellFormed' /\ next' \in Links(Blocks) /\ FQ' = FQ \cup {cur_thread}
      /\ freeq'.head \in 0 .. MaxTid /\ freeq'.tail \in 0 .. MaxTid /\ freeq'.cnt = freeq.cnt + 1
      /\ runq'.head \in 0 .. MaxTid /\ runq'.tail \in 0 .. MaxTid /\ runq'.cnt \in Nat
      /\ runq'.cnt + Current' = runq.cnt /\ Current = 1
      /\ cur_thread \in Blocks /\ cur_thread \notin RQ
      /\ RQ' \subseteq RQ /\ Active = RQ \cup {cur_thread} /\ Active' = RQ
      /\ on' = cur_thread' /\ cur_thread' \in 0 .. MaxTid /\ cur_thread' \notin RQ'
      /\ \/ /\ cur_thread' = NULL
            /\ ctx' = [ctx EXCEPT ![cur_thread] = "exit", ![scheduler_thread] = "running"]
            /\ RQ = {}
         \/ /\ cur_thread' \in RQ
            /\ ctx' = [ctx EXCEPT ![cur_thread] = "exit", ![cur_thread'] = "running"]
  BY ExitEffect
<1>3. /\ UNCHANGED <<tidOf, nalloced, tid, scheduler_thread, peak, nstarts>>
      /\ on # NULL /\ live' = live \ {tidOf[cur_thread]}
  BY DEF Exit
<1>4. scheduler_thread \in Blocks /\ scheduler_thread # cur_thread /\ scheduler_thread \notin RQ
  BY <1>3, MaxTidAssumption DEF Resumable, TypeOK, Blocks, NULL, Apart
<1>5. tidOf[cur_thread] \in live /\ live' = {tidOf[b] : b \in RQ}
  BY <1>2, <1>3 DEF Tids
<1>6. IsFiniteSet(live') /\ Cardinality(live') = Cardinality(live) - 1 /\ Cardinality(live) \in Nat
  BY <1>3, <1>5, FS_RemoveElement, FS_CardinalityType DEF Counted
<1>7. TypeOK'
  <2>1. next' \in [Blocks -> 0 .. MaxTid]
    BY <1>2, MaxTidAssumption DEF Links, Blocks, NULL
  <2>2. ctx' \in [Blocks -> Contexts]
    <3>1. "exit" \in Contexts /\ "running" \in Contexts
      BY DEF Contexts
    <3> QED BY <1>2, <3>1 DEF TypeOK
  <2>3. \A q \in {runq', freeq'} : q.head \in 0 .. MaxTid /\ q.tail \in 0 .. MaxTid /\ q.cnt \in Nat
    BY <1>1, <1>2
  <2> QED BY <1>2, <1>3, <2>1, <2>2, <2>3 DEF TypeOK
<1>8. Apart'
  <2>1. cur_thread' \notin FQ'
    BY <1>1, <1>2 DEF Apart
  <2>2. on' # NULL => cur_thread' \in RQ
    BY <1>2
  <2> QED BY <1>1, <1>2, <1>3, <1>4, <2>1, <2>2 DEF Apart
<1>9. Known'
  <2>1. nalloced \in Nat /\ NULL <= nalloced
    BY MaxTidAssumption DEF TypeOK, NULL
  <2>2. \A b \in RQ' \cup FQ' \cup {cur_thread', scheduler_thread'} :
          b = NULL \/ b \in RQ \cup FQ \cup {cur_thread, scheduler_thread}
    BY <1>2, <1>3
  <2> QED BY <1>3, <2>1, <2>2 DEF Known
<1>10. Tids'
  <2>1. \A b \in RQ : b \in Active
    BY <1>2
  <2> QED BY <1>2, <1>3, <1>5, <2>1 DEF Tids
<1>11. Counted'
  <2>1. Current' \in 0 .. 1 /\ nalloced \in Nat /\ nstarts \in Nat /\ peak \in Nat
    BY MaxTidAssumption DEF Current, TypeOK
  <2>2. nalloced' = runq'.cnt + freeq'.cnt + Current' + nstarts'
    BY <1>1, <1>2, <1>3, <2>1 DEF Counted
  <2>3. Cardinality(live') = runq'.cnt + Current' /\ Cardinality(live') <= peak'
    BY <1>1, <1>2, <1>3, <1>6, <2>1 DEF Counted
  <2> QED BY <1>3, <1>6, <2>2, <2>3 DEF Counted, BlocksRecycled
<1>12. Resumable'
  <2>1. \A b \in RQ' : ctx'[b] \in {"trampoline", "yield"}
    BY <1>1, <1>2 DEF Resumable, TypeOK
  <2>2. on' # NULL => /\ ctx'[scheduler_thread] = "start" /\ ctx'[on'] = "running"
                      /\ scheduler_thread # NULL
    <3> SUFFICES ASSUME on' # NULL PROVE ctx'[scheduler_thread] = "start" /\ ctx'[on'] = "running"
      BY <1>1, <1>4
    <3>1. /\ cur_thread' \in RQ
          /\ ctx' = [ctx EXCEPT ![cur_thread] = "exit", ![cur_thread'] = "running"]
      BY <1>2
    <3>2. ctx[scheduler_thread] = "start" /\ ctx \in [Blocks -> Contexts]
      BY <1>3 DEF Resumable, TypeOK
    <3> QED BY <1>1, <1>2, <1>4, <3>1, <3>2
  <2> QED BY <1>2, <1>3, <2>1, <2>2 DEF Resumable
<1> QED BY <1>2, <1>7, <1>8, <1>9, <1>10, <1>11, <1>12

LEMMA InitInv == Init => IInv
<1> SUFFICES ASSUME Init PROVE IInv
  OBVIOUS
<1>1. runq.cnt = 0 /\ freeq.cnt = 0 /\ runq.head = NULL /\ freeq.head = NULL
      /\ runq.tail = NULL /\ freeq.tail = NULL
  BY DEF Init, QInit
<1>2. RQ = {} /\ FQ = {} /\ Active = {} /\ Current = 0
  BY <1>1 DEF RQ, FQ, Active, Current, On, Init
<1>3. QueuesWellFormed
  BY <1>1 DEF QueuesWellFormed, QWellFormed
<1>4. TypeOK
  <2>1. \A q \in {runq, freeq} : q.head \in 0 .. MaxTid /\ q.tail \in 0 .. MaxTid /\ q.cnt \in Nat
    BY <1>1, MaxTidAssumption DEF NULL
  <2>2. next \in [Blocks -> 0 .. MaxTid] /\ tidOf \in [Blocks -> Nat] /\ ctx \in [Blocks -> Contexts]
    BY MaxTidAssumption DEF Init, NULL, Contexts
  <2> QED BY <2>1, <2>2, MaxTidAssumption DEF TypeOK, Init, NULL
<1>5. Counted
  BY <1>1, <1>2, FS_EmptySet DEF Counted, BlocksRecycled, Init
<1> QED BY <1>2, <1>3, <1>4, <1>5 DEF IInv, Init, Apart, Known, Tids, Resumable, NULL

LEMMA StepInv == IInv /\ [Next]_vars => IInv'
<1> SUFFICES ASSUME IInv, [Next]_vars PROVE IInv'
  OBVIOUS
<1>1. CASE Fork
  BY <1>1, ForkKeeps
<1>2. CASE Start
  BY <1>2, StartKeeps
<1>3. CASE Yield
  BY <1>3, YieldKeeps
<1>4. CASE Exit
  BY <1>4, ExitKeeps
<1>5. CASE UNCHANGED vars
  BY <1>5 DEF vars, IInv, TypeOK, QueuesWellFormed, Apart, Known, Tids, Counted, Resumable,
              RQ, FQ, Active, Current, BlocksRecycled
<1> QED BY <1>1, <1>2, <1>3, <1>4, <1>5 DEF Next

LEMMA InvariantHolds == Spec => []IInv
  BY InitInv, StepInv, PTL DEF Spec

\* Every block and every thread is where the next switch looks for it, and
\* nowhere else, for any number of threads.
THEOREM EveryBlockInPlace == Spec => []BlocksInPlace
<1>1. IInv => BlocksInPlace
  <2> SUFFICES ASSUME IInv PROVE BlocksInPlace
    OBVIOUS
  <2>1. OnQueue(runq) = RQ /\ OnQueue(freeq) = FQ
    BY DEF OnQueue, RQ, FQ, On
  <2>2. OneOwner
    BY <2>1 DEF IInv, Apart, OneOwner
  <2>3. NoThreadLost
    BY <2>1 DEF IInv, Tids, Counted, NoThreadLost, Active, Current
  <2>4. ResumableContexts
    BY <2>1 DEF IInv, Resumable, ResumableContexts
  <2> QED BY <2>2, <2>3, <2>4 DEF IInv, Counted, BlocksInPlace
<1> QED BY <1>1, InvariantHolds, PTL

-----------------------------------------------------------------------------
\* The thread ids waiting, as the refinement mapping reads them.
Ready == [i \in 1 .. runq.cnt |-> tidOf[RunSeq[i]]]
Running == IF cur_thread = NULL THEN 0 ELSE tidOf[cur_thread]

ReadyOK ==
  /\ Ready \in Seq(Nat) /\ Len(Ready) = runq.cnt /\ runq.cnt \in Nat
  /\ \A i \in 1 .. runq.cnt : /\ Ready[i] = tidOf[RunSeq[i]] /\ RunSeq[i] \in RQ
                              /\ RunSeq[i] \in Active
  /\ \A i \in 1 .. runq.cnt : Ready[i] < tid
  /\ cur_thread # NULL => Running \in 1 .. tid - 1

LEMMA ReadyFacts == IInv => ReadyOK
<1> SUFFICES ASSUME IInv PROVE ReadyOK
  OBVIOUS
<1> USE DEF IInv
<1>1. runq.cnt \in Nat /\ RQ \subseteq Blocks /\ NULL \notin Blocks
  BY QueueFacts DEF RQ
<1>2. \A i \in 1 .. runq.cnt : RunSeq[i] \in RQ /\ RunSeq[i] \in Active
  BY <1>1 DEF RunSeq, RQ, On, Active
<1>3. \A i \in 1 .. runq.cnt : tidOf[RunSeq[i]] \in Nat /\ tidOf[RunSeq[i]] < tid
  BY <1>2 DEF Tids, TypeOK
<1>4. Ready \in [1 .. runq.cnt -> Nat]
  BY <1>3 DEF Ready
<1>5. Ready \in Seq(Nat) /\ Len(Ready) = runq.cnt
  BY <1>1, <1>4, IsASeq, LenProperties
<1>6. cur_thread # NULL => cur_thread \in Active
  BY DEF Active
<1>7. \A i \in 1 .. runq.cnt : Ready[i] = tidOf[RunSeq[i]]
  BY DEF Ready
<1> QED BY <1>1, <1>2, <1>3, <1>5, <1>6, <1>7 DEF Tids, Running, ReadyOK

\* A dispatch of the abstract queue, from what HeadLeft says of the linked one.
LEMMA Dispatches ==
  ASSUME NEW s \in Seq(Nat), NEW t \in Seq(Nat), NEW r, s # <<>>, r = s[1], Len(t) = Len(s) - 1,
         \A k \in 1 .. Len(t) : t[k] = s[k + 1]
  PROVE  r = Head(s) /\ t = Tail(s)
<1>1. /\ Tail(s) \in Seq(Nat) /\ Len(Tail(s)) = Len(s) - 1
      /\ \A k \in 1 .. Len(Tail(s)) : Tail(s)[k] = s[k + 1]
  BY HeadTailProperties
<1>2. t = Tail(s)
  BY <1>1, SeqEqual
<1> QED BY <1>2, HeadTailProperties

LEMMA InitRefines == Init => R!Init
<1> SUFFICES ASSUME Init PROVE Ready = <<>> /\ Running = 0
  BY DEF R!Init, R!NoThread, Ready, Running
<1>1. runq.cnt = 0 /\ cur_thread = NULL
  BY DEF Init, QInit
<1> QED BY <1>1 DEF Ready, Running

LEMMA ForkRefines ==
  ASSUME IInv, IInv', Fork
  PROVE  R!Fork
<1> USE DEF IInv
<1>r. ReadyOK /\ ReadyOK'
  BY ReadyFacts, PTL
<1>1. /\ NULL \notin Blocks /\ next \in Links(Blocks) /\ RQ \subseteq Blocks
      /\ runq.cnt \in Nat /\ QWellFormed(runq, next)
  BY QueueFacts DEF RQ
<1>2. Fresh \in Blocks /\ Fresh \notin RQ /\ Fresh # cur_thread
  BY AllocEffect DEF Fork
<1> DEFINE nq == QAppend(runq, next, Fresh).q
           nx == QAppend(runq, next, Fresh).nx
<1>3. /\ nq.cnt = runq.cnt + 1
      /\ QSeq(nq, nx) = [k \in 1 .. runq.cnt + 1 |-> IF k = runq.cnt + 1 THEN Fresh ELSE RunSeq[k]]
  <2>1. Fresh \notin On(runq, next)
    BY <1>2 DEF RQ
  <2>2. nq = QAppend(runq, next, Fresh).q /\ nx = QAppend(runq, next, Fresh).nx
    OBVIOUS
  <2> HIDE DEF nq, nx
  <2> QED BY <1>1, <1>2, <2>1, <2>2, AppendLast DEF RunSeq
<1>4. /\ runq' = nq /\ next' = nx /\ cur_thread' = cur_thread
      /\ tidOf' = [tidOf EXCEPT ![Fresh] = tid] /\ tid < MaxTid
  BY DEF Fork, Alloc
<1> HIDE DEF nq, nx
<1>5. \A k \in 1 .. runq.cnt + 1 : RunSeq'[k] = IF k = runq.cnt + 1 THEN Fresh ELSE RunSeq[k]
  BY <1>3, <1>4 DEF RunSeq
<1>6. /\ Ready \in Seq(Nat) /\ Len(Ready) = runq.cnt
      /\ \A i \in 1 .. runq.cnt : /\ Ready[i] = tidOf[RunSeq[i]] /\ RunSeq[i] \in RQ
                                  /\ RunSeq[i] \in Active
      /\ \A i \in 1 .. runq.cnt : Ready[i] < tid
      /\ cur_thread # NULL => Running \in 1 .. tid - 1
  BY <1>r DEF ReadyOK
<1>7. /\ Ready' \in Seq(Nat) /\ Len(Ready') = runq.cnt + 1
      /\ \A i \in 1 .. runq.cnt + 1 : Ready'[i] = tidOf'[RunSeq'[i]]
  BY <1>3, <1>4, <1>r DEF ReadyOK
<1>8. tid \in 1 .. MaxTid /\ MaxTid \in Nat /\ tidOf \in [Blocks -> Nat]
  BY MaxTidAssumption DEF TypeOK
<1>9. Ready' = Append(Ready, tid)
  <2>1. tidOf'[Fresh] = tid /\ \A b \in RQ : tidOf'[b] = tidOf[b]
    BY <1>1, <1>2, <1>4, <1>8
  <2>2. Ready'[runq.cnt + 1] = tid /\ \A i \in 1 .. runq.cnt : Ready'[i] = Ready[i]
    <3>1. RunSeq'[runq.cnt + 1] = Fresh /\ \A i \in 1 .. runq.cnt : RunSeq'[i] = RunSeq[i]
      BY <1>1, <1>5
    <3>2. runq.cnt + 1 \in 1 .. runq.cnt + 1 /\ \A i \in 1 .. runq.cnt : i \in 1 .. runq.cnt + 1
      BY <1>1
    <3>3. Ready'[runq.cnt + 1] = tid
      BY <1>7, <2>1, <3>1, <3>2
    <3>4. ASSUME NEW i \in 1 .. runq.cnt PROVE Ready'[i] = Ready[i]
      <4>1. Ready'[i] = tidOf'[RunSeq'[i]] /\ RunSeq'[i] = RunSeq[i]
        BY <1>7, <3>1, <3>2
      <4>2. Ready[i] = tidOf[RunSeq[i]] /\ RunSeq[i] \in RQ
        BY <1>6
      <4> QED BY <2>1, <4>1, <4>2
    <3> QED BY <3>3, <3>4
  <2>3. /\ Append(Ready, tid) \in Seq(Nat) /\ Len(Append(Ready, tid)) = runq.cnt + 1
        /\ Append(Ready, tid)[runq.cnt + 1] = tid
        /\ \A i \in 1 .. runq.cnt : Append(Ready, tid)[i] = Ready[i]
    BY <1>6, <1>8, AppendProperties
  <2>4. \A i \in 1 .. runq.cnt + 1 : Ready'[i] = Append(Ready, tid)[i]
    BY <1>1, <2>2, <2>3
  <2> QED BY <1>7, <2>3, <2>4, SeqEqual
<1>10. Running' = Running
  <2>1. cur_thread # NULL => cur_thread \in Blocks
    BY <1>8 DEF TypeOK, Blocks, NULL
  <2> QED BY <1>2, <1>4, <1>8, <2>1 DEF Running
<1>11. tid # Running /\ \A i \in 1 .. Len(Ready) : Ready[i] # tid
  BY <1>6, <1>8 DEF Running
<1> QED BY <1>8, <1>9, <1>10, <1>11 DEF R!Fork, Ready, Running

LEMMA StartRefines ==
  ASSUME IInv, IInv', Start
  PROVE  R!Start
<1> USE DEF IInv
<1>r. ReadyOK /\ ReadyOK'
  BY ReadyFacts, PTL
<1>1. /\ Ready \in Seq(Nat) /\ Len(Ready) = runq.cnt /\ runq.cnt \in Nat
      /\ \A i \in 1 .. runq.cnt : Ready[i] = tidOf[RunSeq[i]] /\ RunSeq[i] \in RQ
  BY <1>r DEF ReadyOK
<1>2. /\ Ready' \in Seq(Nat) /\ Len(Ready') = runq'.cnt /\ runq'.cnt \in Nat
      /\ \A i \in 1 .. runq'.cnt : Ready'[i] = tidOf'[RunSeq'[i]]
  BY <1>r DEF ReadyOK
<1>3. HeadLeft /\ (runq.cnt = 0 => cur_thread' = NULL) /\ cur_thread = NULL /\ runq'.cnt <= runq.cnt
  <2>1. runq'.cnt + Current' = runq.cnt /\ Current' \in 0 .. 1
    BY StartEffect DEF Current
  <2> QED BY <1>1, <1>2, <2>1, StartEffect
<1>4. \A b \in RQ : tidOf'[b] = tidOf[b] /\ b # NULL
  <2>1. Fresh \notin RQ /\ RQ \subseteq Blocks /\ NULL \notin Blocks
    BY AllocEffect, QueueFacts DEF Start, RQ
  <2>2. tidOf' = [tidOf EXCEPT ![Fresh] = tid] /\ tidOf \in [Blocks -> Nat]
    BY DEF Start, Alloc, TypeOK
  <2> QED BY <2>1, <2>2
<1>5. Running = 0
  BY <1>3 DEF Running
<1>6. CASE runq.cnt = 0
  <2>1. Ready = <<>> /\ Ready' = <<>> /\ Running' = 0
    BY <1>1, <1>2, <1>3, <1>6 DEF Running
  <2> QED BY <1>5, <2>1 DEF R!Start, R!Dispatch, R!NoThread, Ready, Running
<1>7. CASE runq.cnt # 0
  <2>1. /\ cur_thread' = RunSeq[1] /\ runq'.cnt = runq.cnt - 1
        /\ \A k \in 1 .. runq'.cnt : RunSeq'[k] = RunSeq[k + 1]
    BY <1>1, <1>7, <1>3 DEF HeadLeft
  <2>2. Running' = Ready[1]
    BY <1>1, <1>4, <1>7, <2>1 DEF Running
  <2>3. \A k \in 1 .. Len(Ready') : Ready'[k] = Ready[k + 1]
    <3> SUFFICES ASSUME NEW k \in 1 .. Len(Ready') PROVE Ready'[k] = Ready[k + 1]
      OBVIOUS
    <3>1. k \in 1 .. runq'.cnt /\ k + 1 \in 1 .. runq.cnt
      BY <1>1, <1>2, <2>1
    <3>2. Ready'[k] = tidOf'[RunSeq'[k]] /\ RunSeq'[k] = RunSeq[k + 1] /\ RunSeq[k + 1] \in RQ
      BY <1>1, <1>2, <2>1, <3>1
    <3> QED BY <1>1, <1>4, <3>1, <3>2
  <2>4. Ready # <<>> /\ Len(Ready') = Len(Ready) - 1
    BY <1>1, <1>2, <1>7, <2>1
  <2>5. Running' = Head(Ready) /\ Ready' = Tail(Ready)
    BY <1>1, <1>2, <2>2, <2>3, <2>4, Dispatches
  <2> QED BY <1>5, <2>4, <2>5 DEF R!Start, R!Dispatch, R!NoThread, Ready, Running
<1> QED BY <1>6, <1>7

LEMMA ExitRefines ==
  ASSUME IInv, IInv', Exit
  PROVE  R!Exit
<1> USE DEF IInv
<1>r. ReadyOK /\ ReadyOK'
  BY ReadyFacts, PTL
<1>1. /\ Ready \in Seq(Nat) /\ Len(Ready) = runq.cnt /\ runq.cnt \in Nat
      /\ \A i \in 1 .. runq.cnt : Ready[i] = tidOf[RunSeq[i]] /\ RunSeq[i] \in RQ
      /\ cur_thread # NULL => Running \in 1 .. tid - 1
  BY <1>r DEF ReadyOK
<1>2. /\ Ready' \in Seq(Nat) /\ Len(Ready') = runq'.cnt /\ runq'.cnt \in Nat
      /\ \A i \in 1 .. runq'.cnt : Ready'[i] = tidOf'[RunSeq'[i]]
  BY <1>r DEF ReadyOK
<1>3. HeadLeft /\ (runq.cnt = 0 => cur_thread' = NULL) /\ runq'.cnt <= runq.cnt /\ cur_thread \in Blocks
  <2>1. runq'.cnt + Current' = runq.cnt /\ Current' \in 0 .. 1
    BY ExitEffect DEF Current
  <2> QED BY <1>1, <1>2, <2>1, ExitEffect
<1>4. tidOf' = tidOf
  BY DEF Exit
<1>5. Running # 0 /\ \A b \in RQ : b # NULL
  <2>1. RQ \subseteq Blocks /\ NULL \notin Blocks
    BY QueueFacts DEF RQ
  <2> QED BY <1>1, <1>3, <2>1
<1>6. CASE runq.cnt = 0
  <2>1. Ready = <<>> /\ Ready' = <<>> /\ Running' = 0
    BY <1>1, <1>2, <1>3, <1>6 DEF Running
  <2> QED BY <1>5, <2>1 DEF R!Exit, R!Dispatch, R!NoThread, Ready, Running
<1>7. CASE runq.cnt # 0
  <2>1. /\ cur_thread' = RunSeq[1] /\ runq'.cnt = runq.cnt - 1
        /\ \A k \in 1 .. runq'.cnt : RunSeq'[k] = RunSeq[k + 1]
    BY <1>1, <1>7, <1>3 DEF HeadLeft
  <2>2. Running' = Ready[1]
    BY <1>1, <1>4, <1>5, <1>7, <2>1 DEF Running
  <2>3. \A k \in 1 .. Len(Ready') : Ready'[k] = Ready[k + 1]
    <3> SUFFICES ASSUME NEW k \in 1 .. Len(Ready') PROVE Ready'[k] = Ready[k + 1]
      OBVIOUS
    <3>1. k \in 1 .. runq'.cnt /\ k + 1 \in 1 .. runq.cnt
      BY <1>1, <1>2, <2>1
    <3>2. Ready'[k] = tidOf'[RunSeq'[k]] /\ RunSeq'[k] = RunSeq[k + 1] /\ RunSeq[k + 1] \in RQ
      BY <1>1, <1>2, <2>1, <3>1
    <3> QED BY <1>1, <1>4, <3>1, <3>2
  <2>4. Ready # <<>> /\ Len(Ready') = Len(Ready) - 1
    BY <1>1, <1>2, <1>7, <2>1
  <2>5. Running' = Head(Ready) /\ Ready' = Tail(Ready)
    BY <1>1, <1>2, <2>2, <2>3, <2>4, Dispatches
  <2> QED BY <1>5, <2>4, <2>5 DEF R!Exit, R!Dispatch, R!NoThread, Ready, Running
<1> QED BY <1>6, <1>7

LEMMA YieldRefines ==
  ASSUME IInv, IInv', Yield
  PROVE  R!Yield
<1> USE DEF IInv
<1>r. ReadyOK /\ ReadyOK'
  BY ReadyFacts, PTL
<1>1. /\ Ready \in Seq(Nat) /\ Len(Ready) = runq.cnt /\ runq.cnt \in Nat
      /\ \A i \in 1 .. runq.cnt : Ready[i] = tidOf[RunSeq[i]] /\ RunSeq[i] \in RQ
      /\ cur_thread # NULL => Running \in 1 .. tid - 1
  BY <1>r DEF ReadyOK
<1>2. /\ Ready' \in Seq(Nat) /\ Len(Ready') = runq'.cnt
      /\ \A i \in 1 .. runq'.cnt : Ready'[i] = tidOf'[RunSeq'[i]]
  BY <1>r DEF ReadyOK
<1>3. /\ runq.cnt > 0 /\ cur_thread' = RunSeq[1] /\ runq'.cnt = runq.cnt /\ cur_thread \in Blocks
      /\ \A k \in 1 .. runq.cnt : RunSeq'[k] = IF k = runq.cnt THEN cur_thread ELSE RunSeq[k + 1]
  BY YieldEffect
<1>4. tidOf' = tidOf
  BY DEF Yield
<1>5. Running # 0 /\ Running \in Nat /\ Running = tidOf[cur_thread] /\ \A b \in RQ : b # NULL
  <2>1. RQ \subseteq Blocks /\ NULL \notin Blocks
    BY QueueFacts DEF RQ
  <2>2. tid \in Nat
    BY MaxTidAssumption DEF TypeOK
  <2> QED BY <1>1, <1>3, <2>1, <2>2 DEF Running
<1> DEFINE s == Append(Ready, Running)
<1>6. /\ s \in Seq(Nat) /\ Len(s) = runq.cnt + 1 /\ s[runq.cnt + 1] = Running
      /\ \A i \in 1 .. runq.cnt : s[i] = Ready[i]
  BY <1>1, <1>5, AppendProperties
<1>7. s # <<>>
  BY <1>1, <1>6
<1> HIDE DEF s
<1>8. Running' = s[1]
  BY <1>1, <1>3, <1>4, <1>5, <1>6 DEF Running
<1>9. \A k \in 1 .. Len(Ready') : Ready'[k] = s[k + 1]
  <2> SUFFICES ASSUME NEW k \in 1 .. runq.cnt PROVE Ready'[k] = s[k + 1]
    BY <1>2, <1>3
  <2>1. Ready'[k] = tidOf[RunSeq'[k]]
    BY <1>2, <1>3, <1>4
  <2>2. CASE k = runq.cnt
    BY <1>3, <1>5, <1>6, <2>1, <2>2
  <2>3. CASE k # runq.cnt
    <3>1. k + 1 \in 1 .. runq.cnt
      BY <1>1, <2>3
    <3> QED BY <1>1, <1>3, <1>6, <2>1, <2>3, <3>1
  <2> QED BY <2>2, <2>3
<1>10. Len(Ready') = Len(s) - 1
  BY <1>1, <1>2, <1>3, <1>6
<1>11. Running' = Head(s) /\ Ready' = Tail(s)
  BY <1>2, <1>6, <1>7, <1>8, <1>9, <1>10, Dispatches, SMTT(60)
<1> QED BY <1>5, <1>7, <1>11 DEF R!Yield, R!Dispatch, R!NoThread, Ready, Running, s

\* The intrusive queues, the shared next fields and the recycled blocks
\* implement first-in first-out round robin, for any number of threads.
THEOREM RunsRoundRobin == Spec => ImplementsRoundRobin
<1>1. IInv /\ IInv' /\ [Next]_vars => [R!Next]_<<Ready, Running>>
  <2> SUFFICES ASSUME IInv, IInv', [Next]_vars PROVE [R!Next]_<<Ready, Running>>
    OBVIOUS
  <2>1. CASE Fork
    BY <2>1, ForkRefines DEF R!Next
  <2>2. CASE Start
    BY <2>2, StartRefines DEF R!Next
  <2>3. CASE Yield
    BY <2>3, YieldRefines DEF R!Next
  <2>4. CASE Exit
    BY <2>4, ExitRefines DEF R!Next
  <2>5. CASE UNCHANGED vars
    BY <2>5 DEF vars, Ready, Running, RunSeq
  <2> QED BY <2>1, <2>2, <2>3, <2>4, <2>5 DEF Next
<1>2. [R!Next]_<<Ready, Running>>
        <=> [R!Next]_<<[i \in 1 .. runq.cnt |-> tidOf[RunSeq[i]]],
                       IF cur_thread = NULL THEN 0 ELSE tidOf[cur_thread]>>
  BY DEF Ready, Running
<1> QED BY <1>1, <1>2, InitRefines, InvariantHolds, PTL DEF Spec, ImplementsRoundRobin, R!Spec

-----------------------------------------------------------------------------
(* The arithmetic of roundup.                                              *)

\* A multiple of n leaves no remainder.
LEMMA MultipleMod ==
  ASSUME NEW n \in Nat \ {0}, NEW q \in Nat
  PROVE  (n * q) % n = 0
<1> DEFINE y == n * q
<1>1. y \in Nat
  BY SMT
<1>2. PICK p \in Int, r \in 0 .. n - 1 : y = n * p + r /\ y % n = r
  BY <1>1, SMT
<1>3. PICK e \in Int : e = q - p
  BY SMT
<1>4. n * e = r
  <2>1. n * (q - p) = n * q - n * p
    BY SMT
  <2>2. QED BY <1>2, <1>3, <2>1, SMT
<1>5. e = 0
  <2>1. ASSUME e >= 1 PROVE n * e >= n
    BY <2>1, SMT
  <2>2. ASSUME e <= -1 PROVE n * e <= -n
    BY <2>2, SMT
  <2>3. QED BY <2>1, <2>2, <1>4, SMT
<1>6. r = 0
  BY <1>4, <1>5, SMT
<1>7. QED BY <1>2, <1>6

\* roundup(x, n) is the multiple of n at or next above x.
LEMMA RoundupFacts ==
  ASSUME NEW x \in Nat, NEW n \in Nat \ {0}
  PROVE  /\ Roundup(x, n) \in Nat
         /\ x <= Roundup(x, n) /\ Roundup(x, n) < x + n
         /\ Roundup(x, n) % n = 0
<1> DEFINE y == x + (n - 1)
<1>1. y \in Nat
  BY SMT
<1>2. PICK q \in Nat, r \in 0 .. n - 1 : y = n * q + r /\ y % n = r
  <2>1. y = n * (y \div n) + (y % n) /\ y % n \in 0 .. n - 1 /\ y \div n \in Nat
    BY <1>1, SMT
  <2>2. QED BY <2>1
<1>3. Roundup(x, n) = n * q
  BY <1>2, SMT DEF Roundup
<1>4. n * q = y - r
  BY <1>2, SMT
<1>5. QED BY <1>2, <1>3, <1>4, MultipleMod, SMT

\* A block takes at least its size from the heap, in whole words.
LEMMA TakenFacts ==
  ASSUME NEW n \in Nat
  PROVE  Taken(n) \in Nat /\ Taken(n) >= n /\ Taken(n) % 4 = 0
  BY RoundupFacts DEF Taken

\* kmalloc_aligned never moves the heap down, never leaves it off a word
\* boundary, and meets the alignment.
LEMMA AlignedFacts ==
  ASSUME NEW a \in Alignments, alloc_top \in Nat, alloc_top % 4 = 0
  PROVE  /\ Aligned(a) \in Nat /\ Aligned(a) >= alloc_top
         /\ Aligned(a) % 4 = 0 /\ Aligned(a) % a = 0
<1>1. a \in Nat \ {0} /\ IsPow2(a)
  BY KmallocAssumption
<1>2. CASE a <= 4
  <2>1. a \in {1, 2, 4}
    BY <1>1, <1>2, SMT DEF IsPow2
  <2>2. QED BY <2>1, <1>2, SMT DEF Aligned
<1>3. CASE ~(a <= 4)
  <2>1. PICK m \in Nat : a = 8 * m
    <3>1. a \notin {1, 2, 4}
      BY <1>3, SMT
    <3>2. PICK m \in 1 .. a : a = 8 * m
      BY <3>1, <1>1 DEF IsPow2
    <3>3. m \in Nat
      BY <1>1, <3>2, SMT
    <3>4. QED BY <3>2, <3>3
  <2>2. /\ Aligned(a) = Roundup(alloc_top, a)
        /\ Aligned(a) \in Nat /\ Aligned(a) >= alloc_top /\ Aligned(a) % a = 0
    BY <1>1, <1>3, RoundupFacts DEF Aligned
  <2>3. PICK q \in Int : Aligned(a) = a * q
    <3>1. PICK z \in Nat : z = Aligned(a) /\ z % a = 0
      BY <2>2
    <3>2. z = a * (z \div a) + (z % a) /\ z \div a \in Int
      BY <1>1, SMT
    <3>3. PICK q \in Int : q = z \div a
      BY <3>2
    <3>4. a * q \in Int /\ a * q + 0 = a * q
      BY <1>1, SMT
    <3>5. z = a * q
      BY <3>1, <3>2, <3>3, <3>4
    <3>6. QED BY <3>1, <3>5
  <2>4. PICK p \in Int : p = m * q
    BY <2>1, <2>3, SMT
  <2>5. Aligned(a) = 8 * p
    <3>1. (8 * m) * q = 8 * (m * q)
      BY <2>1, <2>3, SMT
    <3>2. QED BY <3>1, <2>1, <2>3, <2>4
  <2>6. Aligned(a) % 4 = 0
    BY <2>5, <2>2, SMT
  <2>7. QED BY <2>2, <2>6
<1>4. QED BY <1>2, <1>3

-----------------------------------------------------------------------------
(* The inductive invariant.                                                *)

\* There is no block before the heap is set up.  Every block in use lies
\* between the start of the heap and its top, which are on word boundaries; and
\* no two share a byte.
HeapInv ==
  /\ HeapOK
  /\ ~init_p => blocks = {}
  /\ alloc_top % 4 = 0 /\ alloc_start % 4 = 0 /\ alloc_start <= alloc_top
  /\ \A b \in blocks : alloc_start <= b.addr /\ b.addr + b.size <= alloc_top
  /\ Disjoint

\* A block placed at an aligned address at or above the top of the heap is
\* clear of every block in use, and the invariant survives it.
LEMMA HandOutKeeps ==
  ASSUME HeapInv, NEW addr \in Nat, NEW n \in Sizes, NEW a \in Nat \ {0},
         addr >= alloc_top, addr % 4 = 0, HandOut(addr, n, a)
  PROVE  /\ HeapInv'
         /\ \A c \in blocks : ~A!Overlap([addr |-> addr, size |-> n, align |-> a], c)
<1> DEFINE new == [addr |-> addr, size |-> n, align |-> a]
<1>1. n \in Nat \ {0} /\ Taken(n) \in Nat /\ Taken(n) >= n /\ Taken(n) % 4 = 0
  BY KmallocAssumption, TakenFacts
<1>2. /\ alloc_top' = addr + Taken(n) /\ blocks' = blocks \cup {new}
      /\ UNCHANGED <<init_p, alloc_start, max_bytes>>
  BY DEF HandOut, Bump
<1>3. new \in A!Block /\ new.addr = addr /\ new.size = n
  BY <1>1 DEF A!Block
<1>4. \A c \in blocks : c.addr \in Nat /\ c.size \in Nat \ {0}
  BY DEF HeapInv, HeapOK, A!Block
<1>5. \A c \in blocks : c.addr + c.size <= addr
  BY <1>4, SMT DEF HeapInv, HeapOK
<1>6. \A c \in blocks : ~A!Overlap(new, c) /\ ~A!Overlap(c, new)
  BY <1>1, <1>3, <1>4, <1>5, SMT DEF A!Overlap
<1>7. HeapOK'
  BY <1>1, <1>2, <1>3, SMT DEF HeapInv, HeapOK
<1>8. alloc_top' % 4 = 0 /\ alloc_top' >= alloc_top /\ addr + n <= alloc_top'
  BY <1>1, <1>2, SMT DEF HeapInv, HeapOK
<1>9. \A b \in blocks' : alloc_start <= b.addr /\ b.addr + b.size <= alloc_top'
  <2>1. ASSUME NEW c \in blocks
        PROVE  alloc_start <= c.addr /\ c.addr + c.size <= alloc_top'
    <3>1. c.addr \in Nat /\ c.size \in Nat /\ alloc_start <= c.addr
          /\ c.addr + c.size <= alloc_top
      BY <1>4 DEF HeapInv
    <3>2. alloc_top \in Nat /\ alloc_top' \in Nat
      BY <1>7 DEF HeapInv, HeapOK
    <3>3. QED BY <3>1, <3>2, <1>8, SMT
  <2>2. alloc_start <= new.addr /\ new.addr + new.size <= alloc_top'
    BY <1>3, <1>8, SMT DEF HeapInv, HeapOK
  <2>3. QED BY <2>1, <2>2, <1>2
<1>10. Disjoint'
  BY <1>2, <1>6 DEF HeapInv, Disjoint
<1>11. init_p' /\ alloc_start' % 4 = 0 /\ alloc_start' = alloc_start
  BY <1>2 DEF HandOut, Bump, HeapInv
<1>12. alloc_start' <= alloc_top'
  BY <1>8, <1>11, <1>7, SMT DEF HeapInv, HeapOK
<1>13. QED BY <1>6, <1>7, <1>8, <1>9, <1>10, <1>11, <1>12 DEF HeapInv

\* Every step keeps the invariant and is a step of the abstract allocator,
\* or one it does not see.
LEMMA HeapKeeps ==
  ASSUME HeapInv, [HeapNext]_heapVars
  PROVE  HeapInv' /\ [A!Next]_blocks
<1>1. ASSUME NEW s \in Nat, NEW m \in Nat, InitSetStart(s, m)
      PROVE  HeapInv' /\ blocks' = blocks
  <2>1. s % 4 = 0
    BY <1>1, SMT DEF InitSetStart
  <2>2. blocks = {} /\ blocks' = {} /\ init_p' = TRUE
        /\ alloc_start' = s /\ alloc_top' = s /\ max_bytes' = m
    BY <1>1 DEF InitSetStart, HeapInv
  <2>3. QED BY <2>1, <2>2, SMT DEF HeapInv, HeapOK, Disjoint
<1>2. CASE KmallocInit
  BY <1>1, <1>2, KmallocAssumption DEF KmallocInit
<1>3. CASE \E s \in Starts, m \in Maxima : InitSetStart(s, m)
  BY <1>1, <1>3, KmallocAssumption
<1>4. ASSUME NEW addr \in Nat, NEW n \in Sizes, NEW a \in Nat \ {0},
             addr >= alloc_top, addr % 4 = 0, addr % a = 0, HandOut(addr, n, a)
      PROVE  HeapInv' /\ A!Next
  <2> DEFINE new == [addr |-> addr, size |-> n, align |-> a]
  <2>1. HeapInv' /\ \A c \in blocks : ~A!Overlap(new, c)
    BY <1>4, HandOutKeeps
  <2>2. new \in A!Block /\ new.addr % new.align = 0
    BY <1>4, KmallocAssumption DEF A!Block
  <2>3. blocks' = blocks \cup {new}
    BY <1>4 DEF HandOut, Bump
  <2>4. QED BY <2>1, <2>2, <2>3 DEF A!Next, A!Alloc
<1>5. CASE \E n \in Sizes : Kmalloc(n)
  <2>1. PICK n \in Sizes : HandOut(alloc_top, n, 4)
    BY <1>5 DEF Kmalloc
  <2>2. alloc_top \in Nat /\ alloc_top % 4 = 0
    BY DEF HeapInv, HeapOK
  <2>3. alloc_top >= alloc_top /\ 4 \in Nat \ {0}
    BY <2>2, SMT
  <2>4. QED BY <2>1, <2>2, <2>3, <1>4
<1>6. CASE \E n \in Sizes, a \in Alignments : KmallocAligned(n, a)
  <2>1. PICK n \in Sizes, a \in Alignments : HandOut(Aligned(a), n, a)
    BY <1>6 DEF KmallocAligned
  <2>2. a \in Nat \ {0}
    BY KmallocAssumption
  <2>3. /\ Aligned(a) \in Nat /\ Aligned(a) >= alloc_top
        /\ Aligned(a) % 4 = 0 /\ Aligned(a) % a = 0
    BY AlignedFacts DEF HeapInv, HeapOK
  <2>4. QED BY <2>1, <2>2, <2>3, <1>4
<1>7. CASE KfreeAll
  <2>1. HeapInv'
    BY <1>7, SMT DEF KfreeAll, TopAfterFree, HeapInv, HeapOK, Disjoint
  <2>2. QED BY <1>7, <2>1 DEF KfreeAll, A!Next, A!FreeAll
<1>8. CASE UNCHANGED heapVars
  BY <1>8 DEF heapVars, HeapInv, HeapOK, Disjoint
<1>9. QED BY <1>2, <1>3, <1>5, <1>6, <1>7, <1>8 DEF HeapNext

LEMMA HeapBegins == HeapInit => HeapInv /\ A!Init
<1> SUFFICES ASSUME HeapInit PROVE HeapInv /\ A!Init
  OBVIOUS
<1>1. blocks = {} /\ init_p \in BOOLEAN
  BY DEF HeapInit
<1>2. /\ alloc_start \in Nat /\ alloc_top \in Nat /\ max_bytes \in Nat
      /\ alloc_top % 4 = 0 /\ alloc_start % 4 = 0 /\ alloc_start <= alloc_top
  BY SMT DEF HeapInit
<1>3. QED BY <1>1, <1>2 DEF HeapInv, HeapOK, Disjoint, A!Init

-----------------------------------------------------------------------------
\* The heap's pointers stay addresses and everything handed out is a block.
THEOREM HeapTypeCorrect == HeapSpec => []HeapOK
<1>1. HeapInv => HeapOK
  BY DEF HeapInv
<1>2. QED BY <1>1, HeapBegins, HeapKeeps, PTL DEF HeapSpec

\* kmalloc and kmalloc_aligned, in any order and with kfree_all between them,
\* never hand out a byte twice.
THEOREM BlocksNeverOverlap == HeapSpec => []Disjoint
<1>1. HeapInv => Disjoint
  BY DEF HeapInv
<1>2. QED BY <1>1, HeapBegins, HeapKeeps, PTL DEF HeapSpec

\* After kfree_all the heap of kmalloc_init_set_start is as it was at first.
THEOREM HeapStartsAgain == HeapSpec => []StartsAgain
<1>1. HeapInit => StartsAgain
  BY DEF HeapInit, StartsAgain
<1>2. ASSUME StartsAgain, [HeapNext]_heapVars PROVE StartsAgain'
  <2>1. CASE \E addr, n : InitSetStart(addr, n)
    BY <2>1 DEF InitSetStart, StartsAgain
  <2>2. CASE \E addr, n, a : HandOut(addr, n, a)
    BY <2>2 DEF HandOut, Bump, StartsAgain
  <2>3. CASE KfreeAll
    BY <2>3 DEF KfreeAll, TopAfterFree, StartsAgain
  <2>4. CASE UNCHANGED heapVars
    BY <1>2, <2>4 DEF heapVars, StartsAgain
  <2>5. QED
    BY <1>2, <2>1, <2>2, <2>3, <2>4 DEF HeapNext, KmallocInit, Kmalloc, KmallocAligned
<1>3. QED BY <1>1, <1>2, PTL DEF HeapSpec

\* Every block is aligned as asked and clear of the blocks in use: each call
\* is a step of the allocator clients assume.
THEOREM KmallocImplementsAllocator == HeapSpec => ImplementsAllocator
  BY HeapBegins, HeapKeeps, PTL DEF HeapSpec, ImplementsAllocator, A!Spec

-----------------------------------------------------------------------------
\* Threads whose blocks come from the heap do to each of the two what it does
\* alone (th_alloc): all that is shown above of either holds of them together.
THEOREM ThreadsShareHeap == KernelSpec => Spec /\ HeapSpec
<1>1. KernelInit => Init /\ HeapInit
  BY DEF KernelInit
<1>2. ASSUME [KernelNext]_kvars PROVE [Next]_vars /\ [HeapNext]_heapVars
  <2>1. CASE Switch
    BY <2>1 DEF Switch, Next
  <2>2. CASE ThreadCall
    <3>1. Next
      BY <2>2 DEF ThreadCall, Next
    <3>2. UNCHANGED heapVars \/ KmallocAligned(ThreadBytes, StackAlignment)
      BY <2>2 DEF ThreadCall, ThreadBlock
    <3>3. ThreadBytes \in Sizes /\ StackAlignment \in Alignments
      BY KernelAssumption DEF StackAlignment
    <3>4. QED BY <3>1, <3>2, <3>3 DEF HeapNext
  <2>3. CASE HeapCall
    BY <2>3 DEF HeapCall
  <2>4. CASE UNCHANGED kvars
    BY <2>4 DEF kvars
  <2>5. QED BY <1>2, <2>1, <2>2, <2>3, <2>4 DEF KernelNext
<1>3. QED BY <1>1, <1>2, PTL DEF KernelSpec, Spec, HeapSpec
=============================================================================
