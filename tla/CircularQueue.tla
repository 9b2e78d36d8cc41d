--------------------------- MODULE CircularQueue ---------------------------
(***************************************************************************)
(* The "simple lock-free circular queue" of libpi/libc/circular.h, shared  *)
(* by one producer (usually an interrupt handler) and one consumer.        *)
(*                                                                         *)
(* Every access to the fields head, tail and c_buf that the other side can *)
(* observe is a step of its own.  `head` is written by the producer only,  *)
(* so the producer's several reads of it inside one test are one step, and *)
(* likewise for `tail` and the consumer.  A call that fails its first test *)
(* returns 0 and changes nothing, so it is a stuttering step and has no    *)
(* action; neither has the spinning of a blocking pop.                     *)
(***************************************************************************)
EXTENDS Naturals, Sequences

CONSTANTS
  N,           \* CQ_N, the number of slots
  Word,        \* 2^32, the modulus of `unsigned` subtraction
  Values,      \* what a slot can hold (cqe_t)
  Batches,     \* the arguments cq_push and cq_push_n are called with
  Ops,         \* the consumer operations the client uses
  Sizes,       \* the <n> given to the operations that take one
  MaskedPeek,  \* the client turns interrupts off around cq_peek_n
  MaxPush      \* bound on the elements ever pushed

ASSUME NAssumption == N \in Nat /\ N >= 2
ASSUME WordAssumption == Word \in Nat /\ \E k \in 1 .. Word : Word = k * N
ASSUME DataAssumption ==
  /\ Batches \subseteq Seq(Values) \ {<<>>}
  /\ Sizes \subseteq Nat \ {0}
  /\ MaskedPeek \in BOOLEAN
  /\ MaxPush \in Nat

VARIABLES
  buf, head, tail,                \* the queue itself
  intr,                           \* int_is_enabled(): the producer can preempt
  ppc, via, parg, phead,          \* the producer: where, which call, data left, local head
  cpc, cop, cn, ctail, csz, csave, cval, got, \* the consumer's locals
  fault,                          \* "none", or the panic that stopped the program
  pushed, popped                  \* history: everything published, everything consumed

queue    == <<buf, head, tail, intr>>
producer == <<ppc, via, parg, phead>>
consumer == <<cpc, cop, cn, ctail, csz, csave, cval, got>>
vars     == <<buf, head, tail, intr, ppc, via, parg, phead, cpc, cop, cn, ctail,
              csz, csave, cval, got, fault, pushed, popped>>

ConsumerOps == {"pop", "pop_nonblock", "pop_n", "pop_n_noblk", "peek", "peek_n"}

-----------------------------------------------------------------------------
(* The helpers.  A definition named Bug... is a mutated form of the one     *)
(* that follows it; the mutants of PROJECT.json use them, nothing else.    *)

BugNext1Short(i)  == (i + 1) % (N - 1)
\* (tail+1) % (CQ_N), (head+1) % (CQ_N)
Next1(i) == (i + 1) % N

BugEmptyOffByOne == head = tail \/ head = Next1(tail)
Empty  == head = tail
Full   == Next1(head) = tail
\* (q->head - q->tail) % (CQ_N), the subtraction wrapping at Word
NElem  == ((head + Word - tail) % Word) % N
BugNSpaceAllSlots == N - NElem
NSpace == (N - 1) - NElem

BugTooFewOffByOne == NElem + 1 < cn
\* cq_pop_n_noblk's test
TooFew == NElem < cn
BugSlotAhead == buf[Next1(ctail)]
\* *e = c->c_buf[tail]
Slot   == buf[ctail]
BugRestDropped == <<>>
\* what the loop of cq_push_n has left after p[i]
Rest   == Tail(parg)
\* the tail that cq_peek_n puts back
Restored == csave

Init ==
  /\ buf \in [0 .. N - 1 -> Values]      \* whatever value zeroed memory stands for
  /\ \A i \in 0 .. N - 1 : buf[i] = buf[0]
  /\ head = 0 /\ tail = 0 /\ intr \in BOOLEAN
  /\ ppc = "idle" /\ via = "push" /\ parg = <<>> /\ phead = 0
  /\ cpc = "idle" /\ cop = "pop" /\ cn = 0 /\ ctail = 0 /\ csz = 0 /\ csave = 0
  /\ cval = buf[0] /\ got = <<>>
  /\ fault = "none" /\ pushed = <<>> /\ popped = <<>>

Running == fault = "none"

-----------------------------------------------------------------------------
(* The producer: cq_push(x), and cq_push_n as a loop of cq_push.           *)

\* With interrupts off the producer is called between two consumer calls.
PushCall(v, batch) ==
  /\ Running /\ ppc = "idle"
  /\ intr \/ cpc = "idle"
  /\ Len(pushed) + Len(batch) <= MaxPush
  /\ IF v = "push" THEN Len(batch) = 1 ELSE NSpace >= Len(batch)
  /\ ppc' = "check" /\ via' = v /\ parg' = batch
  /\ UNCHANGED <<queue, phead, consumer, fault, pushed, popped>>

\* head is read, then cq_full, then the assertion that there is space.  The two
\* read tail one after the other; they are one step, because in between the
\* other side can only make more space.
PushCheck ==
  /\ Running /\ ppc = "check"
  /\ phead' = head
  /\ \/ /\ Full /\ via = "push"
        /\ ppc' = "idle" /\ parg' = <<>> /\ fault' = fault
     \/ /\ Full /\ via = "push_n"
        /\ fault' = "push_n_full" /\ UNCHANGED <<ppc, parg>>
     \/ /\ ~Full /\ ~(NSpace > 0)
        /\ fault' = "assert_nspace" /\ UNCHANGED <<ppc, parg>>
     \/ /\ ~Full /\ NSpace > 0
        /\ ppc' = "write" /\ UNCHANGED <<parg, fault>>
  /\ UNCHANGED <<queue, via, consumer, pushed, popped>>

PushWrite ==
  /\ Running /\ ppc = "write"
  /\ buf' = [buf EXCEPT ![phead] = Head(parg)]
  /\ ppc' = "publish"
  /\ UNCHANGED <<head, tail, intr, via, parg, phead, consumer, fault, pushed, popped>>

PushPublish ==
  /\ Running /\ ppc = "publish"
  /\ head' = Next1(phead)
  /\ pushed' = Append(pushed, Head(parg))
  /\ parg' = Rest
  /\ ppc' = IF Rest = <<>> THEN "idle" ELSE "check"
  /\ UNCHANGED <<buf, tail, intr, via, phead, consumer, fault, popped>>

-----------------------------------------------------------------------------
(* The consumer.                                                           *)

\* Entry of every operation; cq_peek_n reads nelem and tail on entry.
PopCall(op, n) ==
  /\ Running /\ cpc = "idle"
  /\ intr \/ ppc = "idle"
  /\ op \in Ops
  /\ IF op \in {"pop", "pop_nonblock", "peek"} THEN n = 1 ELSE n \in Sizes
  /\ op = "peek_n" => n <= NElem /\ (MaskedPeek => ~intr)
  /\ cop' = op /\ cn' = n /\ got' = <<>>
  /\ csz' = NElem /\ csave' = tail
  /\ cpc' = IF op \in {"pop_n_noblk", "peek_n"} THEN "nelem" ELSE "empty"
  /\ UNCHANGED <<queue, producer, ctail, cval, fault, pushed, popped>>

\* cq_pop_n_noblk: return 0 unless n elements are there.
CheckNElem ==
  /\ Running /\ cpc = "nelem"
  /\ cpc' = IF TooFew THEN "idle" ELSE "empty"
  /\ UNCHANGED <<queue, producer, cop, cn, ctail, csz, csave, cval, got,
                 fault, pushed, popped>>

\* cq_empty, in cq_pop_nonblock and cq_peek.  On an empty queue a blocking
\* pop spins (no step) or, with interrupts off, panics.
CheckEmpty ==
  /\ Running /\ cpc = "empty"
  /\ \/ /\ ~Empty
        /\ ctail' = tail /\ cpc' = "read" /\ fault' = fault
     \/ /\ Empty /\ cop \in {"pop_nonblock", "peek"}
        /\ cpc' = "idle" /\ UNCHANGED <<ctail, fault>>
     \/ /\ Empty /\ cop \notin {"pop_nonblock", "peek"} /\ ~intr
        /\ fault' = "will_deadlock" /\ UNCHANGED <<ctail, cpc>>
  /\ UNCHANGED <<queue, producer, cop, cn, csz, csave, cval, got, pushed, popped>>

Read ==
  /\ Running /\ cpc = "read"
  /\ cval' = Slot
  /\ IF cop = "peek"
       THEN cpc' = "idle" /\ got' = <<Slot>>
       ELSE cpc' = "advance" /\ got' = got
  /\ UNCHANGED <<queue, producer, cop, cn, ctail, csz, csave, fault, pushed, popped>>

\* c->tail = (tail+1) % CQ_N, and the next turn of the cq_pop_n loop.
Advance ==
  /\ Running /\ cpc = "advance"
  /\ tail' = Next1(ctail)
  /\ got' = Append(got, cval)
  /\ popped' = IF cop = "peek_n" THEN popped ELSE Append(popped, cval)
  /\ cn' = cn - 1
  /\ cpc' = IF cn > 1 THEN "empty" ELSE IF cop = "peek_n" THEN "restore" ELSE "idle"
  /\ UNCHANGED <<buf, head, intr, producer, cop, ctail, csz, csave, cval, fault, pushed>>

\* cq_peek_n puts tail back ...
PeekRestore ==
  /\ Running /\ cpc = "restore"
  /\ tail' = Restored
  /\ cpc' = "assert"
  /\ UNCHANGED <<buf, head, intr, producer, cop, cn, ctail, csz, csave, cval, got,
                 fault, pushed, popped>>

\* ... and asserts that sz == cq_nelem(c).
PeekAssert ==
  /\ Running /\ cpc = "assert"
  /\ IF csz = NElem THEN cpc' = "idle" /\ fault' = fault
                    ELSE fault' = "assert_sz" /\ cpc' = cpc
  /\ UNCHANGED <<queue, producer, cop, cn, ctail, csz, csave, cval, got,
                 pushed, popped>>

\* Between two calls the client turns interrupts off or on again.
MaskInt ==
  /\ Running /\ cpc = "idle" /\ ppc = "idle"
  /\ intr' = ~intr
  /\ UNCHANGED <<buf, head, tail, producer, consumer, fault, pushed, popped>>

ProducerStep == PushCheck \/ PushWrite \/ PushPublish
ConsumerStep == CheckNElem \/ CheckEmpty \/ Read \/ Advance \/ PeekRestore \/ PeekAssert

Push == \E v \in {"push", "push_n"}, batch \in Batches : PushCall(v, batch)
Pop  == \E op \in ConsumerOps, n \in Sizes \cup {1} : PopCall(op, n)

Next == Push \/ ProducerStep \/ Pop \/ ConsumerStep \/ MaskInt

Spec == Init /\ [][Next]_vars

\* A client that, whatever else it calls, calls cq_pop again and again, and a
\* handler that runs to its end.
FairSpec == Spec /\ WF_vars(ProducerStep) /\ WF_vars(ConsumerStep) /\ SF_vars(PopCall("pop", 1))

-----------------------------------------------------------------------------
TypeOK ==
  /\ buf \in [0 .. N - 1 -> Values]
  /\ head \in 0 .. N - 1 /\ tail \in 0 .. N - 1 /\ intr \in BOOLEAN
  /\ ppc \in {"idle", "check", "write", "publish"}
  /\ via \in {"push", "push_n"} /\ parg \in Seq(Values) /\ phead \in 0 .. N - 1
  /\ cpc \in {"idle", "nelem", "empty", "read", "advance", "restore", "assert"}
  /\ cop \in ConsumerOps /\ cn \in Nat /\ got \in Seq(Values)
  /\ ctail \in 0 .. N - 1 /\ csave \in 0 .. N - 1 /\ csz \in Nat /\ cval \in Values
  /\ fault \in {"none", "push_n_full", "assert_nspace", "will_deadlock", "assert_sz"}
  /\ pushed \in Seq(Values) /\ popped \in Seq(Values)

\* A cq_peek_n that has not put tail back yet.
Peeking == cop = "peek_n" /\ cpc # "idle"

\* The queue neither loses, invents, duplicates nor reorders an element: at
\* every instant outside of a cq_peek_n the slots from tail hold exactly what was published and not
\* yet consumed, in order (the claim of "single mutator of head, single
\* mutator of tail = lock free").
Conserved == Peeking \/
  /\ Len(pushed) = Len(popped) + NElem
  /\ \A i \in 1 .. Len(popped) : popped[i] = pushed[i]
  /\ \A i \in 0 .. NElem - 1 : buf[(tail + i) % N] = pushed[Len(popped) + 1 + i]

\* The panics that the code calls impossible are: a batch for which cq_push_n
\* found space never meets a full queue, whatever the consumer does meanwhile,
\* and cq_full and cq_nspace never disagree.
NoImpossiblePanic == fault \notin {"push_n_full", "assert_nspace"}

\* cq_pop_n_noblk never blocks: once it has counted n elements, none of its
\* cq_pop calls finds the queue empty.
NoblkNeverBlocks ==
  cop = "pop_n_noblk" /\ cpc = "empty" => ~Empty

\* Batches are all or nothing: if all batches are records of one length, a
\* reader that takes that many elements from a record boundary on gets one
\* whole record, whatever overflow dropped while it raced the writer.
WholeRecords ==
  LET n == Len(got) IN
  /\ cpc = "idle" /\ cop \in {"pop_n", "pop_n_noblk"} /\ n > 0
  /\ \A batch \in Batches : Len(batch) = n
  /\ Len(popped) % n = 0
  => got \in Batches

\* cq_peek and cq_peek_n return the next elements in queue order and consume
\* none of them.
PeekIsNextElements ==
  cpc = "idle" /\ cop \in {"peek", "peek_n"} /\ got # <<>> =>
    /\ Len(popped) + Len(got) <= Len(pushed)
    /\ \A i \in 1 .. Len(got) : got[i] = pushed[Len(popped) + i]

\* assert(sz == cq_nelem(c)) in cq_peek_n: it holds for a client that turns
\* interrupts off around the call, and only for that one.
PeekSizeAssertHolds == fault # "assert_sz"

\* What a client is given is right, whatever the producer does between the steps
\* of its call, and cq_peek_n masked from the handler does not panic.
ResultsExact == /\ WholeRecords /\ PeekIsNextElements
                /\ MaskedPeek => PeekSizeAssertHolds

\* Every published element is eventually handed to a client that keeps calling
\* cq_pop, even if it also peeks or gives up now and then.
Delivered ==
  \A k \in 1 .. MaxPush : Len(pushed) >= k ~> Len(popped) >= k

\* Publishing an element is the insertion, moving tail over it the removal:
\* the queue implements the atomic bounded FIFO of module Fifo.
F == INSTANCE Fifo WITH Capacity <- N - 1, in <- pushed, out <- popped
ImplementsFifo == F!Spec
=============================================================================
