------------------------- MODULE CircularQueueProofs -------------------------
(***************************************************************************)
(* For every queue size, word size that is a multiple of it, set of values *)
(* and set of batches: a queue whose client turns interrupts off around    *)
(* cq_peek_n, or does not use it, is a bounded FIFO under every            *)
(* interleaving of its two sides, and what it gives the client is right.   *)
(***************************************************************************)
EXTENDS CircularQueue, Integers, TLAPS

\* Index and count without the modulus, which the provers handle poorly.
Wrap(i)    == IF i < N THEN i ELSE i - N
Dist(i, j) == IF j >= i THEN j - i ELSE j - i + N

\* The client turns interrupts off around its cq_peek_ns.
PeeksMasked == "peek_n" \in Ops => MaskedPeek

\* Where the first element is, also while a cq_peek_n moves tail; how many follow.
Front == IF Peeking THEN csave ELSE tail
Count == Dist(Front, head)

-----------------------------------------------------------------------------
(* The modular arithmetic of circular.h.                                   *)

\* % CQ_N on a sum of two in-range indices is at most one subtraction.
LEMMA ModWrap == \A i \in 0 .. 2 * N - 1 : i % N = Wrap(i)
  BY NAssumption, SMT DEF Wrap

\* A multiple of N added to an index does not change it modulo N.
LEMMA ModMultiple ==
  ASSUME NEW k \in Nat, NEW i \in 0 .. N - 1
  PROVE  (k * N + i) % N = i
<1> DEFINE x == k * N + i
<1>1. x \in Nat /\ N > 0 /\ N \in Nat
  BY NAssumption, SMT
<1>2. x = N * (x \div N) + (x % N) /\ x % N \in 0 .. N - 1 /\ x \div N \in Int
  BY <1>1, SMT
<1>3. PICK q \in Int, r \in 0 .. N - 1 : x = N * q + r /\ x % N = r
  BY <1>2
<1>4. PICK e \in Int : e = k - q
  BY <1>3, SMT
<1>5. N * e = r - i
  <2>1. k * N + i = N * q + r
    BY <1>3
  <2>2. N * (k - q) = N * k - N * q
    BY <1>1, SMT
  <2>3. QED BY <2>1, <2>2, <1>1, <1>4, SMT
<1>6. r - i <= N - 1 /\ r - i >= 1 - N
  BY <1>1, SMT
<1>7. e = 0
  <2>1. ASSUME e >= 1 PROVE N * e >= N
    BY <2>1, <1>1, SMT
  <2>2. ASSUME e <= -1 PROVE N * e <= -N
    BY <2>2, <1>1, SMT
  <2>3. QED BY <2>1, <2>2, <1>1, <1>5, <1>6, SMT
<1>8. N * e = 0
  BY <1>7, <1>1, SMT
<1>9. QED BY <1>8, <1>5, <1>3, <1>1, SMT

\* (head - tail) % CQ_N counts the elements although the subtraction wraps
\* at the word size: this is where the word must be a multiple of CQ_N.
LEMMA NElemIsDist ==
  ASSUME head \in 0 .. N - 1, tail \in 0 .. N - 1
  PROVE  NElem = Dist(tail, head)
<1>1. PICK k \in 1 .. Word : Word = k * N
  BY WordAssumption
<1>2. k \in Nat /\ k >= 1 /\ Word \in Nat /\ N \in Nat /\ N >= 2
  BY <1>1, NAssumption, WordAssumption, SMT
<1>3. Word >= N
  BY <1>1, <1>2, SMT
<1>4. CASE head >= tail
  <2>1. PICK c \in 0 .. N - 1 : c = head - tail
    BY <1>4, <1>2, SMT
  <2>2. (head + Word - tail) % Word = c
    <3>1. head + Word - tail = Word + c
      BY <2>1, <1>2, SMT
    <3>2. (Word + c) % Word = c
      BY <2>1, <1>2, <1>3, SMT
    <3>3. QED BY <3>1, <3>2
  <2>3. c % N = c
    BY <2>1, <1>2, SMT
  <2>4. QED BY <2>1, <2>2, <2>3, <1>4 DEF NElem, Dist
<1>5. CASE head < tail
  <2>1. PICK c \in 0 .. N - 1 : c = head - tail + N
    BY <1>5, <1>2, SMT
  <2>2. head + Word - tail = (k - 1) * N + c
    <3>1. (k - 1) * N = k * N - N
      BY <1>2, SMT
    <3>2. QED BY <3>1, <2>1, <1>1, <1>2, SMT
  <2>3. (head + Word - tail) % Word = head + Word - tail
    BY <1>5, <1>2, <1>3, SMT
  <2>4. ((k - 1) * N + c) % N = c
    <3>1. k - 1 \in Nat
      BY <1>2, SMT
    <3>2. QED BY <3>1, ModMultiple
  <2>5. QED BY <2>1, <2>2, <2>3, <2>4, <1>5, <1>2, SMT DEF NElem, Dist
<1>6. QED BY <1>4, <1>5, <1>2, SMT

\* (i+1) % (CQ_N) steps to the next slot and wraps at the last one.
LEMMA Next1Wraps ==
  ASSUME NEW i \in 0 .. N - 1
  PROVE  /\ Next1(i) = IF i = N - 1 THEN 0 ELSE i + 1
         /\ Next1(i) \in 0 .. N - 1
  BY NAssumption, ModWrap, SMT DEF Next1, Wrap

\* The slots from f to h, h excluded.
LEMMA RingFacts ==
  ASSUME NEW f \in 0 .. N - 1, NEW h \in 0 .. N - 1
  PROVE  /\ Dist(f, h) \in 0 .. N - 1
         /\ Dist(f, h) = 0 <=> f = h
         /\ \A i \in 0 .. Dist(f, h) - 1 : Wrap(f + i) \in 0 .. N - 1 /\ Wrap(f + i) # h
         /\ Wrap(f + Dist(f, h)) = h
         /\ \A i \in 0 .. Dist(f, h) : Wrap(f + i) \in 0 .. N - 1 /\ Dist(Wrap(f + i), h) = Dist(f, h) - i
  BY NAssumption, SMT DEF Dist, Wrap

\* The tests of circular.h.
LEMMA TestFacts ==
  ASSUME head \in 0 .. N - 1, tail \in 0 .. N - 1
  PROVE  /\ Empty <=> Dist(tail, head) = 0
         /\ Full <=> Dist(tail, head) = N - 1
         /\ NSpace = N - 1 - Dist(tail, head)
         /\ NElem = Dist(tail, head)
<1>1. NElem = Dist(tail, head)
  BY NElemIsDist
<1>2. Full <=> Dist(tail, head) = N - 1
  BY Next1Wraps, NAssumption, SMT DEF Full, Dist
<1>3. QED
  BY <1>1, <1>2, NAssumption, SMT DEF NSpace, Empty, Dist

-----------------------------------------------------------------------------
(* The inductive invariant.                                                *)

\* Conserved, with the count and the slot index free of the modulus.
Data ==
  /\ Len(pushed) = Len(popped) + Count
  /\ \A i \in 1 .. Len(popped) : popped[i] = pushed[i]
  /\ \A i \in 0 .. Count - 1 : buf[Wrap(Front + i)] = pushed[Len(popped) + 1 + i]

\* What the producer has established at each of its program points; the
\* consumer can only make more room meanwhile.
ProducerInv ==
  /\ ppc # "idle" => parg # <<>>
  /\ ppc # "idle" /\ via = "push_n" => Len(parg) + Count <= N - 1
  /\ ppc \in {"write", "publish"} => phead = head /\ Count < N - 1
  /\ ppc = "publish" => buf[head] = Head(parg)

\* What the consumer has established; the producer can only add elements.
ConsumerInv ==
  /\ cpc \in {"restore", "assert"} => cop = "peek_n"
  /\ cpc \notin {"idle", "restore", "assert"} => cn >= 1
  /\ cpc \in {"read", "advance"} => ctail = tail /\ tail # head
  /\ cpc = "advance" => cval = buf[tail] /\ cop # "peek"
  /\ cop = "pop_n_noblk" /\ cpc \in {"empty", "read", "advance"} => cn <= Count

\* A masked cq_peek_n has the queue to itself, counts what it has read in the
\* distance tail has moved, and finds as many elements as there were.
PeekInv ==
  Peeking =>
    /\ ~intr /\ ppc = "idle" /\ csz = Count
    /\ cpc \in {"nelem", "empty", "read", "advance"} =>
         tail = Wrap(csave + Len(got)) /\ cn + Len(got) <= Count
    /\ cpc = "assert" => tail = csave

NoBadFault == fault \in {"none", "will_deadlock"}

IInv == TypeOK /\ Data /\ ProducerInv /\ ConsumerInv /\ PeekInv /\ NoBadFault

LEMMA InitIInv == Init => IInv
<1> SUFFICES ASSUME Init PROVE IInv
  OBVIOUS
<1>1. ~Peeking /\ Front = 0 /\ Count = 0
  BY NAssumption, SMT DEF Init, Count, Dist, Front, Peeking
<1>2. TypeOK
  BY NAssumption, SMT DEF Init, TypeOK, ConsumerOps
<1>3. Data
  BY <1>1, SMT DEF Init, Data
<1>4. QED
  BY <1>1, <1>2, <1>3 DEF Init, IInv, ProducerInv, ConsumerInv, PeekInv, NoBadFault

LEMMA NextIInv ==
  ASSUME IInv, [Next]_vars, PeeksMasked
  PROVE  IInv'
<1> USE NAssumption
<1> USE DEF IInv
<1>t. /\ TypeOK /\ N \in Nat /\ head \in 0 .. N - 1 /\ tail \in 0 .. N - 1
      /\ Front \in 0 .. N - 1 /\ Count \in 0 .. N - 1
  <2>1. head \in 0 .. N - 1 /\ tail \in 0 .. N - 1 /\ Front \in 0 .. N - 1
    BY DEF TypeOK, Front
  <2> QED BY <2>1, RingFacts DEF Count
<1>r. /\ Empty <=> Dist(tail, head) = 0
      /\ Full <=> Dist(tail, head) = N - 1
      /\ NSpace = N - 1 - Dist(tail, head)
      /\ NElem = Dist(tail, head)
      /\ Dist(tail, head) \in 0 .. N - 1
      /\ Dist(tail, head) = 0 <=> tail = head
  BY <1>t, RingFacts, TestFacts
<1>f. /\ \A i \in 0 .. Count - 1 : Wrap(Front + i) \in 0 .. N - 1 /\ Wrap(Front + i) # head
      /\ Wrap(Front + Count) = head
  BY <1>t, RingFacts DEF Count
<1>n. ~Peeking => Front = tail /\ Count = Dist(tail, head)
  BY DEF Front, Count
<1>p. ppc # "idle" => ~Peeking
  BY DEF PeekInv
<1>u. ASSUME UNCHANGED <<buf, head, pushed, popped>>, Front' = Front
      PROVE  Data' /\ Count' = Count
  BY <1>u DEF Data, Count, Dist, Wrap
<1>v. ASSUME UNCHANGED <<tail, consumer>>
      PROVE  Front' = Front /\ Peeking' = Peeking
  BY <1>v DEF Front, Peeking, consumer
<1>1. ASSUME NEW v \in {"push", "push_n"}, NEW batch \in Batches, PushCall(v, batch)
      PROVE  IInv'
  <2>1. batch \in Seq(Values) /\ batch # <<>>
    BY DataAssumption
  <2>0. ~Peeking
    BY <1>1 DEF PushCall, PeekInv, Peeking
  <2>2. TypeOK'
    BY <1>1, <2>1, <1>t DEF TypeOK, PushCall, queue, consumer
  <2>3. Data' /\ Count' = Count /\ ~Peeking'
    BY <1>1, <1>u, <1>v, <2>0 DEF PushCall, queue
  <2>4. v = "push_n" => Len(batch) + Count <= N - 1
    BY <1>1, <2>0, <2>1, <1>n, <1>r, <1>t, SMT DEF PushCall
  <2>5. ProducerInv'
    BY <1>1, <2>1, <2>3, <2>4 DEF PushCall, ProducerInv
  <2>6. ConsumerInv' /\ NoBadFault' /\ PeekInv'
    BY <1>1, <2>3 DEF PushCall, ConsumerInv, PeekInv, NoBadFault, queue, consumer
  <2>7. QED BY <2>2, <2>3, <2>5, <2>6
<1>2. CASE PushCheck
  <2>0. ~Peeking
    BY <1>2, <1>p DEF PushCheck
  <2>1. TypeOK'
    <3>1. phead' \in 0 .. N - 1 /\ parg' \in Seq(Values)
      <4>1. phead' = head /\ parg' \in {<<>>, parg}
        BY <1>2 DEF PushCheck
      <4>2. <<>> \in Seq(Values) /\ parg \in Seq(Values)
        BY <1>t DEF TypeOK
      <4>3. QED BY <4>1, <4>2, <1>t
    <3>2. /\ ppc' \in {"idle", "check", "write"}
          /\ fault' \in {"none", "push_n_full", "assert_nspace"}
      BY <1>2 DEF PushCheck, Running
    <3>3. QED BY <1>2, <3>1, <3>2, <1>t DEF TypeOK, PushCheck, queue, consumer
  <2>2. Data' /\ Count' = Count /\ ~Peeking'
    BY <1>2, <1>u, <1>v, <2>0 DEF PushCheck, queue
  <2>3. ~(Full /\ via = "push_n")
    <3>1. parg \in Seq(Values) /\ parg # <<>> /\ (via = "push_n" => Len(parg) + Count <= N - 1)
      BY <1>2, <1>t DEF PushCheck, ProducerInv, TypeOK
    <3>2. QED BY <2>0, <3>1, <1>n, <1>r, <1>t, SMT
  <2>4. ~Full => NSpace > 0 /\ Count < N - 1
    BY <2>0, <1>n, <1>r, <1>t, SMT
  <2>5. ProducerInv'
    BY <1>2, <2>2, <2>3, <2>4 DEF PushCheck, ProducerInv, queue
  <2>6. ConsumerInv' /\ NoBadFault' /\ PeekInv'
    BY <1>2, <2>2, <2>3, <2>4 DEF PushCheck, ConsumerInv, PeekInv, NoBadFault, queue, consumer, Running
  <2>7. QED BY <2>1, <2>2, <2>5, <2>6
<1>3. CASE PushWrite
  <2>0. /\ phead = head /\ parg \in Seq(Values) /\ parg # <<>> /\ Head(parg) \in Values
        /\ ~Peeking
    BY <1>3, <1>p, <1>t DEF PushWrite, ProducerInv, TypeOK
  <2>1. buf' = [buf EXCEPT ![head] = Head(parg)]
    BY <1>3, <2>0 DEF PushWrite
  <2>2. TypeOK'
    BY <1>3, <2>0, <1>t DEF TypeOK, PushWrite, consumer
  <2>3. Count' = Count /\ Front' = Front /\ ~Peeking'
    BY <1>3, <1>v, <2>0 DEF PushWrite, Count, Dist
  <2>4. Data'
    <3>1. \A i \in 0 .. Count - 1 : buf'[Wrap(Front + i)] = buf[Wrap(Front + i)]
      BY <2>1, <1>f, <1>t DEF TypeOK
    <3>2. QED BY <3>1, <2>3, <1>3 DEF Data, PushWrite, Wrap
  <2>5. ProducerInv'
    BY <1>3, <2>1, <2>0, <2>3, <1>t DEF PushWrite, ProducerInv, TypeOK
  <2>7. ConsumerInv' /\ NoBadFault' /\ PeekInv'
    BY <1>3, <2>1, <2>3, <1>t DEF PushWrite, ConsumerInv, PeekInv, NoBadFault, consumer, TypeOK
  <2>8. QED BY <2>2, <2>4, <2>5, <2>7
<1>4. CASE PushPublish
  <2>0. /\ phead = head /\ Count < N - 1 /\ buf[head] = Head(parg)
        /\ parg \in Seq(Values) /\ parg # <<>> /\ Head(parg) \in Values
        /\ Tail(parg) \in Seq(Values) /\ Len(Tail(parg)) = Len(parg) - 1
    BY <1>4, <1>t DEF PushPublish, Rest, ProducerInv, TypeOK
  <2>a. ~Peeking /\ Front' = Front /\ ~Peeking'
    BY <1>4, <1>p, <1>v DEF PushPublish
  <2>1. head' = IF head = N - 1 THEN 0 ELSE head + 1
    BY <1>4, <2>0, <1>t, Next1Wraps DEF PushPublish, Rest
  <2>2. Count' = Count + 1
    BY <2>0, <2>a, <2>1, <1>t, SMT DEF Count, Dist
  <2>3. TypeOK'
    <3>1. head' \in 0 .. N - 1
      BY <2>1, <1>t, SMT
    <3>2. pushed' \in Seq(Values)
      BY <1>4, <2>0, <1>t DEF PushPublish, Rest, TypeOK
    <3>3. QED BY <1>4, <2>0, <3>1, <3>2, <1>t DEF TypeOK, PushPublish, Rest, consumer
  <2>4. Data'
    <3>1. /\ pushed' = Append(pushed, Head(parg)) /\ UNCHANGED <<buf, popped>> /\ Front' = Front
          /\ pushed \in Seq(Values) /\ popped \in Seq(Values)
      BY <1>4, <2>a, <1>t DEF PushPublish, Rest, TypeOK
    <3>2. Len(pushed') = Len(popped') + Count'
      BY <3>1, <2>2, <1>t, SMT DEF Data
    <3>3. \A i \in 1 .. Len(popped') : popped'[i] = pushed'[i]
      BY <3>1, <2>2, <1>t, SMT DEF Data
    <3>4. ASSUME NEW i \in 0 .. Count - 1
          PROVE  buf'[Wrap(Front' + i)] = pushed'[Len(popped') + 1 + i]
      <4>1. buf[Wrap(Front + i)] = pushed[Len(popped) + 1 + i]
        BY DEF Data
      <4>2. Len(popped) + 1 + i \in 1 .. Len(pushed)
        BY <3>1, <1>t, SMT DEF Data
      <4>3. pushed'[Len(popped) + 1 + i] = pushed[Len(popped) + 1 + i]
        BY <3>1, <4>2, SMT
      <4>4. QED BY <4>1, <4>3, <3>1 DEF Wrap
    <3>5. buf'[Wrap(Front' + Count)] = pushed'[Len(popped') + 1 + Count]
      <4>1. buf'[Wrap(Front' + Count)] = Head(parg)
        BY <3>1, <1>f, <2>0 DEF Wrap
      <4>2. pushed'[Len(pushed) + 1] = Head(parg) /\ Len(pushed) = Len(popped') + Count
        BY <3>1, <2>0 DEF Data
      <4>3. QED BY <4>1, <4>2, <3>1, <1>t, SMT
    <3>6. \A i \in 0 .. Count' - 1 : i \in 0 .. Count - 1 \/ i = Count
      BY <2>2, <1>t, SMT
    <3>7. QED BY <3>2, <3>3, <3>4, <3>5, <3>6 DEF Data, Wrap
  <2>5. ProducerInv'
    <3>1. /\ ppc' = IF Tail(parg) = <<>> THEN "idle" ELSE "check"
          /\ parg' = Tail(parg) /\ via' = via
          /\ (via = "push_n" => Len(parg) + Count <= N - 1)
      BY <1>4 DEF PushPublish, Rest, ProducerInv
    <3>2. ppc' # "idle" => parg' # <<>>
      BY <3>1
    <3>3. via' = "push_n" => Len(parg') + Count' <= N - 1
      BY <3>1, <2>0, <2>2, <1>t, SMT
    <3>4. QED BY <3>1, <3>2, <3>3 DEF ProducerInv
  <2>6. ConsumerInv' /\ NoBadFault' /\ PeekInv'
    <3>1. tail # head => tail # head'
      <4>1. Front = tail /\ Count' = Dist(tail, head') /\ head' \in 0 .. N - 1
        BY <2>a, <2>1, <1>4, <1>n, <1>t DEF Count, PushPublish
      <4>2. Dist(tail, head') # 0
        BY <2>2, <4>1, <1>t, SMT
      <4> QED BY <4>1, <4>2, <1>t, RingFacts
    <3>2. cn \in Nat
      BY <1>t DEF TypeOK
    <3>3. cn <= Count => cn <= Count'
      BY <2>2, <3>2, <1>t, SMT
    <3>4. UNCHANGED <<buf, tail, consumer, fault>>
      BY <1>4 DEF PushPublish
    <3> QED BY <2>a, <3>1, <3>3, <3>4 DEF ConsumerInv, PeekInv, NoBadFault, consumer
  <2>7. QED BY <2>3, <2>4, <2>5, <2>6
<1>5. ASSUME NEW op \in ConsumerOps, NEW n \in Sizes \cup {1}, PopCall(op, n)
      PROVE  IInv'
  <2>1. n \in Nat /\ n >= 1 /\ NElem \in Nat
    BY <1>5, DataAssumption, <1>r, <1>t, SMT DEF PopCall
  <2>0. ~Peeking /\ Front = tail /\ NElem = Count
    BY <1>5, <1>n, <1>r DEF PopCall, Peeking
  <2>2. TypeOK'
    BY <1>5, <2>1, <1>t DEF TypeOK, PopCall, queue, producer
  <2>a. Front' = Front
    BY <1>5, <2>0 DEF PopCall, Front, queue
  <2>3. Data' /\ Count' = Count
    BY <1>5, <2>a, <1>u DEF PopCall, queue
  <2>4. ProducerInv'
    BY <1>5, <2>3 DEF PopCall, ProducerInv, queue, producer
  <2>5. ConsumerInv' /\ NoBadFault'
    BY <1>5, <2>1 DEF PopCall, ConsumerInv, NoBadFault
  <2>6. PeekInv'
    <3> SUFFICES ASSUME op = "peek_n" PROVE PeekInv'
      BY <1>5 DEF PopCall, PeekInv, Peeking
    <3>1. /\ ~intr /\ ppc = "idle" /\ n <= Count
          /\ UNCHANGED <<head, tail, intr, ppc>> /\ csz' = Count /\ csave' = tail /\ cn' = n
          /\ cpc' = "nelem" /\ got' = <<>>
      BY <1>5, <2>0 DEF PopCall, PeeksMasked, queue, producer
    <3>2. Len(got') = 0 /\ Wrap(tail + 0) = tail /\ n + 0 = n
      BY <2>1, <3>1, <1>t DEF Wrap
    <3> QED BY <2>3, <3>1, <3>2 DEF PeekInv, Wrap
  <2>7. QED BY <2>2, <2>3, <2>4, <2>5, <2>6
\* What a step of the consumer does to the queue's contents and the producer
<1>c. ASSUME UNCHANGED <<buf, head, intr, producer, pushed, popped>>, Front' = Front
      PROVE  Data' /\ Count' = Count /\ ProducerInv'
  <2>1. Data' /\ Count' = Count
    BY <1>c, <1>u
  <2> QED BY <1>c, <2>1 DEF ProducerInv, producer
\* What remains for a cq_peek_n to read
<1>q. Peeking /\ cpc \in {"nelem", "empty", "read", "advance"} =>
        /\ Len(got) \in Nat /\ cn \in Nat /\ csave \in 0 .. N - 1
        /\ Dist(tail, head) = Count - Len(got) /\ tail # head /\ Dist(tail, head) >= cn
  <2> SUFFICES ASSUME Peeking, cpc \in {"nelem", "empty", "read", "advance"}
               PROVE  /\ Len(got) \in Nat /\ cn \in Nat /\ csave \in 0 .. N - 1
                      /\ Dist(tail, head) = Count - Len(got) /\ tail # head /\ Dist(tail, head) >= cn
    OBVIOUS
  <2>1. Len(got) \in Nat /\ cn \in Nat /\ csave \in 0 .. N - 1
    BY <1>t DEF TypeOK
  <2>2. tail = Wrap(csave + Len(got)) /\ cn + Len(got) <= Count /\ cn >= 1 /\ Count = Dist(csave, head)
    BY DEF PeekInv, ConsumerInv, Count, Front
  <2>3. Len(got) \in 0 .. Dist(csave, head)
    BY <2>1, <2>2, <1>t
  <2>4. Dist(tail, head) = Count - Len(got)
    BY <2>1, <2>2, <2>3, <1>t, RingFacts
  <2>5. Dist(tail, head) >= cn /\ Dist(tail, head) # 0
    BY <2>1, <2>2, <2>4, <1>t
  <2> QED BY <2>1, <2>4, <2>5, <1>r
<1>6. CASE CheckNElem
  <2>1. TypeOK'
    BY <1>6, <1>t DEF TypeOK, CheckNElem, TooFew, queue, producer
  <2>0. Peeking => ~TooFew
    BY <1>6, <1>q, <1>r, <1>t, SMT DEF CheckNElem, TooFew
  <2>a. Front' = Front /\ (Peeking' => Peeking)
    BY <1>6, <2>0 DEF CheckNElem, Front, Peeking, queue
  <2>2. Data' /\ Count' = Count /\ ProducerInv'
    BY <1>6, <2>a, <1>c DEF CheckNElem, queue
  <2>4. cpc' = "empty" /\ cop = "pop_n_noblk" => cn <= Count
    <3> SUFFICES ASSUME cpc' = "empty", cop = "pop_n_noblk" PROVE cn <= Count
      OBVIOUS
    <3>1. ~TooFew /\ ~Peeking
      BY <1>6 DEF CheckNElem, Peeking
    <3> QED BY <3>1, <1>n, <1>r, <1>t, SMT DEF TooFew, TypeOK
  <2>5. ConsumerInv' /\ NoBadFault'
    BY <1>6, <2>2, <2>4 DEF CheckNElem, ConsumerInv, NoBadFault
  <2>6. PeekInv'
    BY <1>6, <2>a, <2>2 DEF CheckNElem, PeekInv, Wrap, queue, producer
  <2>7. QED BY <2>1, <2>2, <2>5, <2>6
<1>7. CASE CheckEmpty
  <2>1. TypeOK'
    BY <1>7, <1>t DEF TypeOK, CheckEmpty, queue, producer
  <2>0. Empty <=> tail = head
    BY DEF Empty
  <2>b. Peeking => cpc' = "read" /\ fault' = fault
    BY <1>7, <2>0, <1>q DEF CheckEmpty
  <2>a. Front' = Front /\ (Peeking' => Peeking)
    BY <1>7, <2>b DEF CheckEmpty, Front, Peeking, queue
  <2>2. Data' /\ Count' = Count /\ ProducerInv'
    BY <1>7, <2>a, <1>c DEF CheckEmpty, queue
  <2>5. ConsumerInv' /\ NoBadFault'
    BY <1>7, <2>0, <2>2 DEF CheckEmpty, ConsumerInv, NoBadFault, Running, queue
  <2>6. PeekInv'
    BY <1>7, <2>a, <2>b, <2>2 DEF CheckEmpty, PeekInv, Wrap, queue, producer
  <2>7. QED BY <2>1, <2>2, <2>5, <2>6
<1>8. CASE Read
  <2>0. ctail = tail /\ buf[tail] \in Values
    BY <1>8, <1>t DEF Read, Slot, ConsumerInv, TypeOK
  <2>1. TypeOK'
    <3>1. cval' \in Values /\ got' \in Seq(Values) /\ cpc' \in {"idle", "advance"}
      <4>1. cval' = buf[tail] /\ got' \in {<<buf[tail]>>, got} /\ cpc' \in {"idle", "advance"}
        BY <1>8, <2>0 DEF Read, Slot
      <4>2. <<buf[tail]>> \in Seq(Values) /\ got \in Seq(Values)
        BY <2>0, <1>t DEF TypeOK
      <4>3. QED BY <4>1, <4>2, <2>0
    <3>2. QED BY <1>8, <3>1, <1>t DEF TypeOK, Read, Slot, queue, producer
  <2>a. Front' = Front /\ (Peeking' <=> Peeking) /\ (Peeking => cpc' = "advance" /\ got' = got)
    BY <1>8 DEF Read, Front, Peeking, queue
  <2>2. Data' /\ Count' = Count /\ ProducerInv'
    BY <1>8, <2>a, <1>c DEF Read, queue
  <2>4. ConsumerInv' /\ NoBadFault'
    BY <1>8, <2>0, <2>2 DEF Read, Slot, ConsumerInv, NoBadFault, queue
  <2>6. PeekInv'
    BY <1>8, <2>a, <2>2 DEF Read, PeekInv, Wrap, queue, producer
  <2>7. QED BY <2>1, <2>2, <2>4, <2>6
<1>9. CASE Advance
  <2>0. /\ ctail = tail /\ tail # head /\ cval = buf[tail] /\ cval \in Values
        /\ cn \in Nat /\ cn >= 1 /\ got \in Seq(Values) /\ popped \in Seq(Values) /\ pushed \in Seq(Values)
        /\ UNCHANGED <<buf, head, intr, producer, pushed, cop, csz, csave, fault>>
        /\ cn' = cn - 1 /\ got' = Append(got, cval)
        /\ cpc' = IF cn > 1 THEN "empty" ELSE IF cop = "peek_n" THEN "restore" ELSE "idle"
    BY <1>9, <1>t DEF Advance, ConsumerInv, TypeOK
  <2>1. tail' = IF tail = N - 1 THEN 0 ELSE tail + 1
    BY <1>9, <2>0, <1>t, Next1Wraps DEF Advance
  <2>3. TypeOK'
    <3>1. tail' \in 0 .. N - 1 /\ cn - 1 \in Nat
      BY <2>0, <2>1, <1>t, SMT
    <3>2. popped' \in Seq(Values) /\ got' \in Seq(Values)
      BY <1>9, <2>0, <1>t DEF Advance, TypeOK
    <3>3. QED BY <1>9, <2>0, <3>1, <3>2, <1>t DEF TypeOK, Advance, producer
  <2>4. CASE cop = "peek_n"
    <3>1. Peeking /\ Peeking' /\ Front' = Front /\ popped' = popped
      BY <1>9, <2>0, <2>4 DEF Advance, Peeking, Front
    <3>2. Data' /\ Count' = Count /\ ProducerInv'
      BY <2>0, <3>1, <1>c
    <3>3. Len(got') = Len(got) + 1 /\ Len(got) \in Nat /\ csave \in 0 .. N - 1
      BY <2>0, <1>t DEF TypeOK
    <3>4. tail' = Wrap(csave + Len(got')) /\ cn' + Len(got') <= Count'
      <4>1. tail = Wrap(csave + Len(got)) /\ cn + Len(got) <= Count /\ Len(got) <= N
        BY <1>9, <2>0, <3>1, <3>3, <1>t DEF Advance, PeekInv
      <4> QED BY <2>0, <2>1, <3>2, <3>3, <4>1, <1>t, SMTT(60) DEF Wrap
    <3>5. PeekInv'
      BY <2>0, <3>1, <3>2, <3>4 DEF PeekInv, Wrap, producer
    <3>6. ConsumerInv' /\ NoBadFault'
      BY <2>0, <2>4, <3>2 DEF ConsumerInv, NoBadFault
    <3> QED BY <2>3, <3>2, <3>5, <3>6
  <2>5. CASE cop # "peek_n"
    <3>0. ~Peeking /\ ~Peeking' /\ Front = tail /\ Front' = tail' /\ Count = Dist(tail, head) /\ popped' = Append(popped, cval)
      BY <1>9, <2>0, <2>5 DEF Advance, Peeking, Front, Count
    <3>a. Count > 0
      BY <2>0, <3>0, <1>r, <1>t
    <3>b. Count' = Count - 1
      BY <2>0, <2>1, <3>0, <3>a, <1>t, SMT DEF Count, Dist
    <3>c. Data'
      <4>1. Len(popped') = Len(popped) + 1
        BY <2>0, <3>0
      <4>2. Len(pushed') = Len(popped') + Count'
        <5>1. pushed' = pushed /\ Len(popped) \in Nat /\ Len(pushed) = Len(popped) + Count
          BY <2>0 DEF Data
        <5> QED BY <4>1, <3>b, <5>1, <1>t
      <4>3. cval = pushed[Len(popped) + 1]
        <5>1. Wrap(tail + 0) = tail /\ 0 \in 0 .. Count - 1
          BY <3>a, <1>t, SMT DEF Wrap
        <5>2. buf[Wrap(tail + 0)] = pushed[Len(popped) + 1 + 0]
          BY <3>0, <5>1 DEF Data
        <5>3. QED BY <2>0, <5>1, <5>2, SMT
      <4>4. \A i \in 1 .. Len(popped') : popped'[i] = pushed'[i]
        BY <2>0, <3>0, <4>1, <4>3, SMT DEF Data
      <4>5. ASSUME NEW i \in 0 .. Count' - 1
            PROVE  buf'[Wrap(Front' + i)] = pushed'[Len(popped') + 1 + i]
        <5>1. i + 1 \in 0 .. Count - 1 /\ Wrap(tail' + i) = Wrap(tail + (i + 1))
          BY <4>5, <3>b, <2>1, <1>t, SMT DEF Wrap
        <5>2. buf[Wrap(tail + (i + 1))] = pushed[Len(popped) + 1 + (i + 1)]
          BY <3>0, <5>1 DEF Data
        <5>3. Len(popped) + 1 + (i + 1) = Len(popped') + 1 + i
          BY <2>0, <4>1, <3>b, <1>t, SMT
        <5>4. QED BY <2>0, <3>0, <5>1, <5>2, <5>3
      <4>6. QED BY <4>2, <4>4, <4>5 DEF Data, Wrap
    <3>d. ProducerInv'
      <4>1. UNCHANGED <<buf, head, ppc, via, parg, phead>>
        BY <2>0 DEF producer
      <4>2. parg \in Seq(Values)
        BY <1>t DEF TypeOK
      <4>3. QED BY <4>1, <4>2, <3>b, <1>t, SMT DEF ProducerInv
    <3>e. ConsumerInv'
      BY <2>0, <2>5, <3>b, <1>9, <1>t, SMT DEF ConsumerInv, Advance
    <3>f. PeekInv' /\ NoBadFault'
      BY <2>0, <3>0 DEF PeekInv, NoBadFault
    <3> QED BY <2>3, <3>c, <3>d, <3>e, <3>f
  <2>7. QED BY <2>4, <2>5
<1>10. CASE PeekRestore
  <2>0. cop = "peek_n" /\ Peeking /\ csave \in 0 .. N - 1
    BY <1>10, <1>t DEF PeekRestore, ConsumerInv, Peeking, TypeOK
  <2>1. TypeOK'
    BY <1>10, <1>t DEF PeekRestore, Restored, TypeOK, producer
  <2>2. Peeking' /\ Front' = Front
    BY <1>10, <2>0 DEF PeekRestore, Peeking, Front
  <2>3. Data' /\ Count' = Count /\ ProducerInv'
    BY <1>10, <2>2, <1>c DEF PeekRestore
  <2>4. ConsumerInv' /\ NoBadFault'
    BY <1>10, <2>0 DEF PeekRestore, ConsumerInv, NoBadFault
  <2>5. PeekInv'
    BY <1>10, <2>0, <2>2, <2>3 DEF PeekRestore, Restored, PeekInv, producer
  <2>6. QED BY <2>1, <2>3, <2>4, <2>5
<1>11. CASE PeekAssert
  <2>0. cop = "peek_n" /\ Peeking /\ tail = csave /\ csz = Count /\ Front = tail
    BY <1>11 DEF PeekAssert, ConsumerInv, Peeking, PeekInv, Front
  <2>1. csz = NElem
    BY <2>0, <1>r DEF Count
  <2>2. cpc' = "idle" /\ fault' = fault /\ ~Peeking' /\ Front' = Front
    BY <1>11, <2>0, <2>1 DEF PeekAssert, Peeking, Front, queue
  <2>3. Data' /\ Count' = Count /\ ProducerInv'
    BY <1>11, <2>2, <1>c DEF PeekAssert, queue
  <2>4. TypeOK'
    BY <1>11, <2>2, <1>t DEF PeekAssert, TypeOK, queue, producer
  <2>5. ConsumerInv' /\ NoBadFault' /\ PeekInv'
    BY <2>2, <2>0, <1>11 DEF PeekAssert, ConsumerInv, NoBadFault, PeekInv
  <2>6. QED BY <2>3, <2>4, <2>5
<1>12. CASE UNCHANGED vars
  <2>1. Data' /\ Count' = Count /\ Peeking' = Peeking
    BY <1>12, <1>u, <1>v DEF vars, consumer
  <2>2. QED
    BY <2>1, <1>12 DEF vars, TypeOK, ProducerInv, ConsumerInv, PeekInv, NoBadFault, Wrap
<1>13. CASE MaskInt
  <2>1. Data' /\ Count' = Count /\ Peeking' = Peeking /\ ~Peeking
    BY <1>13, <1>u, <1>v DEF MaskInt, Peeking
  <2>2. QED
    BY <2>1, <1>13, <1>t DEF MaskInt, TypeOK, ProducerInv, ConsumerInv, PeekInv, NoBadFault, producer, consumer
<1>14. QED
  BY <1>1, <1>2, <1>3, <1>4, <1>5, <1>6, <1>7, <1>8, <1>9, <1>10, <1>11, <1>12, <1>13
  DEF Next, Push, Pop, ProducerStep, ConsumerStep

-----------------------------------------------------------------------------
(* What the client is given.                                               *)

\* A peek gives the next elements, so far; a pop the last ones it consumed.
GotInv ==
  /\ cop \in {"peek", "peek_n"} =>
       /\ Len(popped) + Len(got) <= Len(pushed)
       /\ \A i \in 1 .. Len(got) : got[i] = pushed[Len(popped) + i]
  /\ cop \notin {"peek", "peek_n"} =>
       /\ Len(got) <= Len(popped)
       /\ \A i \in 1 .. Len(got) : got[i] = popped[(Len(popped) - Len(got)) + i]

LEMMA NextGotInv ==
  ASSUME IInv, GotInv, [Next]_vars, PeeksMasked
  PROVE  GotInv'
<1>t. /\ TypeOK /\ got \in Seq(Values) /\ popped \in Seq(Values) /\ pushed \in Seq(Values)
      /\ Len(got) \in Nat /\ Len(popped) \in Nat /\ Len(pushed) \in Nat
      /\ N \in Nat /\ N >= 2 /\ head \in 0 .. N - 1 /\ tail \in 0 .. N - 1 /\ csave \in 0 .. N - 1
      /\ Front \in 0 .. N - 1 /\ Count \in 0 .. N - 1 /\ cn \in Nat
      /\ Len(pushed) = Len(popped) + Count
  <2>1. /\ TypeOK /\ got \in Seq(Values) /\ popped \in Seq(Values) /\ pushed \in Seq(Values)
        /\ head \in 0 .. N - 1 /\ tail \in 0 .. N - 1 /\ csave \in 0 .. N - 1 /\ Front \in 0 .. N - 1 /\ cn \in Nat
        /\ Len(pushed) = Len(popped) + Count
    BY DEF IInv, TypeOK, Front, Data
  <2>2. Len(got) \in Nat /\ Len(popped) \in Nat /\ Len(pushed) \in Nat
    BY <2>1
  <2>3. Count \in 0 .. N - 1
    BY <2>1, RingFacts DEF Count
  <2> QED BY <2>1, <2>2, <2>3, NAssumption
\* the element at tail, as long as there is one
<1>h. ASSUME tail # head, NEW k \in Nat, k < Count, tail = Wrap(Front + k)
      PROVE  Len(popped) + k + 1 <= Len(pushed) /\ buf[tail] = pushed[Len(popped) + (k + 1)]
  <2>1. k \in 0 .. Count - 1 /\ Len(popped) + 1 + k = Len(popped) + (k + 1)
    BY <1>h, <1>t
  <2>2. buf[Wrap(Front + k)] = pushed[Len(popped) + 1 + k]
    BY <2>1 DEF IInv, Data
  <2> QED BY <1>h, <1>t, <2>1, <2>2
<1>1. CASE UNCHANGED <<got, pushed, popped, cop>>
  BY <1>1 DEF GotInv
<1>2. CASE PushPublish
  <2>1. /\ UNCHANGED <<got, popped, cop>> /\ pushed' = Append(pushed, Head(parg)) /\ Head(parg) \in Values
    BY <1>2, <1>t DEF PushPublish, consumer, IInv, TypeOK, ProducerInv
  <2>2. Len(pushed') = Len(pushed) + 1 /\ \A i \in 1 .. Len(pushed) : pushed'[i] = pushed[i]
    BY <1>t, <2>1
  <2>3. CASE cop \in {"peek", "peek_n"}
    <3>1. Len(popped) + Len(got) <= Len(pushed) /\ \A i \in 1 .. Len(got) : got[i] = pushed[Len(popped) + i]
      BY <2>3 DEF GotInv
    <3>2. \A i \in 1 .. Len(got) : Len(popped) + i \in 1 .. Len(pushed)
      BY <1>t, <3>1
    <3>3. Len(popped) + Len(got) <= Len(pushed')
      BY <1>t, <2>2, <3>1
    <3>4. \A i \in 1 .. Len(got) : got[i] = pushed'[Len(popped) + i]
      BY <2>2, <3>1, <3>2
    <3> QED BY <2>1, <2>3, <3>3, <3>4 DEF GotInv
  <2>4. CASE cop \notin {"peek", "peek_n"}
    BY <2>1, <2>4 DEF GotInv
  <2> QED BY <2>3, <2>4
<1>3. ASSUME NEW op \in ConsumerOps, NEW n \in Sizes \cup {1}, PopCall(op, n)
      PROVE  GotInv'
  <2>1. got' = <<>> /\ UNCHANGED <<pushed, popped>>
    BY <1>3 DEF PopCall
  <2>2. Len(got') = 0 /\ 1 .. Len(got') = {}
    BY <2>1
  <2>3. Len(popped') + Len(got') <= Len(pushed') /\ Len(got') <= Len(popped')
    BY <1>t, <2>1, <2>2
  <2> QED BY <2>2, <2>3 DEF GotInv
<1>4. CASE Read
  <2>1. UNCHANGED <<pushed, popped, cop>> /\ (cop # "peek" => got' = got)
        /\ (cop = "peek" => got' = <<buf[tail]>>) /\ tail # head
    BY <1>4 DEF Read, Slot, IInv, ConsumerInv
  <2>2. CASE cop # "peek"
    BY <2>1, <2>2 DEF GotInv
  <2>3. CASE cop = "peek"
    <3>1. Front = tail /\ 0 < Count /\ tail = Wrap(Front + 0)
      BY <1>t, <2>1, <2>3, RingFacts DEF Front, Peeking, Count, Wrap
    <3>2. Len(popped) + 0 + 1 <= Len(pushed) /\ buf[tail] = pushed[Len(popped) + (0 + 1)]
      BY <1>h, <2>1, <3>1
    <3>3. buf[tail] \in Values
      BY <1>t DEF TypeOK
    <3>4. Len(got') = 1 /\ got'[1] = buf[tail]
      BY <2>1, <2>3, <3>3
    <3>5. \A i \in 1 .. Len(got') : i = 1
      BY <3>4
    <3>6. Len(popped) + 1 <= Len(pushed) /\ buf[tail] = pushed[Len(popped) + 1]
      BY <1>t, <3>2
    <3> QED BY <2>1, <2>3, <3>4, <3>5, <3>6 DEF GotInv
  <2> QED BY <2>2, <2>3
<1>5. CASE Advance
  <2>1. /\ UNCHANGED <<pushed, cop>> /\ got' = Append(got, cval) /\ cval = buf[tail] /\ tail # head
        /\ cval \in Values
        /\ popped' = IF cop = "peek_n" THEN popped ELSE Append(popped, cval)
    BY <1>5, <1>t DEF Advance, IInv, ConsumerInv, TypeOK
  <2>2. Len(got') = Len(got) + 1 /\ (\A i \in 1 .. Len(got) : got'[i] = got[i]) /\ got'[Len(got) + 1] = cval
    BY <1>t, <2>1
  <2>3. CASE cop = "peek_n"
    <3>1. Peeking /\ tail = Wrap(csave + Len(got)) /\ cn + Len(got) <= Count /\ cn >= 1
      BY <1>5, <2>3 DEF Advance, Peeking, IInv, PeekInv, ConsumerInv
    <3>2. Front = csave /\ Len(got) < Count
      BY <1>t, <3>1 DEF Front
    <3>3. Len(popped) + Len(got) + 1 <= Len(pushed) /\ buf[tail] = pushed[Len(popped) + (Len(got) + 1)]
      BY <1>h, <1>t, <2>1, <3>1, <3>2
    <3>4. ASSUME NEW i \in 1 .. Len(got') PROVE got'[i] = pushed[Len(popped) + i]
      <4>1. i \in 1 .. Len(got) \/ i = Len(got) + 1
        BY <1>t, <2>2
      <4>2. CASE i \in 1 .. Len(got)
        BY <2>2, <2>3, <4>2 DEF GotInv
      <4>3. CASE i = Len(got) + 1
        BY <2>1, <2>2, <3>3, <4>3
      <4> QED BY <4>1, <4>2, <4>3
    <3>5. Len(popped) + Len(got') <= Len(pushed)
      BY <1>t, <2>2, <3>3
    <3> QED BY <2>1, <2>3, <3>4, <3>5 DEF GotInv
  <2>4. CASE cop # "peek_n"
    <3>0. cop # "peek"
      BY <1>5, <2>4 DEF Advance, IInv, ConsumerInv
    <3>1. popped' = Append(popped, cval)
      BY <2>1, <2>4
    <3>2. Len(popped') = Len(popped) + 1 /\ (\A i \in 1 .. Len(popped) : popped'[i] = popped[i])
          /\ popped'[Len(popped) + 1] = cval
      BY <1>t, <2>1, <3>1
    <3>3. Len(got) <= Len(popped) /\ \A i \in 1 .. Len(got) : got[i] = popped[(Len(popped) - Len(got)) + i]
      BY <2>4, <3>0 DEF GotInv
    <3>4. ASSUME NEW i \in 1 .. Len(got') PROVE got'[i] = popped'[(Len(popped') - Len(got')) + i]
      <4>0. Len(popped') - Len(got') = Len(popped) - Len(got)
        BY <1>t, <2>2, <3>2
      <4>1. i \in 1 .. Len(got) \/ i = Len(got) + 1
        BY <1>t, <2>2
      <4>2. CASE i \in 1 .. Len(got)
        <5>1. (Len(popped) - Len(got)) + i \in 1 .. Len(popped)
          BY <1>t, <3>3, <4>2
        <5> QED BY <2>2, <3>2, <3>3, <4>0, <4>2, <5>1
      <4>3. CASE i = Len(got) + 1
        <5>1. (Len(popped) - Len(got)) + i = Len(popped) + 1
          BY <1>t, <4>3
        <5> QED BY <2>2, <3>2, <4>0, <4>3, <5>1
      <4> QED BY <4>1, <4>2, <4>3
    <3>5. Len(got') <= Len(popped')
      BY <1>t, <2>2, <3>2, <3>3
    <3> QED BY <2>1, <2>4, <3>0, <3>4, <3>5 DEF GotInv
  <2> QED BY <2>3, <2>4
<1>6. CASE MaskInt \/ UNCHANGED vars \/ PushCheck \/ PushWrite \/ CheckNElem \/ CheckEmpty
           \/ PeekRestore \/ PeekAssert \/ Push
  BY <1>1, <1>6 DEF MaskInt, vars, PushCheck, PushWrite, CheckNElem, CheckEmpty, PeekRestore, PeekAssert,
                    Push, PushCall, consumer
<1> QED BY <1>2, <1>3, <1>4, <1>5, <1>6 DEF Next, Pop, ProducerStep, ConsumerStep

-----------------------------------------------------------------------------
(* Records.                                                                *)

\* x is a multiple of n.
Multiple(x, n) == \E k \in Nat : x = k * n

LEMMA MultipleFacts ==
  ASSUME NEW n \in Nat, n > 0, NEW x \in Nat
  PROVE  /\ x % n = 0 => Multiple(x, n)
         /\ Multiple(0, n)
         /\ Multiple(x, n) => Multiple(x + n, n)
         /\ Multiple(x, n) /\ x >= n => Multiple(x - n, n)
         /\ \A y \in Nat : Multiple(x, n) /\ Multiple(y, n) /\ x < y => x + n <= y
<1>1. x % n = 0 => Multiple(x, n)
  <2>1. x = n * (x \div n) + (x % n) /\ x \div n \in Nat
    BY SMT
  <2>2. PICK q \in Nat : q = x \div n
    BY <2>1
  <2>3. x % n = 0 => x = q * n
    BY <2>1, <2>2, SMT
  <2> QED BY <2>2, <2>3 DEF Multiple
<1>2. Multiple(0, n)
  <2>1. 0 = 0 * n
    BY SMT
  <2> QED BY <2>1 DEF Multiple
<1>3. ASSUME NEW k \in Nat, x = k * n PROVE Multiple(x + n, n)
  <2>1. x + n = (k + 1) * n /\ k + 1 \in Nat
    BY <1>3, SMT
  <2> QED BY <2>1 DEF Multiple
<1>4. ASSUME NEW k \in Nat, x = k * n, x >= n PROVE Multiple(x - n, n)
  <2>1. k # 0
    BY <1>4, SMT
  <2>2. x - n = (k - 1) * n /\ k - 1 \in Nat
    BY <1>4, <2>1, SMT
  <2> QED BY <2>2 DEF Multiple
<1>5. ASSUME NEW y \in Nat, NEW k \in Nat, x = k * n, NEW j \in Nat, y = j * n, x < y
      PROVE  x + n <= y
  <2>1. k < j
    <3>1. CASE k >= j
      <4>1. PICK d \in Nat : k = j + d
        BY <3>1, SMT
      <4>2. k * n = j * n + d * n /\ d * n >= 0
        BY <4>1, SMT
      <4> QED BY <1>5, <4>2, SMT
    <3> QED BY <3>1, SMT
  <2>2. PICK d \in Nat : j = k + 1 + d
    BY <2>1, SMT
  <2>3. j * n = k * n + n + d * n /\ d * n >= 0
    BY <2>2, SMT
  <2> QED BY <1>5, <2>3, SMT
<1> QED BY <1>1, <1>2, <1>3, <1>4, <1>5 DEF Multiple

\* The n elements of s after the x-th.
Slice(s, x, n) == [i \in 1 .. n |-> s[x + i]]

\* If every batch has n elements, then so far every n elements published are
\* one of them ...
Whole(n) ==
  \A x \in 0 .. Len(pushed) :
    Multiple(x, n) /\ x + n <= Len(pushed) => Slice(pushed, x, n) \in Batches

\* ... and the producer is in the middle of one: what it has published since the
\* last of them, and what it has left.  (cq_push, which may drop its element,
\* only has batches of one.)
Partial(n) ==
  \E s \in 0 .. Len(pushed) :
    /\ Multiple(s, n) /\ Len(pushed) < s + n
    /\ ppc = "idle" => s = Len(pushed)
    /\ ppc # "idle" =>
         /\ via = "push" => n = 1
         /\ (Len(pushed) - s) + Len(parg) = n
         /\ \E b \in Batches :
              /\ \A i \in 1 .. Len(pushed) - s : b[i] = pushed[s + i]
              /\ \A i \in 1 .. Len(parg) : b[(Len(pushed) - s) + i] = parg[i]

RecInv ==
  \A n \in Nat \ {0} : (\A batch \in Batches : Len(batch) = n) => Whole(n) /\ Partial(n)

LEMMA NextRecords ==
  ASSUME NEW n \in Nat \ {0}, \A batch \in Batches : Len(batch) = n,
         IInv, Whole(n), Partial(n), [Next]_vars
  PROVE  Whole(n)' /\ Partial(n)'
<1>t. /\ pushed \in Seq(Values) /\ parg \in Seq(Values) /\ Len(pushed) \in Nat /\ Len(parg) \in Nat
      /\ n \in Nat /\ n > 0
  BY DEF IInv, TypeOK
<1>1. PICK s \in 0 .. Len(pushed) :
        /\ Multiple(s, n) /\ Len(pushed) < s + n
        /\ ppc = "idle" => s = Len(pushed)
        /\ ppc # "idle" =>
             /\ via = "push" => n = 1
             /\ (Len(pushed) - s) + Len(parg) = n
             /\ \E b \in Batches :
                  /\ \A i \in 1 .. Len(pushed) - s : b[i] = pushed[s + i]
                  /\ \A i \in 1 .. Len(parg) : b[(Len(pushed) - s) + i] = parg[i]
  BY DEF Partial
<1>2. ASSUME UNCHANGED pushed PROVE Whole(n)'
  BY <1>2 DEF Whole, Slice, Multiple
<1>3. ASSUME UNCHANGED <<pushed, via, parg>>, ppc' = "idle" <=> ppc = "idle"
      PROVE  Whole(n)' /\ Partial(n)'
  <2>1. Partial(n)'
    BY <1>1, <1>3, ZenonT(60) DEF Partial, Multiple
  <2> QED BY <1>2, <1>3, <2>1
<1>4. ASSUME NEW v \in {"push", "push_n"}, NEW batch \in Batches, PushCall(v, batch)
      PROVE  Whole(n)' /\ Partial(n)'
  <2>1. /\ pushed' = pushed /\ ppc' = "check" /\ via' = v /\ parg' = batch /\ s = Len(pushed)
        /\ v = "push" => n = 1
        /\ Len(batch) = n
    BY <1>1, <1>4 DEF PushCall
  <2>2. (Len(pushed) - s) + Len(batch) = n /\ 1 .. Len(pushed) - s = {} /\ \A i \in 1 .. n : (Len(pushed) - s) + i = i
    BY <1>t, <2>1
  <2>3. /\ \A i \in 1 .. Len(pushed) - s : batch[i] = pushed[s + i]
        /\ \A i \in 1 .. Len(batch) : batch[(Len(pushed) - s) + i] = batch[i]
    BY <2>1, <2>2
  <2>4. Partial(n)'
    BY <1>1, <2>1, <2>2, <2>3, ZenonT(60) DEF Partial, Multiple
  <2> QED BY <1>2, <2>1, <2>4
<1>5. CASE PushCheck
  <2>1. CASE parg' = parg /\ ppc' # "idle"
    BY <1>3, <1>5, <2>1 DEF PushCheck
  <2>2. CASE via = "push" /\ ppc' = "idle"
    <3>1. s = Len(pushed)
      BY <1>1, <1>5, <1>t, <2>2 DEF PushCheck
    <3>2. UNCHANGED <<pushed, via>>
      BY <1>5 DEF PushCheck
    <3>3. Partial(n)'
      BY <1>1, <2>2, <3>1, <3>2 DEF Partial, Multiple
    <3> QED BY <1>2, <3>2, <3>3
  <2> QED BY <1>5, <2>1, <2>2 DEF PushCheck
<1>6. CASE PushPublish
  <2>1. /\ pushed' = Append(pushed, Head(parg)) /\ parg' = Tail(parg) /\ via' = via /\ parg # <<>>
        /\ ppc = "publish" /\ ppc' = IF Tail(parg) = <<>> THEN "idle" ELSE "check"
    BY <1>6 DEF PushPublish, Rest, IInv, ProducerInv
  <2>2. /\ Head(parg) = parg[1] /\ Head(parg) \in Values /\ Len(Tail(parg)) = Len(parg) - 1 /\ Len(parg) >= 1
        /\ \A i \in 1 .. Len(parg) - 1 : Tail(parg)[i] = parg[i + 1]
    BY <1>t, <2>1
  <2>3. Len(pushed') = Len(pushed) + 1 /\ (\A i \in 1 .. Len(pushed) : pushed'[i] = pushed[i])
        /\ pushed'[Len(pushed) + 1] = parg[1]
    BY <1>t, <2>1, <2>2
  <2>4. PICK b \in Batches :
          /\ \A i \in 1 .. Len(pushed) - s : b[i] = pushed[s + i]
          /\ \A i \in 1 .. Len(parg) : b[(Len(pushed) - s) + i] = parg[i]
    BY <1>1, <2>1
  <2>5. (Len(pushed) - s) + Len(parg) = n /\ (via = "push" => n = 1)
    BY <1>1, <2>1
  \* what is published of the batch, with the new element
  <2>6. ASSUME NEW i \in 1 .. (Len(pushed) + 1) - s PROVE b[i] = pushed'[s + i]
    <3>1. CASE i <= Len(pushed) - s
      <4>1. i \in 1 .. Len(pushed) - s /\ s + i \in 1 .. Len(pushed)
        BY <1>t, <3>1
      <4> QED BY <2>3, <2>4, <4>1
    <3>2. CASE i > Len(pushed) - s
      <4>1. i = (Len(pushed) - s) + 1 /\ s + i = Len(pushed) + 1 /\ 1 \in 1 .. Len(parg)
        BY <1>t, <2>2, <3>2
      <4> QED BY <2>3, <2>4, <4>1
    <3> QED BY <1>t, <3>1, <3>2
  <2>7. Whole(n)'
    <3>1. ASSUME NEW x \in 0 .. Len(pushed) + 1, Multiple(x, n), x + n <= Len(pushed) + 1
          PROVE  Slice(pushed', x, n) \in Batches
      <4>1. CASE x + n <= Len(pushed)
        <5>1. x \in 0 .. Len(pushed)
          BY <1>t, <4>1
        <5>2. Slice(pushed, x, n) \in Batches
          BY <3>1, <4>1, <5>1 DEF Whole
        <5>3. \A i \in 1 .. n : x + i \in 1 .. Len(pushed)
          BY <1>t, <4>1
        <5>4. Slice(pushed', x, n) = Slice(pushed, x, n)
          BY <2>3, <5>3 DEF Slice
        <5> QED BY <5>2, <5>4
      <4>2. CASE x + n > Len(pushed)
        <5>1. x + n = Len(pushed) + 1
          BY <1>t, <3>1, <4>2
        <5>2. ~(x < s)
          <6>1. x < s => x + n <= s
            BY <1>1, <1>t, <3>1, MultipleFacts
          <6> QED BY <1>t, <4>2, <6>1
        <5>3. ~(s < x)
          <6>1. s < x => s + n <= x
            BY <1>1, <1>t, <3>1, MultipleFacts
          <6> QED BY <1>1, <1>t, <5>1, <6>1
        <5>4. x = s /\ n = (Len(pushed) + 1) - s
          BY <1>t, <5>1, <5>2, <5>3
        <5>5. b \in Seq(Values) /\ Len(b) = n
          BY DataAssumption
        <5>6. b = [i \in 1 .. n |-> b[i]]
          BY <1>t, <5>5
        <5>7. \A i \in 1 .. n : b[i] = pushed'[x + i]
          BY <2>6, <5>4
        <5>8. Slice(pushed', x, n) = b
          BY <5>6, <5>7 DEF Slice
        <5> QED BY <5>8
      <4> QED BY <1>t, <4>1, <4>2
    <3>2. \A x : Multiple(x, n)' <=> Multiple(x, n)
      BY DEF Multiple
    <3> QED BY <2>3, <3>1 DEF Whole, Multiple, Slice
  <2>8. CASE Tail(parg) = <<>>
    <3>d. Len(<<>>) = 0
      OBVIOUS
    <3>0. Len(Tail(parg)) = 0
      BY <2>8, <3>d, Zenon
    <3>1. Len(parg) = 1
      BY <1>t, <2>2, <3>0
    <3>a. s \in Nat /\ Multiple(s, n)
      BY <1>1, <1>t
    <3>b. Len(pushed') = Len(pushed) + 1
      BY <2>3
    <3>2. s + n = Len(pushed')
      BY <1>t, <2>5, <3>1, <3>a, <3>b
    <3>c. Multiple(s + n, n)
      BY <3>a, MultipleFacts
    <3>3. Multiple(s + n, n) /\ s + n \in 0 .. Len(pushed') /\ Len(pushed') < (s + n) + n
      BY <1>t, <3>2, <3>a, <3>c
    <3>4. ppc' = "idle"
      BY <2>1, <2>8
    <3>5. Partial(n)'
      BY <3>2, <3>3, <3>4 DEF Partial, Multiple
    <3> QED BY <2>7, <3>5
  <2>9. CASE Tail(parg) # <<>>
    <3>1. Len(parg) > 1
      BY <1>t, <2>2, <2>9
    <3>a. Len(pushed') = Len(pushed) + 1
      BY <2>3
    <3>b. Len(parg') = Len(parg) - 1
      BY <2>1, <2>2
    <3>c. s \in 0 .. Len(pushed)
      BY <1>1
    <3>2. s \in 0 .. Len(pushed') /\ Len(pushed') < s + n /\ (Len(pushed') - s) + Len(parg') = n
      BY <1>t, <2>5, <3>1, <3>a, <3>b, <3>c, SMTT(60)
    <3>3. ASSUME NEW i \in 1 .. Len(parg') PROVE b[(Len(pushed') - s) + i] = parg'[i]
      <4>1. i \in 1 .. Len(parg) - 1 /\ i + 1 \in 1 .. Len(parg) /\ (Len(pushed') - s) + i = (Len(pushed) - s) + (i + 1)
        BY <1>t, <2>1, <2>2, <2>3
      <4> QED BY <2>1, <2>2, <2>4, <4>1
    <3>4. ppc' # "idle"
      BY <2>1, <2>9
    <3>5. \A i \in 1 .. Len(pushed') - s : b[i] = pushed'[s + i]
      BY <2>3, <2>6
    <3>6. \E bb \in Batches :
            /\ \A i \in 1 .. Len(pushed') - s : bb[i] = pushed'[s + i]
            /\ \A i \in 1 .. Len(parg') : bb[(Len(pushed') - s) + i] = parg'[i]
      BY <3>3, <3>5
    <3>7. Partial(n)'
      BY <1>1, <2>1, <2>5, <3>2, <3>4, <3>6, Zenon DEF Partial, Multiple
    <3> QED BY <2>7, <3>7
  <2> QED BY <2>8, <2>9
<1>7. CASE PushWrite
  BY <1>3, <1>7 DEF PushWrite
<1>8. CASE Pop \/ ConsumerStep \/ MaskInt \/ UNCHANGED vars
  <2>1. UNCHANGED <<pushed, producer>>
    BY <1>8 DEF Pop, PopCall, ConsumerStep, CheckNElem, CheckEmpty, Read, Advance, PeekRestore, PeekAssert,
                MaskInt, vars, producer
  <2> QED BY <1>3, <2>1 DEF producer
<1> QED BY <1>4, <1>5, <1>6, <1>7, <1>8 DEF Next, Push, ProducerStep

LEMMA NextRecInv == IInv /\ RecInv /\ [Next]_vars => RecInv'
<1> SUFFICES ASSUME IInv, RecInv, [Next]_vars, NEW n \in Nat \ {0}, \A batch \in Batches : Len(batch) = n
             PROVE  Whole(n)' /\ Partial(n)'
  BY DEF RecInv
<1> QED BY NextRecords DEF RecInv

-----------------------------------------------------------------------------
(* The theorems.                                                           *)

QueueInv == IInv /\ GotInv /\ RecInv

LEMMA QueueInvHolds == ASSUME PeeksMasked PROVE Spec => []QueueInv
<1>1. Init => QueueInv
  <2> SUFFICES ASSUME Init PROVE QueueInv
    OBVIOUS
  <2>1. IInv
    BY InitIInv
  <2>2. GotInv
    BY DEF Init, GotInv
  <2>3. RecInv
    <3> SUFFICES ASSUME NEW n \in Nat \ {0}, \A batch \in Batches : Len(batch) = n
                 PROVE  Whole(n) /\ Partial(n)
      BY DEF RecInv
    <3>1. Len(pushed) = 0 /\ ppc = "idle"
      BY DEF Init
    <3>2. Whole(n)
      BY <3>1 DEF Whole
    <3>3. Multiple(0, n)
      BY MultipleFacts
    <3>4. Partial(n)
      BY <3>1, <3>3 DEF Partial
    <3> QED BY <3>2, <3>4
  <2> QED BY <2>1, <2>2, <2>3 DEF QueueInv
<1>2. QueueInv /\ [Next]_vars => QueueInv'
  BY NextIInv, NextGotInv, NextRecInv DEF QueueInv
<1>3. QED BY <1>1, <1>2, PTL DEF Spec

\* The inductive invariant says what the checked properties say.
LEMMA IInvImplies ==
  ASSUME IInv
  PROVE  TypeOK /\ Conserved /\ NoImpossiblePanic /\ NoblkNeverBlocks
<1>1. head \in 0 .. N - 1 /\ tail \in 0 .. N - 1 /\ TypeOK
  BY DEF IInv, TypeOK
<1>2. NElem = Dist(tail, head) /\ Dist(tail, head) \in 0 .. N - 1 /\ (Empty <=> Dist(tail, head) = 0)
  BY <1>1, TestFacts, RingFacts
<1>3. Conserved
  <2> SUFFICES ASSUME ~Peeking PROVE Conserved
    BY DEF Conserved
  <2>0. Front = tail /\ Count = NElem
    BY <1>2 DEF Front, Count
  <2>1. \A i \in 0 .. Count - 1 : (tail + i) % N = Wrap(tail + i)
    BY <1>1, <1>2, <2>0, ModWrap, NAssumption, SMT
  <2>2. QED BY <2>0, <2>1, <1>2 DEF IInv, Data, Conserved
<1>4. NoImpossiblePanic
  BY DEF IInv, NoBadFault, NoImpossiblePanic
<1>5. NoblkNeverBlocks
  <2> SUFFICES ASSUME cop = "pop_n_noblk", cpc = "empty" PROVE ~Empty
    BY DEF NoblkNeverBlocks
  <2>1. Count = Dist(tail, head) /\ cn <= Count /\ cn >= 1 /\ cn \in Nat
    BY DEF Count, Front, Peeking, IInv, ConsumerInv, TypeOK
  <2> QED BY <1>1, <1>2, <2>1
<1>6. QED BY <1>1, <1>3, <1>4, <1>5

\* Under every interleaving of cq_push / cq_push_n with the pops and the peeks,
\* for every queue size: elements are neither lost, duplicated nor reordered.
THEOREM LockFreeQueueConserves ==
  ASSUME PeeksMasked PROVE Spec => []Conserved
<1>1. QueueInv => Conserved
  BY IInvImplies DEF QueueInv
<1>2. QED BY <1>1, QueueInvHolds, PTL

\* The variables keep their types: in particular head and tail never leave
\* the array, so no access of c_buf is out of bounds.
THEOREM LockFreeQueueTypeOK ==
  ASSUME PeeksMasked PROVE Spec => []TypeOK
<1>1. QueueInv => TypeOK
  BY DEF QueueInv, IInv
<1>2. QED BY <1>1, QueueInvHolds, PTL

\* The "impossible" panic of cq_push_n and the space assertion of cq_push
\* are unreachable.
THEOREM LockFreeQueueNoPanic ==
  ASSUME PeeksMasked PROVE Spec => []NoImpossiblePanic
<1>1. QueueInv => NoImpossiblePanic
  BY IInvImplies DEF QueueInv
<1>2. QED BY <1>1, QueueInvHolds, PTL

\* A non-blocking multi-element pop that has counted its elements never blocks.
THEOREM LockFreeQueueNoblk ==
  ASSUME PeeksMasked PROVE Spec => []NoblkNeverBlocks
<1>1. QueueInv => NoblkNeverBlocks
  BY IInvImplies DEF QueueInv
<1>2. QED BY <1>1, QueueInvHolds, PTL

\* What cq_pop_n, cq_pop_n_noblk, cq_peek and cq_peek_n give the client is right:
\* a record is one that was pushed, whole; a peek is of the next elements; and
\* the assertion of cq_peek_n holds when the handler is masked.
THEOREM LockFreeQueueResultsExact ==
  ASSUME PeeksMasked PROVE Spec => []ResultsExact
<1>1. QueueInv => ResultsExact
  <2> SUFFICES ASSUME QueueInv PROVE ResultsExact
    OBVIOUS
  <2>t. /\ got \in Seq(Values) /\ popped \in Seq(Values) /\ pushed \in Seq(Values)
        /\ Len(got) \in Nat /\ Len(popped) \in Nat /\ Len(pushed) \in Nat /\ Len(popped) <= Len(pushed)
    <3>1. /\ got \in Seq(Values) /\ popped \in Seq(Values) /\ pushed \in Seq(Values)
          /\ head \in 0 .. N - 1 /\ Front \in 0 .. N - 1 /\ Len(pushed) = Len(popped) + Count
      BY DEF QueueInv, IInv, TypeOK, Front, Data
    <3>2. Len(got) \in Nat /\ Len(popped) \in Nat /\ Len(pushed) \in Nat
      BY <3>1
    <3>3. Count \in Nat
      BY <3>1, NAssumption, RingFacts DEF Count
    <3> QED BY <3>1, <3>2, <3>3
  <2>1. WholeRecords
    <3>1. PICK n : n = Len(got)
      OBVIOUS
    <3> SUFFICES ASSUME cpc = "idle", cop \in {"pop_n", "pop_n_noblk"}, n > 0,
                        \A batch \in Batches : Len(batch) = n, Len(popped) % n = 0
                 PROVE  got \in Batches
      BY <3>1 DEF WholeRecords
    <3>2. /\ n \in Nat \ {0} /\ n <= Len(popped)
          /\ \A i \in 1 .. n : got[i] = popped[(Len(popped) - n) + i]
      BY <2>t, <3>1 DEF QueueInv, GotInv
    <3>3. PICK x : x = Len(popped) - n
      OBVIOUS
    <3>4. x \in 0 .. Len(pushed) /\ x + n <= Len(pushed) /\ \A i \in 1 .. n : x + i \in 1 .. Len(popped)
      BY <2>t, <3>2, <3>3
    <3>5. Multiple(x, n)
      BY <2>t, <3>2, <3>3, MultipleFacts
    <3>6. Slice(pushed, x, n) \in Batches
      BY <3>2, <3>4, <3>5 DEF QueueInv, RecInv, Whole
    <3>7. \A i \in 1 .. n : got[i] = pushed[x + i]
      BY <3>2, <3>3, <3>4 DEF QueueInv, IInv, Data
    <3>8. got = [i \in 1 .. n |-> got[i]]
      BY <2>t, <3>1
    <3>9. got = Slice(pushed, x, n)
      BY <3>7, <3>8 DEF Slice
    <3> QED BY <3>6, <3>9
  <2>2. PeekIsNextElements
    BY DEF QueueInv, GotInv, PeekIsNextElements
  <2>3. PeekSizeAssertHolds
    BY DEF QueueInv, IInv, NoBadFault, PeekSizeAssertHolds
  <2> QED BY <2>1, <2>2, <2>3 DEF ResultsExact
<1>2. QED BY <1>1, QueueInvHolds, PTL

-----------------------------------------------------------------------------
(* Implementation of the abstract queue.                                   *)

\* What the abstract queue holds, in terms of the count.
LEMMA AbstractContents ==
  ASSUME IInv
  PROVE  /\ Len(F!Contents) = Count
         /\ Count > 0 => Head(F!Contents) = pushed[Len(popped) + 1] /\ F!Contents # <<>>
<1>1. /\ pushed \in Seq(Values) /\ popped \in Seq(Values)
      /\ Len(pushed) = Len(popped) + Count /\ Count \in 0 .. N - 1
  <2>1. /\ pushed \in Seq(Values) /\ popped \in Seq(Values) /\ Len(pushed) = Len(popped) + Count
        /\ head \in 0 .. N - 1 /\ Front \in 0 .. N - 1
    BY DEF IInv, TypeOK, Data, Front
  <2> QED BY <2>1, RingFacts DEF Count
<1> DEFINE c == SubSeq(pushed, Len(popped) + 1, Len(pushed))
<1>2. Len(c) = Count
  BY <1>1, NAssumption, SMT
<1>3. Count > 0 => c[1] = pushed[Len(popped) + 1]
  BY <1>1, NAssumption, SMT
<1>4. c \in Seq(Values)
  BY <1>1, NAssumption, SMT
<1>5. Count > 0 => Head(c) = c[1] /\ c # <<>>
  <2> HIDE DEF c
  <2>1. Len(c) \in Nat /\ (Count > 0 => Len(c) # 0)
    BY <1>1, <1>2, NAssumption, SMT
  <2>2. c = <<>> => Len(c) = 0
    BY SMT
  <2>3. c # <<>> => Head(c) = c[1]
    BY <1>4, SMT
  <2>4. QED BY <2>1, <2>2, <2>3
<1>6. QED BY <1>2, <1>3, <1>5 DEF F!Contents

\* Every step of the queue is an atomic insertion, an atomic removal or
\* invisible to the abstract queue.
THEOREM LockFreeQueueImplementsFifo ==
  ASSUME PeeksMasked PROVE Spec => ImplementsFifo
<1>1. Init => IInv
  BY InitIInv
<1>2. IInv /\ [Next]_vars => IInv'
  BY NextIInv
<1>3. Init => F!Init
  BY DEF Init, F!Init
<1>4. ASSUME IInv, [Next]_vars
      PROVE  [F!Next]_<<pushed, popped>>
  <2>1. CASE PushPublish
    <3>1. parg \in Seq(Values) /\ parg # <<>> /\ Count < N - 1
      BY <1>4, <2>1 DEF IInv, ProducerInv, TypeOK, PushPublish, Rest
    <3>2. Head(parg) \in Values
      BY <3>1
    <3>3. Len(F!Contents) < N - 1
      BY <1>4, <3>1, AbstractContents
    <3>4. pushed' = Append(pushed, Head(parg)) /\ popped' = popped
      BY <2>1 DEF PushPublish, Rest
    <3>5. QED BY <3>2, <3>3, <3>4 DEF F!Next, F!Insert
  <2>2. CASE Advance /\ cop # "peek_n"
    <3>0. /\ ctail = tail /\ tail # head /\ cval = buf[tail]
          /\ popped' = Append(popped, cval) /\ pushed' = pushed /\ Front = tail
      BY <1>4, <2>2 DEF IInv, ConsumerInv, Advance, Front, Peeking
    <3>2. tail \in 0 .. N - 1 /\ head \in 0 .. N - 1 /\ popped \in Seq(Values)
      BY <1>4 DEF IInv, TypeOK
    <3>3. Count \in 0 .. N - 1 /\ Count # 0
      BY <3>0, <3>2, RingFacts DEF Count
    <3>1. /\ ctail = tail /\ Count > 0 /\ cval = buf[tail]
          /\ popped' = Append(popped, cval) /\ pushed' = pushed /\ Front = tail
      BY <3>0, <3>3, NAssumption
    <3>4. cval = pushed[Len(popped) + 1]
      <4>1. Wrap(tail + 0) = tail /\ 0 \in 0 .. Count - 1
        BY <3>1, <3>2, <3>3, NAssumption, SMT DEF Wrap
      <4>2. buf[Wrap(tail + 0)] = pushed[Len(popped) + 1 + 0]
        BY <1>4, <3>1, <4>1 DEF IInv, Data
      <4>3. QED BY <4>1, <4>2, <3>1, <3>2, SMT
    <3>5. QED BY <1>4, <3>1, <3>4, AbstractContents DEF F!Next, F!Remove
  <2>3. CASE PushCheck \/ PushWrite \/ Push \/ Pop \/ CheckNElem \/ CheckEmpty
             \/ Read \/ PeekRestore \/ PeekAssert \/ MaskInt \/ UNCHANGED vars
             \/ (Advance /\ cop = "peek_n")
    BY <2>3 DEF MaskInt, Push, Pop, PushCall, PopCall, PushCheck, PushWrite, CheckNElem,
                CheckEmpty, Read, Advance, PeekRestore, PeekAssert, vars
  <2>4. QED BY <1>4, <2>1, <2>2, <2>3 DEF Next, ProducerStep, ConsumerStep
<1>5. QED BY <1>1, <1>2, <1>3, <1>4, PTL DEF Spec, ImplementsFifo, F!Spec
=============================================================================
