------------------------------ MODULE RpiThread ------------------------------
(***************************************************************************)
(* The cooperative threads package of labs/8-threads/code/rpi-thread.c and *)
(* thread-asm.S.  One processor and no preemption, so each call runs to    *)
(* its context switch in one step; what a switch resumes is decided by the *)
(* context saved on the stack of the block it switches to.                 *)
(*                                                                         *)
(* A thread block is the number of its allocation; 0 is NULL.  `on` is the *)
(* block whose stack the processor is on, NULL being the stack of the code *)
(* that calls rpi_thread_start.                                            *)
(***************************************************************************)
EXTENDS LinkedQueue, FiniteSets

CONSTANT MaxTid        \* bound on the thread ids handed out

ASSUME MaxTidAssumption == MaxTid \in Nat \ {0}

VARIABLES
  runq, freeq,         \* Q_t
  next, tidOf, ctx,    \* per block: next field, tid, what its saved_sp resumes
  nalloced, tid,       \* blocks obtained from kmalloc, next thread id
  cur_thread, scheduler_thread,
  on,                  \* whose stack the processor is on
  live, peak, nstarts  \* history: tids forked and not exited, the most of
                       \* them at once, calls of rpi_thread_start

vars == <<runq, freeq, next, tidOf, ctx, nalloced, tid, cur_thread,
          scheduler_thread, on, live, peak, nstarts>>

Blocks == 1 .. MaxTid
\* garbage: nothing saved yet; running: resumed, nothing saved; trampoline: as
\* rpi_fork laid it out; yield, start, exit: inside the call of that name.
Contexts == {"garbage", "running", "trampoline", "yield", "start", "exit"}

Init ==
  /\ runq = QInit /\ freeq = QInit
  /\ next = [b \in Blocks |-> NULL] /\ tidOf = [b \in Blocks |-> 0]
  /\ ctx = [b \in Blocks |-> "garbage"]
  /\ nalloced = 0 /\ tid = 1
  /\ cur_thread = NULL /\ scheduler_thread = NULL /\ on = NULL
  /\ live = {} /\ peak = 0 /\ nstarts = 0

-----------------------------------------------------------------------------
Larger(a, b) == IF a < b THEN b ELSE a

\* th_alloc: a block from the free queue, or a new one when it is empty
Fresh == IF QEmpty(freeq) THEN nalloced + 1 ELSE freeq.head
\* ... and the rest of its effect
Alloc ==
  /\ freeq' = IF QEmpty(freeq) THEN freeq ELSE QPop(freeq, next)
  /\ nalloced' = IF QEmpty(freeq) THEN nalloced + 1 ELSE nalloced
  /\ tidOf' = [tidOf EXCEPT ![Fresh] = tid] /\ tid' = tid + 1

\* rpi_cswitch: save the caller in block `from`, resume what `to` saved; a
\* saved context is good for one resumption.
Cswitch(from, how, to) ==
  /\ on' = IF ctx[to] = "start" THEN NULL ELSE to
  /\ ctx' = [ctx EXCEPT ![from] = how, ![to] = "running"]

\* rpi_fork(code, arg), by a thread or by the code that will start them.
Fork ==
  /\ tid < MaxTid
  /\ Alloc
  /\ ctx' = [ctx EXCEPT ![Fresh] = "trampoline"]
  /\ LET r == QAppend(runq, next, Fresh) IN runq' = r.q /\ next' = r.nx
  /\ live' = live \cup {tid} /\ peak' = Larger(peak, Cardinality(live'))
  /\ UNCHANGED <<cur_thread, scheduler_thread, on, nstarts>>

\* rpi_thread_start: th_alloc a block to save the caller in, run the first
\* thread; with an empty run queue it returns at once.
Start ==
  /\ on = NULL /\ tid < MaxTid
  /\ Alloc
  /\ scheduler_thread' = Fresh /\ nstarts' = nstarts + 1
  /\ cur_thread' = runq.head
  /\ IF QEmpty(runq)
       THEN UNCHANGED <<runq, ctx, on>>
       ELSE runq' = QPop(runq, next) /\ Cswitch(Fresh, "start", runq.head)
  /\ UNCHANGED <<next, live, peak>>

BugYieldedSecond ==
  [q  |-> [runq EXCEPT !.tail = IF @ = runq.head THEN cur_thread ELSE @, !.cnt = @ + 1],
   nx |-> [next EXCEPT ![runq.head] = cur_thread, ![cur_thread] = next[runq.head]]]
\* the run queue once rpi_yield has put the caller on it
Yielded == QAppend(runq, next, cur_thread)
BugYieldSavesInNew == Yielded.q.head
\* the block whose saved_sp rpi_yield hands to rpi_cswitch
YieldSaves == cur_thread

\* rpi_yield, which returns at once (no step) when the run queue is empty.
Yield ==
  /\ on # NULL /\ ~QEmpty(runq)
  /\ runq' = QPop(Yielded.q, Yielded.nx) /\ next' = Yielded.nx
  /\ cur_thread' = Yielded.q.head
  /\ Cswitch(YieldSaves, "yield", Yielded.q.head)
  /\ UNCHANGED <<freeq, tidOf, nalloced, tid, scheduler_thread, live, peak, nstarts>>

BugRetiredToRunq  == LET r == QAppend(runq, next, cur_thread)
                     IN  [free |-> freeq, run |-> r.q, nx |-> r.nx]
\* the queues once rpi_exit has put the caller's block on the free queue
Retired == LET r == QAppend(freeq, next, cur_thread)
           IN  [free |-> r.q, run |-> runq, nx |-> r.nx]
NoneLeft == QEmpty(Retired.run)

\* rpi_exit, also reached from rpi_init_trampoline when the code returns: the
\* block goes to the free queue while the processor is still on its stack.
Exit ==
  /\ on # NULL
  /\ freeq' = Retired.free /\ next' = Retired.nx
  /\ live' = live \ {tidOf[cur_thread]}
  /\ IF NoneLeft
       THEN /\ cur_thread' = NULL /\ runq' = Retired.run
            /\ Cswitch(cur_thread, "exit", scheduler_thread)
       ELSE /\ cur_thread' = Retired.run.head /\ runq' = QPop(Retired.run, Retired.nx)
            /\ Cswitch(cur_thread, "exit", Retired.run.head)
  /\ UNCHANGED <<tidOf, nalloced, tid, scheduler_thread, peak, nstarts>>

Next == Fork \/ Start \/ Yield \/ Exit

Spec == Init /\ [][Next]_vars

\* Cooperation: the running thread sooner or later gives up the processor.
FairSpec == Spec /\ WF_vars(Yield \/ Exit)

-----------------------------------------------------------------------------
TypeOK ==
  /\ peak \in Nat /\ nstarts \in Nat
  /\ \A q \in {runq, freeq} : q.head \in 0 .. MaxTid /\ q.tail \in 0 .. MaxTid /\ q.cnt \in Nat
  /\ next \in [Blocks -> 0 .. MaxTid] /\ tidOf \in [Blocks -> Nat]
  /\ ctx \in [Blocks -> Contexts]
  /\ nalloced \in 0 .. MaxTid /\ tid \in 1 .. MaxTid
  /\ cur_thread \in 0 .. MaxTid /\ scheduler_thread \in 0 .. MaxTid /\ on \in 0 .. MaxTid
  /\ live \subseteq Nat

RunSeq  == QSeq(runq, next)
FreeSeq == QSeq(freeq, next)
OnQueue(q) == {QSeq(q, next)[i] : i \in 1 .. q.cnt}

\* The next fields, which both queues share, always form two proper lists:
\* moving a block from one queue to the other never leaves a stale link.
QueuesWellFormed == QWellFormed(runq, next) /\ QWellFormed(freeq, next)

\* A block is never in two places: on the run queue, on the free queue, the
\* current thread or the saved caller, so no stack is handed to a new thread
\* while another still needs it.
OneOwner ==
  /\ OnQueue(runq) \cap OnQueue(freeq) = {}
  /\ cur_thread \notin OnQueue(runq) \cup OnQueue(freeq)
  /\ on # NULL => /\ scheduler_thread \notin OnQueue(runq) \cup OnQueue(freeq)
                  /\ scheduler_thread # cur_thread

\* No thread is lost: the live threads are exactly those queued and the
\* current one, each on a block of its own.
NoThreadLost ==
  /\ live = {tidOf[b] : b \in (OnQueue(runq) \cup {cur_thread}) \ {NULL}}
  /\ Cardinality(live) = runq.cnt + (IF cur_thread = NULL THEN 0 ELSE 1)

\* Whatever a switch can resume is there to be resumed, once: queued threads
\* are fresh or inside rpi_yield, the caller of rpi_thread_start is inside
\* it, and the processor is on the stack of cur_thread.
ResumableContexts ==
  /\ \A b \in OnQueue(runq) : ctx[b] \in {"trampoline", "yield"}
  /\ on # NULL => ctx[scheduler_thread] = "start" /\ ctx[on] = "running"
  /\ on = cur_thread

\* Blocks are recycled: kmalloc, which cannot free, is asked for no more
\* blocks than threads were ever live at once, plus one for each call of
\* rpi_thread_start, whose scheduler block is never freed.
BlocksRecycled == nalloced <= peak + nstarts

\* Every block and every thread is where the next switch looks for it, and
\* nowhere else.
BlocksInPlace == /\ TypeOK /\ QueuesWellFormed /\ OneOwner /\ NoThreadLost
                 /\ ResumableContexts /\ BlocksRecycled

\* Once the threads are started no runnable one starves, as long as the
\* running ones yield or exit.
ReadyRuns ==
  \A t \in 1 .. MaxTid :
    on # NULL /\ (\E b \in OnQueue(runq) : tidOf[b] = t) ~> (on # NULL /\ tidOf[on] = t)

\* If the code of the threads returns, rpi_thread_start does.
CodeReturns  == WF_vars(Exit)
StartReturns == CodeReturns => (on # NULL ~> on = NULL)

\* The intrusive queues and the block recycling implement round robin.
R == INSTANCE RoundRobin WITH
       Threads <- 1 .. MaxTid,
       ready   <- [i \in 1 .. runq.cnt |-> tidOf[RunSeq[i]]],
       running <- IF cur_thread = NULL THEN 0 ELSE tidOf[cur_thread]
ImplementsRoundRobin == R!Spec
=============================================================================
