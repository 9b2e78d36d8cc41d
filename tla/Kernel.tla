------------------------------- MODULE Kernel -------------------------------
(***************************************************************************)
(* A program that uses threads (RpiThread) and the kernel heap (Kmalloc):  *)
(* th_alloc takes the blocks of threads from the heap, which others use as *)
(* well, before the first thread, and in threads or between them.          *)
(***************************************************************************)
EXTENDS RpiThread, Kmalloc

CONSTANTS
  ThreadBytes,           \* sizeof(rpi_thread_t)
  ClientEnd, MaxOthers   \* bounds: how far others fill the heap before the first
                         \* thread, and how many blocks they have after it

ASSUME KernelAssumption ==
  /\ ThreadBytes \in Sizes /\ 8 \in Alignments /\ ClientEnd \in Nat /\ MaxOthers \in Nat

kvars == <<vars, heapVars>>

KernelInit == Init /\ HeapInit

\* what th_alloc asks kmalloc_aligned for
StackAlignment == 8
\* th_alloc's part in the heap: nothing if the block comes from the free queue
ThreadBlock ==
  IF nalloced' = nalloced THEN UNCHANGED heapVars ELSE KmallocAligned(ThreadBytes, StackAlignment)

\* No program puts the heap back to its start under its threads.
HeapCall == HeapNext /\ (nalloced # 0 => blocks \subseteq blocks') /\ UNCHANGED vars

Bounded == IF nalloced' = 0 THEN alloc_top' <= ClientEnd
                            ELSE Cardinality(blocks') <= nalloced' + MaxOthers

ThreadCall == (Fork \/ Start) /\ ThreadBlock
Switch == (Yield \/ Exit) /\ UNCHANGED heapVars
KernelNext == Switch \/ ((ThreadCall \/ HeapCall) /\ Bounded)

\* Cooperation, as for the threads alone.
KernelSpec == KernelInit /\ [][KernelNext]_kvars /\ WF_vars(Yield \/ Exit)
=============================================================================
