------------------------------ MODULE Kmalloc ------------------------------
(***************************************************************************)
(* The kernel heap of libpi/src/kmalloc.c: a pointer that is bumped, and   *)
(* put back to the start of the heap by kfree_all.  Addresses are numbers; *)
(* an assertion or demand that fails stops the program, so it is a guard.  *)
(* Definitions named Bug... are mutated forms of the one they precede.     *)
(***************************************************************************)
EXTENDS Integers, FiniteSets

CONSTANTS
  HeapStart, HeapMax,   \* __heap_start__, and kmalloc_init's 4 * 1024 * 1024
  Starts, Maxima,       \* arguments of kmalloc_init_set_start
  Sizes, Alignments,    \* arguments of kmalloc and kmalloc_aligned
  MemEnd                \* bound: the end of memory, which no client goes past

IsPow2(n) ==
  n \in {1, 2, 4} \/ \E m \in 1 .. n : n = 8 * m /\ \E k \in 0 .. 28 : m = 2 ^ k

ASSUME KmallocAssumption ==
  /\ HeapStart \in Nat /\ HeapMax \in Nat /\ HeapStart % 8 = 0
  /\ Starts \subseteq Nat /\ Maxima \subseteq Nat
  /\ Sizes \subseteq Nat \ {0}
  /\ Alignments \subseteq Nat \ {0} /\ \A n \in Alignments : IsPow2(n)
  /\ MemEnd \in Nat

VARIABLES
  init_p, alloc_start, alloc_top, max_bytes,
  blocks                \* history: what was handed out since the last kfree_all

heapVars == <<init_p, alloc_start, alloc_top, max_bytes, blocks>>

-----------------------------------------------------------------------------
BugRoundup(x, n) == x - (x % n)
\* roundup(x, n): (x + (n-1)) & ~(n-1), where n is a power of two
Roundup(x, n) == (x + (n - 1)) - ((x + (n - 1)) % n)

BugTaken(nbytes) == nbytes
\* what a block of nbytes takes from the heap
Taken(nbytes) == Roundup(nbytes, 4)

\* where kmalloc_aligned puts a block; alignments up to 4 are kmalloc's own
Aligned(a) == IF a <= 4 THEN alloc_top ELSE Roundup(alloc_top, a)

HeapInit ==
  /\ init_p = FALSE /\ alloc_start = 0 /\ alloc_top = 0 /\ max_bytes = 0
  /\ blocks = {}

\* kmalloc_init_set_start(addr, max_nbytes), once
InitSetStart(addr, max_nbytes) ==
  /\ ~init_p /\ addr % 8 = 0
  /\ init_p' = TRUE /\ alloc_start' = addr /\ alloc_top' = addr
  /\ max_bytes' = max_nbytes
  /\ UNCHANGED blocks

\* kmalloc_init; a later call does nothing
KmallocInit == InitSetStart(HeapStart, HeapMax)

\* the rest of kmalloc, once the block's address is known
Bump(addr, nbytes, a) ==
  /\ init_p /\ nbytes <= max_bytes
  /\ addr + Taken(nbytes) <= MemEnd
  /\ alloc_top' = addr + Taken(nbytes)
  /\ blocks' = blocks \cup {[addr |-> addr, size |-> nbytes, align |-> a]}
HandOut(addr, nbytes, a) ==
  Bump(addr, nbytes, a) /\ UNCHANGED <<init_p, alloc_start, max_bytes>>

\* kmalloc(nbytes), whose blocks are 4-byte aligned
Kmalloc(nbytes) == HandOut(alloc_top, nbytes, 4)

\* kmalloc_aligned(nbytes, alignment)
KmallocAligned(nbytes, a) == HandOut(Aligned(a), nbytes, a)

\* where the heap starts again after kfree_all
TopAfterFree == alloc_start

KfreeAll ==
  /\ alloc_top' = TopAfterFree
  /\ blocks' = {}
  /\ UNCHANGED <<init_p, alloc_start, max_bytes>>

HeapNext ==
  \/ KmallocInit \/ \E s \in Starts, m \in Maxima : InitSetStart(s, m)
  \/ \E n \in Sizes : Kmalloc(n)
  \/ \E n \in Sizes, a \in Alignments : KmallocAligned(n, a)
  \/ KfreeAll

HeapSpec == HeapInit /\ [][HeapNext]_heapVars

-----------------------------------------------------------------------------
A == INSTANCE Allocator

HeapOK ==
  /\ init_p \in BOOLEAN
  /\ alloc_start \in Nat /\ alloc_top \in Nat /\ max_bytes \in Nat
  /\ blocks \subseteq A!Block

\* No two blocks in use share a byte, whatever sizes and alignments were asked
\* for and however often the heap was reset.
Disjoint == \A b, c \in blocks : b # c => ~A!Overlap(b, c)

\* The heap the client hears of by kmalloc_init_set_start starts again where
\* it started: the first block after kfree_all has the address of the first.
StartsAgain == init_p /\ blocks = {} => alloc_top = alloc_start

\* Each block is aligned as asked and clear of the others: the bump pointer
\* implements the allocator its clients assume.
ImplementsAllocator == A!Spec
=============================================================================
