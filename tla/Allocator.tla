----------------------------- MODULE Allocator -----------------------------
(***************************************************************************)
(* What a heap that is only ever freed as a whole promises its clients:    *)
(* every block it hands out is aligned and as large as asked for, and      *)
(* shares no byte with a block in use.                                     *)
(***************************************************************************)
EXTENDS Naturals

VARIABLE blocks        \* the blocks in use, [addr, size, align]

Block == [addr : Nat, size : Nat \ {0}, align : Nat \ {0}]

Overlap(b, c) == b.addr < c.addr + c.size /\ c.addr < b.addr + b.size

Init == blocks = {}

Alloc ==
  \E b \in blocks' :
    /\ b \in Block /\ b.addr % b.align = 0
    /\ \A c \in blocks : ~Overlap(b, c)
    /\ blocks' = blocks \cup {b}

FreeAll == blocks' = {}

Next == Alloc \/ FreeAll

Spec == Init /\ [][Next]_blocks
=============================================================================
