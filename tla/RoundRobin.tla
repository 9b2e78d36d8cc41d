----------------------------- MODULE RoundRobin -----------------------------
(***************************************************************************)
(* What the cooperative thread package promises: the runnable threads wait *)
(* in first-in first-out order, one runs, and the call that started them   *)
(* returns once every one of them has exited.                              *)
(***************************************************************************)
EXTENDS Naturals, Sequences

CONSTANT Threads           \* thread ids
NoThread == 0

VARIABLES ready, running   \* thread ids waiting, and the one that runs

Init == ready = <<>> /\ running = NoThread

Fork == /\ \E t \in Threads :
             /\ t # running /\ \A i \in 1 .. Len(ready) : ready[i] # t
             /\ ready' = Append(ready, t)
        /\ running' = running

\* Hand the processor to the thread that has waited longest.
Dispatch(waiting) ==
  IF waiting = <<>>
    THEN running' = NoThread /\ ready' = <<>>
    ELSE running' = Head(waiting) /\ ready' = Tail(waiting)

Start == running = NoThread /\ Dispatch(ready)
Yield == running # NoThread /\ Dispatch(Append(ready, running))
Exit  == running # NoThread /\ Dispatch(ready)

Next == Fork \/ Start \/ Yield \/ Exit

Spec == Init /\ [][Next]_<<ready, running>>
=============================================================================
