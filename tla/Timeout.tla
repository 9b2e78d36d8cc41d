------------------------------ MODULE Timeout ------------------------------
(***************************************************************************)
(* timeout_t of libpi/include/timeout.h: elapsed time summed in 64 bits    *)
(* from readings of the 32-bit microsecond counter.  `elapsed` is history: *)
(* the time that has really passed.                                        *)
(***************************************************************************)
EXTENDS Naturals

CONSTANTS
  Tick,  \* 2^32, where the counter wraps
  Gaps   \* the times that can pass between two readings

ASSUME TimeoutAssumption == Tick \in Nat \ {0} /\ Gaps \subseteq 0 .. Tick - 1

VARIABLES counter, time_last, time_usecs, elapsed

clock == <<counter, time_last, time_usecs, elapsed>>

ClockTypeOK ==
  /\ counter \in 0 .. Tick - 1 /\ time_last \in 0 .. Tick - 1
  /\ time_usecs \in Nat /\ elapsed \in Nat

ClockInit == counter = 0 /\ time_last = 0 /\ time_usecs = 0 /\ elapsed = 0

\* timeout_start, at any reading of the counter
TimeoutStart ==
  /\ counter' \in 0 .. Tick - 1
  /\ time_last' = counter' /\ time_usecs' = 0 /\ elapsed' = 0

BugPassed(now) == IF now >= time_last THEN now - time_last ELSE 0
\* now - t->time_last, in 32 bits
Passed(now) == ((now + Tick) - time_last) % Tick

\* timeout_get_usec, `gap` after the last reading
TimeoutUpdate(gap) ==
  /\ counter' = (counter + gap) % Tick
  /\ time_usecs' = time_usecs + Passed(counter')
  /\ time_last' = counter' /\ elapsed' = elapsed + gap
=============================================================================
