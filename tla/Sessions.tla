------------------------------ MODULE Sessions ------------------------------
(***************************************************************************)
(* A session is a lab's program (Labs), a client of the debug hardware or  *)
(* a user process (Debug).  The latter two end in clean_reboot as well,    *)
(* from cstart, sys_exit or a panic: their last words go the same way.     *)
(***************************************************************************)
EXTENDS Labs

CONSTANTS Parts, Runs, HeapStart, Switch, Addrs, MaxOps
ASSUME DebugAssumption ==
  /\ Parts \subseteq {"debug", "raw", "user", "single", "pc"} /\ Addrs \subseteq Nat /\ MaxOps \in Nat
  /\ HeapStart \in Nat \ {0} /\ Switch \in Seq(1 .. HeapStart - 1)
  /\ \A r \in Runs : r \in Seq(Nat) /\ r # <<>> /\ \A i \in DOMAIN r : r[i] >= HeapStart

VARIABLES part, at, path, access, mode, monitor, bp, wp, dscr, ifsr, dfsr, handlers, n_faults,
          pc_hash, run, armed, due, stray, ops

D == INSTANCE Debug
dvars == <<part, at, path, access, mode, monitor, bp, wp, dscr, ifsr, dfsr, handlers, n_faults,
           pc_hash, run, armed, due, stray, ops>>
\* what Labs and Debug do not share
lvars == <<todo, irqs, hpc, gpio, gprof, uart, laptop, printed>>
svars == <<vars, dvars>>

SessionInit == \/ Init /\ D!Off
               \/ todo = <<>> /\ Reset /\ D!Init

\* do_syscall(SYS_EXIT) and equiv_print
SysExit == printk \o printk
EquivPrint == printk \o printk

\* the program's last words; what the debug registers hold no longer matters
Finish ==
  /\ D!Reboot
  /\ todo' = (IF at = "panic" THEN puts(<<Panic>>)
              ELSE IF part = "debug" THEN printk
              ELSE IF part = "pc" THEN SysExit \o EquivPrint ELSE SysExit) \o CleanReboot
  /\ UNCHANGED <<irqs, hpc, gpio, gprof, uart, laptop, printed>>

DebugStep == D!Processor /\ UNCHANGED lvars
SessionNext == \/ Next /\ UNCHANGED dvars
               \/ DebugStep
               \/ D!StrayAbort /\ UNCHANGED lvars
               \/ Finish

\* As for Labs; and the processor runs these programs too.
SessionSpec ==
  /\ SessionInit /\ [][SessionNext]_svars
  /\ WF_vars(Program) /\ WF_vars(Handler) /\ WF_vars(Tick) /\ WF_vars(Transmit) /\ WF_vars(Echo)
  /\ WF_svars(DebugStep \/ Finish)

FaultsSorted == D!FaultsSorted
EachStepOnce == D!EachStepOnce
=============================================================================
