-------------------------------- MODULE Debug --------------------------------
(***************************************************************************)
(* The debug hardware with the handlers of lab 9 (debug-fault.c), and the  *)
(* user processes of lab 11, which it single-steps.                        *)
(*                                                                         *)
(* `path` is what the processor has yet to execute: the addresses of the   *)
(* instructions of a user program, or the one instruction that a client of *)
(* debug-fault.c has called (foo, or the load or store of GET or PUT).  An *)
(* instruction that faults is executed again after its handler.            *)
(***************************************************************************)
EXTENDS Integers, Sequences, SequencesExt

CONSTANTS
  Parts,     \* those of {"debug", "raw", "user", "single", "pc"} that are run
  Runs,      \* user programs: the addresses they execute, sys_exit's swi at the end
  HeapStart, \* __heap_start__: a program's addresses lie above it, the kernel's below
  Switch,    \* the kernel's instructions behind cps in user_mode_run_fn
  Addrs,     \* what a client watches, loads and stores
  MaxOps, MaxFault \* bounds on the client's calls and on faults

VARIABLES
  part, at,       \* what runs, and how far: "start", "client" or "run", "exit" or "panic"
  path, access,   \* see above; the bytes GET or PUT is called for
  mode,           \* "super" or "user"
  monitor, bp, wp, \* DSCR[15:14]; BVR0 and BCR0; WVR0 and WCR0
  dscr, ifsr, dfsr, \* DSCR[5:2], IFSR, DFSR with FAR: what the last faults left there
  handlers,       \* brkpt_handler and watchpt_handler: those that are set
  n_faults,       \* the handlers' counts, or single_step_faults
  pc_hash,        \* the pcs hashed, for their hash and their number n_inst
  run, armed, due, \* history: the user program; what the client armed; the faults it is to see
  stray, ops, faults \* history: an abort that is no debug fault; bounds

regs == <<monitor, bp, wp, dscr, ifsr, dfsr>>
client == <<handlers, access, armed, due, ops>>
dvars == <<part, at, path, run, mode, regs, client, n_faults, pc_hash, stray, faults>>

foo == 1
GET == 2
PUT == 3
NoAccess == [addr |-> 0, n |-> 0]

\* the processor at reset, and `p` its program
Reset(p, a) ==
  /\ part = p /\ at = a /\ path = <<>> /\ access = NoAccess /\ mode = "super" /\ monitor = FALSE
  /\ bp = [on |-> FALSE, mis |-> FALSE, addr |-> 0] /\ wp = [on |-> FALSE, addr |-> 0, bas |-> {}]
  /\ dscr = "none" /\ ifsr = "none" /\ dfsr = [status |-> "none", st |-> FALSE, far |-> 0]
  /\ handlers = {} /\ n_faults = 0 /\ pc_hash = <<>>
  /\ armed = [brk |-> FALSE, watch |-> FALSE, byte |-> 0] /\ due = 0 /\ stray = FALSE /\ ops = 0
Off == Reset("off", "off") /\ run = <<>>

Init == /\ \E p \in Parts : Reset(p, "start") /\ run \in IF p = "debug" THEN {<<>>} ELSE Runs
        /\ faults = 0

pc == Head(path)
Running == at = "run" /\ path # <<>>
Bytes(acc) == acc.addr .. acc.addr + acc.n - 1

-----------------------------------------------------------------------------
(* The hardware: what faults at the next instruction.                      *)

BrkptFires ==
  monitor /\ bp.on /\ IF bp.mis THEN mode = "user" /\ pc # bp.addr ELSE pc = bp.addr
WatchptFires ==
  /\ monitor /\ wp.on /\ part = "debug" /\ pc \in {GET, PUT}
  /\ \E b \in Bytes(access) : b \div 4 = wp.addr \div 4 /\ b % 4 \in wp.bas

\* was_brkpt_fault and was_watchpt_fault, of what the registers hold
was_brkpt_fault(i, d) == i = "debug" /\ d = "brkpt"
BugWasWatchptFault(f, d) == d = "watch"
was_watchpt_fault(f, d) == f.status = "debug" /\ d = "watch"

-----------------------------------------------------------------------------
(* Lab 9: a client of debug-fault.c that sets, enables, calls and accesses *)
(* in any order, with the handlers of the tests.                           *)

\* debug_fault_init
DebugFaultInit ==
  /\ part = "debug" /\ at = "start" /\ ~monitor /\ ~bp.on /\ monitor' = TRUE /\ at' = "client"
  /\ UNCHANGED <<part, path, run, mode, bp, wp, dscr, ifsr, dfsr, client, n_faults, pc_hash, stray,
                 faults>>

bcr0_enable(b) == [b EXCEPT !.on = TRUE, !.mis = FALSE]
wcr0_enable(w) == [w EXCEPT !.on = TRUE]
\* brkpt_set0(foo, h) and brkpt_enable0
ArmBrkpt ==
  /\ \/ bp' = bcr0_enable([bp EXCEPT !.on = FALSE, !.addr = foo]) /\ handlers' = handlers \union {"brkpt"}
     \/ "brkpt" \in handlers /\ bp' = bcr0_enable(bp) /\ UNCHANGED handlers
  /\ armed' = [armed EXCEPT !.brk = TRUE] /\ UNCHANGED <<wp, path, access, due, at>>
\* watchpt_set0: the byte replaces the one selected before
Watch(w, a) == [wcr0_enable([w EXCEPT !.addr = a]) EXCEPT !.bas = {a % 4}]
\* watchpt_set0(a, h) and watchpt_enable0
ArmWatchpt ==
  /\ \/ \E a \in Addrs : /\ wp' = Watch(wp, a) /\ handlers' = handlers \union {"watchpt"}
                         /\ armed' = [armed EXCEPT !.watch = TRUE, !.byte = a]
     \/ /\ "watchpt" \in handlers /\ wp' = wcr0_enable(wp) /\ UNCHANGED handlers
        /\ armed' = [armed EXCEPT !.watch = TRUE]
  /\ UNCHANGED <<bp, path, access, due, at>>
\* foo(); GET8, PUT8, GET32 and PUT32: what is armed for it is due
Call ==
  /\ \/ /\ path' = <<foo>> /\ UNCHANGED access
        /\ due' = due + (IF armed.brk THEN 1 ELSE 0)
     \/ \E f \in {GET, PUT}, a \in Addrs, n \in {1, 4} :
          /\ n = 4 => a % 4 = 0
          /\ path' = <<f>> /\ access' = [addr |-> a, n |-> n]
          /\ due' = due + (IF armed.watch /\ armed.byte \in Bytes(access') THEN 1 ELSE 0)
  /\ at' = "run" /\ UNCHANGED <<bp, wp, handlers, armed>>
Client ==
  /\ part = "debug" /\ at = "client" /\ ops < MaxOps /\ ops' = ops + 1
  /\ ArmBrkpt \/ ArmWatchpt \/ Call
  /\ UNCHANGED <<part, run, mode, monitor, dscr, ifsr, dfsr, n_faults, pc_hash, stray, faults>>

Panics == at' = "panic" /\ UNCHANGED <<bp, wp, n_faults, armed>>
\* prefetch_abort_vector, and the tests' brkpt_handler: it disables, so that the
\* instruction can be executed
PrefetchAbortVector ==
  IF was_brkpt_fault(ifsr', dscr') /\ pc = foo
  THEN /\ bp' = [bp EXCEPT !.on = FALSE] /\ armed' = [armed EXCEPT !.brk = FALSE]
       /\ n_faults' = n_faults + 1 /\ UNCHANGED <<at, wp>>
  ELSE Panics
\* fault_is_ld
fault_is_ld(f) == ~f.st
\* data_abort_vector, and the tests' watchpt_handler
DataAbortVector ==
  IF /\ ~was_brkpt_fault(ifsr, dscr') /\ was_watchpt_fault(dfsr', dscr') /\ "watchpt" \in handlers
     /\ fault_is_ld(dfsr') <=> pc = GET
     /\ access.n = 1 => dfsr'.far = armed.byte
  THEN /\ wp' = [wp EXCEPT !.on = FALSE] /\ armed' = [armed EXCEPT !.watch = FALSE]
       /\ n_faults' = n_faults + 1 /\ UNCHANGED <<at, bp>>
  ELSE Panics

DebugFault ==
  /\ Running /\ part = "debug"
  /\ \/ BrkptFires /\ dscr' = "brkpt" /\ ifsr' = "debug" /\ UNCHANGED dfsr /\ PrefetchAbortVector
     \/ /\ ~BrkptFires /\ WatchptFires /\ dscr' = "watch" /\ UNCHANGED ifsr
        /\ dfsr' = [status |-> "debug", st |-> pc = PUT, far |-> access.addr]
        /\ DataAbortVector
  /\ UNCHANGED <<part, path, run, mode, monitor, handlers, access, due, ops, pc_hash, stray, faults>>

\* an abort that is no debug fault: the status says so, DSCR keeps the last debug fault
StrayAbort ==
  /\ Running /\ part = "debug" /\ faults < MaxFault /\ faults' = faults + 1 /\ stray' = TRUE
  /\ \/ ifsr' = "other" /\ UNCHANGED <<dscr, dfsr>> /\ PrefetchAbortVector
     \/ /\ pc \in {GET, PUT} /\ UNCHANGED <<dscr, ifsr>>
        /\ dfsr' = [status |-> "other", st |-> pc = PUT, far |-> access.addr]
        /\ DataAbortVector
  /\ UNCHANGED <<part, path, run, mode, monitor, handlers, access, due, ops, pc_hash>>

\* foo or the access returns; or notmain does
Return ==
  /\ part = "debug"
  /\ \/ Running /\ ~BrkptFires /\ ~WatchptFires /\ at' = "client" /\ path' = <<>>
     \/ at = "client" /\ at' = "exit" /\ UNCHANGED path
  /\ UNCHANGED <<part, run, mode, regs, client, n_faults, pc_hash, stray, faults>>

-----------------------------------------------------------------------------
(* Lab 11: a user program, run in the kernel's mode, in user mode, or      *)
(* stepped with mismatch breakpoints, which are ignored in other modes.    *)

\* brkpt_mismatch_set and brkpt_mismatch_start
mismatch(addr) == [on |-> TRUE, mis |-> TRUE, addr |-> addr]

single_step_run_fn == bp' = mismatch(0) /\ monitor' = TRUE /\ UNCHANGED pc_hash
equiv_run_fn == bp' = mismatch(0) /\ monitor' = TRUE /\ pc_hash' = <<>>
\* notmain: the program is called, or entered in user mode by way of user_mode_run_fn
RunUser ==
  /\ part # "debug" /\ at = "start" /\ at' = "run"
  /\ IF part = "raw" THEN path' = run /\ UNCHANGED mode ELSE path' = Switch \o run /\ mode' = "user"
  /\ CASE part = "single" -> single_step_run_fn
       [] part = "pc" -> equiv_run_fn
       [] OTHER -> UNCHANGED <<bp, monitor, pc_hash>>
  /\ UNCHANGED <<part, run, wp, dscr, ifsr, dfsr, client, n_faults, stray, faults>>

BugUserPc(addr) == addr >= 1
user_pc(addr) == addr >= HeapStart
prefetch_abort_single_step == bp' = mismatch(pc) /\ n_faults' = n_faults + 1 /\ UNCHANGED pc_hash
prefetch_abort_equiv_pc ==
  /\ bp' = mismatch(pc) /\ UNCHANGED n_faults
  /\ pc_hash' = IF user_pc(pc) THEN Append(pc_hash, pc) ELSE pc_hash
\* the abort's handler, which returns to the same instruction
Step ==
  /\ Running /\ part \in {"single", "pc"} /\ BrkptFires /\ dscr' = "brkpt" /\ ifsr' = "debug"
  /\ IF part = "single" THEN prefetch_abort_single_step ELSE prefetch_abort_equiv_pc
  /\ UNCHANGED <<part, at, path, run, mode, monitor, wp, dfsr, client, stray, faults>>

\* an instruction; swi's handler runs in the kernel's mode, and comes back from
\* every do_syscall but the last, SYS_EXIT
Execute ==
  /\ Running /\ part # "debug" /\ ~BrkptFires
  /\ path' = Tail(path) /\ at' = IF path' = <<>> THEN "exit" ELSE at
  /\ UNCHANGED <<part, run, mode, regs, client, n_faults, pc_hash, stray, faults>>

\* clean_reboot, from cstart, sys_exit or a panic
Reboot ==
  /\ at \in {"exit", "panic"} /\ run' = <<>>
  /\ part' = "off" /\ at' = "off" /\ path' = <<>> /\ access' = NoAccess /\ mode' = "super" /\ monitor' = FALSE
  /\ bp' = [on |-> FALSE, mis |-> FALSE, addr |-> 0] /\ wp' = [on |-> FALSE, addr |-> 0, bas |-> {}]
  /\ dscr' = "none" /\ ifsr' = "none" /\ dfsr' = [status |-> "none", st |-> FALSE, far |-> 0]
  /\ handlers' = {} /\ n_faults' = 0 /\ pc_hash' = <<>>
  /\ armed' = [brk |-> FALSE, watch |-> FALSE, byte |-> 0] /\ due' = 0 /\ stray' = FALSE /\ ops' = 0
  /\ UNCHANGED faults

Processor == DebugFaultInit \/ Client \/ DebugFault \/ Return \/ RunUser \/ Step \/ Execute
Next == Processor \/ StrayAbort \/ Reboot

Spec == Init /\ [][Next]_dvars /\ WF_dvars(Processor \/ Reboot)

-----------------------------------------------------------------------------

\* One value of every variable's type.
TypeOK ==
  /\ part \in Parts \union {"off"} /\ mode \in {"super", "user"} /\ ops \in 0 .. MaxOps
  /\ at \in {"off", "start", "client", "run", "exit", "panic"} /\ handlers \subseteq {"brkpt", "watchpt"}
  /\ dscr \in {"none", "brkpt", "watch"} /\ wp.bas \subseteq 0 .. 3 /\ faults \in 0 .. MaxFault

\* A client sees each fault it armed for and no other: after any sequence of
\* settings, enablings, calls and accesses, the handlers' counts are what was
\* armed for the bytes that were touched (watchpt_set0, the handlers' disabling).
FaultsExact == at = "client" => n_faults = due

\* An abort that is no debug fault stops the program, whatever the last debug
\* fault left in IFSR, DFSR and DSCR; and nothing else does: the vectors and the
\* handlers, with their assertions, never take one fault for another.
PanicsIffStray == at = "panic" <=> stray

\* Each fault is what it is taken for, in a client that goes on as in one that stops.
FaultsSorted == TypeOK /\ FaultsExact /\ PanicsIffStray

\* s without repetitions of what stands next to itself
Collapse(s) == FoldLeft(LAMBDA r, x : IF r # <<>> /\ Last(r) = x THEN r ELSE Append(r, x), <<>>, s)
\* what the user program has executed
Executed == SubSeq(run, 1, Len(run) - Len(path))
\* Every instruction of a stepped program is counted when it is reached, in order
\* and once, through system calls and loops, and none of the kernel's is hashed: at
\* the end the hash is one of the program alone.  An instruction that jumps to
\* itself is counted once however often it is executed.
EachStepOnce ==
  /\ part = "pc" /\ at \in {"run", "exit"} =>
       pc_hash \in {Collapse(Executed)}
                   \union IF path = <<>> \/ Len(path) > Len(run) THEN {}
                          ELSE {Collapse(Append(Executed, pc))}
  /\ part = "single" /\ at = "exit" => n_faults = Len(Collapse(Switch \o run))
=============================================================================
