----------------------------- MODULE LabsProofs -----------------------------
(***************************************************************************)
(* For every program, interleaving, size of the uart's FIFO and number of  *)
(* faults: what a program prints reaches the laptop before it reboots,     *)
(* pi_echo ends well only when it has read the exit string, the gpio       *)
(* test's handler counts no edge twice and its assertions fail only after  *)
(* a fault, the profile holds every sample, the debug hardware's faults    *)
(* are sorted, and a stepped program's instructions are counted once.      *)
(***************************************************************************)
EXTENDS Sessions, FiniteSetTheorems, SequenceTheorems, TLAPS

DebugConstants ==
  /\ Parts \subseteq {"debug", "raw", "user", "single", "pc"}
  /\ Addrs \subseteq Nat /\ MaxOps \in Nat /\ MaxFault \in Nat

Armed == [brk : BOOLEAN, watch : BOOLEAN, byte : Nat]
Access == [addr : Nat, n : Nat]

\* The fault that the call under way has yet to see.
Pending ==
  IF at # "run" THEN 0
  ELSE IF path = <<D!foo>> THEN (IF armed.brk THEN 1 ELSE 0)
  ELSE (IF armed.watch /\ armed.byte \in D!Bytes(access) THEN 1 ELSE 0)

\* The registers hold what the client armed.
RegsInv ==
  /\ bp \in [on : BOOLEAN, mis : {FALSE}, addr : Nat]
  /\ bp.on = armed.brk /\ (bp.on => bp.addr = D!foo)
  /\ "brkpt" \in handlers => bp.addr = D!foo
  /\ wp \in [on : BOOLEAN, addr : Nat, bas : SUBSET (0 .. 3)]
  /\ wp.on = armed.watch
  /\ wp.on => "watchpt" \in handlers
  /\ "watchpt" \in handlers => wp.addr = armed.byte /\ wp.bas = {armed.byte % 4}

ClientInv ==
  /\ armed \in Armed /\ access \in Access /\ n_faults \in Nat /\ due \in Nat
  /\ at \in {"start", "client", "run", "exit", "panic"}
  /\ at = "run" => path \in {<<D!foo>>, <<D!GET>>, <<D!PUT>>}
  /\ monitor <=> at # "start"
  /\ ifsr = "other" => at = "panic"
  /\ at # "panic" => due = n_faults + Pending
  /\ RegsInv

DebugInv ==
  /\ D!TypeOK /\ D!PanicsIffStray
  /\ part = "debug" => ClientInv
  /\ part # "debug" => at \in {"off", "start", "run", "exit"}

LEMMA DebugInit == DebugConstants /\ D!Init => DebugInv
  BY DEF DebugConstants, D!Init, D!Reset, DebugInv, D!TypeOK, D!PanicsIffStray, ClientInv, RegsInv,
         Pending, Armed, Access, D!NoAccess, D!foo

\* The watchpoint fires for the accesses that touch the armed byte.
LEMMA WatchptFiresWhenArmed ==
  ASSUME ClientInv, D!Running, part = "debug", path # <<D!foo>>
  PROVE  D!WatchptFires <=> armed.watch /\ armed.byte \in D!Bytes(access)
<1>1. D!pc \in {D!GET, D!PUT} /\ monitor
  BY DEF ClientInv, D!Running, D!pc, D!foo, D!GET, D!PUT
<1>2. armed.byte \in Nat /\ access.addr \in Nat /\ access.n \in Nat
  BY DEF ClientInv, Armed, Access
<1>3. wp.on <=> armed.watch
  BY DEF ClientInv, RegsInv
<1>4. CASE wp.on
  <2>1. wp.addr = armed.byte /\ wp.bas = {armed.byte % 4}
    BY <1>4 DEF ClientInv, RegsInv
  <2>2. \A b \in D!Bytes(access) :
          b \div 4 = wp.addr \div 4 /\ b % 4 \in wp.bas <=> b = armed.byte
    BY <1>2, <2>1 DEF D!Bytes
  <2>3. QED BY <1>1, <1>3, <1>4, <2>2 DEF D!WatchptFires
<1>5. CASE ~wp.on
  BY <1>3, <1>5 DEF D!WatchptFires
<1>6. QED BY <1>4, <1>5

LEMMA BrkptFiresWhenArmed ==
  ASSUME ClientInv, D!Running, part = "debug"
  PROVE  D!BrkptFires <=> armed.brk /\ path = <<D!foo>>
<1>1. monitor /\ (D!pc = D!foo <=> path = <<D!foo>>)
  BY DEF ClientInv, D!Running, D!pc, D!foo, D!GET, D!PUT
<1>2. bp.mis = FALSE /\ (bp.on <=> armed.brk) /\ (bp.on => bp.addr = D!foo)
  BY DEF ClientInv, RegsInv
<1>3. QED BY <1>1, <1>2 DEF D!BrkptFires

-----------------------------------------------------------------------------
(* The steps of the client.                                                *)

LEMMA ArmKeeps ==
  ASSUME DebugConstants, ClientInv, at = "client", D!ArmBrkpt \/ D!ArmWatchpt,
         UNCHANGED <<monitor, dscr, ifsr, dfsr, n_faults>>
  PROVE  ClientInv'
<1> USE DEF ClientInv, RegsInv, Armed, Access, Pending
<1>1. CASE D!ArmBrkpt
  <2>1. bp' = [on |-> TRUE, mis |-> FALSE, addr |-> D!foo] /\ "brkpt" \in handlers'
    <3>1. CASE /\ bp' = D!bcr0_enable([bp EXCEPT !.on = FALSE, !.addr = D!foo])
               /\ handlers' = handlers \union {"brkpt"}
      BY <3>1 DEF D!bcr0_enable
    <3>2. CASE "brkpt" \in handlers /\ bp' = D!bcr0_enable(bp) /\ UNCHANGED handlers
      BY <3>2 DEF D!bcr0_enable
    <3>3. QED BY <1>1, <3>1, <3>2 DEF D!ArmBrkpt
  <2>2. armed' \in Armed /\ armed'.brk = TRUE /\ armed'.watch = armed.watch
        /\ armed'.byte = armed.byte
    BY <1>1 DEF D!ArmBrkpt
  <2>3. handlers' \in {handlers, handlers \union {"brkpt"}} /\ UNCHANGED <<wp, path, access, due, at>>
    BY <1>1 DEF D!ArmBrkpt
  <2>4. "watchpt" \in handlers' <=> "watchpt" \in handlers
    BY <2>3
  <2>5. RegsInv'
    BY <2>1, <2>2, <2>3, <2>4 DEF D!foo
  <2>6. QED BY <2>2, <2>3, <2>5
<1>2. CASE D!ArmWatchpt
  <2>1. UNCHANGED <<bp, path, access, due, at>> /\ ("brkpt" \in handlers' <=> "brkpt" \in handlers)
    BY <1>2 DEF D!ArmWatchpt
  <2>2. CASE \E a \in Addrs : /\ wp' = D!Watch(wp, a) /\ handlers' = handlers \union {"watchpt"}
                              /\ armed' = [armed EXCEPT !.watch = TRUE, !.byte = a]
    <3>1. PICK a \in Nat : /\ wp' = D!Watch(wp, a) /\ handlers' = handlers \union {"watchpt"}
                          /\ armed' = [armed EXCEPT !.watch = TRUE, !.byte = a]
      BY <2>2 DEF DebugConstants
    <3>2. armed' \in Armed /\ armed'.watch = TRUE /\ armed'.byte = a /\ armed'.brk = armed.brk
      BY <3>1
    <3>3. /\ wp' \in [on : BOOLEAN, addr : Nat, bas : SUBSET (0 .. 3)]
          /\ wp'.on = TRUE /\ wp'.addr = a /\ wp'.bas = {a % 4}
      <4> DEFINE WP == [on : BOOLEAN, addr : Nat, bas : SUBSET (0 .. 3)]
                 moved == [wp EXCEPT !.addr = a]
                 enabled == [moved EXCEPT !.on = TRUE]
                 narrowed == [enabled EXCEPT !.bas = {a % 4}]
      <4>1. moved \in WP /\ moved.addr = a
        OBVIOUS
      <4> HIDE DEF moved
      <4>2. enabled \in WP /\ enabled.on = TRUE /\ enabled.addr = a
        BY <4>1
      <4> HIDE DEF enabled
      <4>3. {a % 4} \in SUBSET (0 .. 3)
        OBVIOUS
      <4>4. narrowed \in WP /\ narrowed.on = TRUE /\ narrowed.addr = a /\ narrowed.bas = {a % 4}
        BY <4>2, <4>3
      <4>5. wp' = narrowed
        BY <3>1 DEF D!Watch, D!wcr0_enable, enabled, moved
      <4> HIDE DEF narrowed
      <4>6. QED BY <4>4, <4>5
    <3>4. RegsInv'
      BY <2>1, <3>1, <3>2, <3>3
    <3>5. QED BY <2>1, <3>2, <3>4
  <2>3. CASE /\ "watchpt" \in handlers /\ wp' = D!wcr0_enable(wp) /\ UNCHANGED handlers
             /\ armed' = [armed EXCEPT !.watch = TRUE]
    <3>1. armed' \in Armed /\ armed'.watch = TRUE /\ armed'.byte = armed.byte
          /\ armed'.brk = armed.brk
      BY <2>3
    <3>2. /\ wp' \in [on : BOOLEAN, addr : Nat, bas : SUBSET (0 .. 3)]
          /\ wp'.on = TRUE /\ wp'.addr = wp.addr /\ wp'.bas = wp.bas
      BY <2>3 DEF D!wcr0_enable
    <3>3. RegsInv'
      BY <2>1, <2>3, <3>1, <3>2
    <3>4. QED BY <2>1, <3>1, <3>3
  <2>4. QED BY <1>2, <2>2, <2>3 DEF D!ArmWatchpt
<1>3. QED BY <1>1, <1>2

LEMMA CallKeeps ==
  ASSUME DebugConstants, ClientInv, at = "client", D!Call,
         UNCHANGED <<monitor, dscr, ifsr, dfsr, n_faults>>
  PROVE  ClientInv'
<1>1. at' = "run" /\ UNCHANGED <<bp, wp, handlers, armed>> /\ due = n_faults
  BY DEF D!Call, ClientInv, Pending
<1>2. RegsInv'
  BY <1>1 DEF ClientInv, RegsInv
<1>3. /\ path' \in {<<D!foo>>, <<D!GET>>, <<D!PUT>>} /\ access' \in Access /\ due' \in Nat
      /\ due' = n_faults + Pending'
  <2>1. CASE path' = <<D!foo>> /\ UNCHANGED access /\ due' = due + (IF armed.brk THEN 1 ELSE 0)
    BY <1>1, <2>1 DEF Pending, ClientInv
  <2>2. CASE \E f \in {D!GET, D!PUT}, a \in Addrs, n \in {1, 4} :
               /\ path' = <<f>> /\ access' = [addr |-> a, n |-> n]
               /\ due' = due + (IF armed.watch /\ armed.byte \in D!Bytes(access') THEN 1 ELSE 0)
    <3>1. path' \in {<<D!GET>>, <<D!PUT>>} /\ access' \in Access
      BY <2>2 DEF DebugConstants, Access
    <3>2. path' # <<D!foo>>
      BY <3>1 DEF D!foo, D!GET, D!PUT
    <3>3. Pending' = IF armed.watch /\ armed.byte \in D!Bytes(access') THEN 1 ELSE 0
      BY <1>1, <3>2 DEF Pending, D!Bytes
    <3>4. QED BY <1>1, <2>2, <3>1, <3>3 DEF ClientInv
  <2>3. QED BY <2>1, <2>2 DEF D!Call
<1>4. QED BY <1>1, <1>2, <1>3 DEF ClientInv

-----------------------------------------------------------------------------
(* Faults, and the end of a call.                                          *)

\* A debug fault is the pending one, and its handler turns it off.
LEMMA DebugFaultKeeps == DebugInv /\ D!DebugFault => DebugInv'
<1> SUFFICES ASSUME DebugInv, D!DebugFault PROVE DebugInv'
  OBVIOUS
<1>0. /\ ClientInv /\ D!Running /\ part = "debug" /\ at = "run" /\ ~stray
      /\ UNCHANGED <<part, path, run, mode, monitor, handlers, access, due, ops, pc_hash, stray, faults>>
  BY DEF D!DebugFault, DebugInv, D!Running, D!PanicsIffStray
<1>1. CASE D!BrkptFires /\ dscr' = "brkpt" /\ ifsr' = "debug" /\ UNCHANGED dfsr /\ D!PrefetchAbortVector
  <2>1. armed.brk /\ path = <<D!foo>> /\ D!pc = D!foo
    BY <1>0, <1>1, BrkptFiresWhenArmed DEF D!pc, D!foo
  <2>2. /\ bp' = [bp EXCEPT !.on = FALSE] /\ armed' = [armed EXCEPT !.brk = FALSE]
        /\ n_faults' = n_faults + 1 /\ UNCHANGED <<at, wp>>
    BY <1>1, <2>1 DEF D!PrefetchAbortVector, D!was_brkpt_fault
  <2>3. /\ armed' \in Armed /\ ~armed'.brk /\ armed'.watch = armed.watch
        /\ armed'.byte = armed.byte
    BY <1>0, <2>2 DEF ClientInv, Armed
  <2>4. RegsInv'
    <3>1. bp' \in [on : BOOLEAN, mis : {FALSE}, addr : Nat] /\ bp'.on = FALSE /\ bp'.addr = bp.addr
      BY <1>0, <2>2 DEF ClientInv, RegsInv
    <3>2. armed'.brk = FALSE
      BY <1>0, <2>2 DEF ClientInv, Armed
    <3>3. QED BY <1>0, <2>2, <2>3, <3>1, <3>2 DEF ClientInv, RegsInv
  <2>5. Pending = 1 /\ Pending' = 0
    BY <1>0, <2>1, <2>2, <2>3 DEF Pending
  <2>6. ClientInv'
    BY <1>0, <1>1, <2>2, <2>3, <2>4, <2>5 DEF ClientInv
  <2>7. D!TypeOK'
    BY <1>0, <1>1, <2>2 DEF DebugInv, D!TypeOK
  <2>8. QED BY <1>0, <2>2, <2>6, <2>7 DEF DebugInv, D!PanicsIffStray
<1>2. CASE /\ ~D!BrkptFires /\ D!WatchptFires /\ dscr' = "watch" /\ UNCHANGED ifsr
           /\ dfsr' = [status |-> "debug", st |-> D!pc = D!PUT, far |-> access.addr]
           /\ D!DataAbortVector
  <2>1. D!pc \in {D!GET, D!PUT} /\ path # <<D!foo>>
    BY <1>2 DEF D!WatchptFires, D!pc, D!foo, D!GET, D!PUT
  <2>2. armed.watch /\ armed.byte \in D!Bytes(access)
    BY <1>0, <1>2, <2>1, WatchptFiresWhenArmed
  <2>3. "watchpt" \in handlers
    BY <1>0, <2>2 DEF ClientInv, RegsInv
  <2>4. D!fault_is_ld(dfsr') <=> D!pc = D!GET
    <3>1. CASE D!pc = D!PUT
      <4>1. (D!pc = D!PUT) = TRUE /\ D!pc # D!GET
        BY <3>1 DEF D!GET, D!PUT
      <4>2. dfsr' = [status |-> "debug", st |-> TRUE, far |-> access.addr]
        BY <1>2, <4>1, Zenon
      <4>3. QED BY <4>1, <4>2 DEF D!fault_is_ld
    <3>2. CASE D!pc = D!GET
      <4>1. (D!pc = D!PUT) = FALSE
        BY <3>2 DEF D!GET, D!PUT
      <4>2. dfsr' = [status |-> "debug", st |-> FALSE, far |-> access.addr]
        BY <1>2, <4>1, Zenon
      <4>3. QED BY <3>2, <4>2 DEF D!fault_is_ld
    <3>3. QED BY <2>1, <3>1, <3>2
  <2>5. access.n = 1 => dfsr'.far = armed.byte
    <3>1. armed.byte \in Nat /\ access.addr \in Nat
      BY <1>0 DEF ClientInv, Access, Armed
    <3>2. dfsr'.far = access.addr
      BY <1>2
    <3>3. QED BY <2>2, <3>1, <3>2 DEF D!Bytes
  <2>6. ~D!was_brkpt_fault(ifsr, dscr') /\ D!was_watchpt_fault(dfsr', dscr')
    BY <1>2 DEF D!was_brkpt_fault, D!was_watchpt_fault
  <2>7. /\ wp' = [wp EXCEPT !.on = FALSE] /\ armed' = [armed EXCEPT !.watch = FALSE]
        /\ n_faults' = n_faults + 1 /\ UNCHANGED <<at, bp>>
    BY <1>2, <2>3, <2>4, <2>5, <2>6 DEF D!DataAbortVector
  <2>8. /\ armed' \in Armed /\ ~armed'.watch /\ armed'.brk = armed.brk
        /\ armed'.byte = armed.byte
    BY <1>0, <2>7 DEF ClientInv, Armed
  <2>9. RegsInv'
    <3>1. /\ wp' \in [on : BOOLEAN, addr : Nat, bas : SUBSET (0 .. 3)]
          /\ wp'.on = FALSE /\ wp'.addr = wp.addr /\ wp'.bas = wp.bas
      BY <1>0, <2>7 DEF ClientInv, RegsInv
    <3>2. armed'.watch = FALSE
      BY <1>0, <2>7 DEF ClientInv, Armed
    <3>3. QED BY <1>0, <2>7, <2>8, <3>1, <3>2 DEF ClientInv, RegsInv
  <2>10. Pending = 1 /\ Pending' = 0
    BY <1>0, <2>1, <2>2, <2>7, <2>8 DEF Pending
  <2>11. ClientInv'
    BY <1>0, <1>2, <2>7, <2>8, <2>9, <2>10 DEF ClientInv
  <2>12. D!TypeOK'
    <3>1. wp'.bas \subseteq 0 .. 3
      BY <2>9 DEF RegsInv
    <3>2. QED BY <1>0, <1>2, <2>7, <3>1 DEF DebugInv, D!TypeOK
  <2>13. QED BY <1>0, <2>7, <2>11, <2>12 DEF DebugInv, D!PanicsIffStray
<1>3. QED BY <1>1, <1>2 DEF D!DebugFault

\* An abort that is no debug fault is not taken for one, whatever the registers hold.
LEMMA StrayAbortKeeps == DebugConstants /\ DebugInv /\ D!StrayAbort => DebugInv'
<1> SUFFICES ASSUME DebugConstants, DebugInv, D!StrayAbort PROVE DebugInv'
  OBVIOUS
<1>0. /\ ClientInv /\ part = "debug" /\ at = "run" /\ stray' = TRUE
      /\ UNCHANGED <<part, path, run, mode, monitor, handlers, access, due, ops, pc_hash>>
  BY DEF D!StrayAbort, DebugInv, D!Running
<1>1. D!Panics /\ UNCHANGED dscr
  <2>1. CASE ifsr' = "other" /\ UNCHANGED <<dscr, dfsr>> /\ D!PrefetchAbortVector
    BY <2>1 DEF D!PrefetchAbortVector, D!was_brkpt_fault
  <2>2. CASE /\ UNCHANGED <<dscr, ifsr>> /\ D!DataAbortVector
             /\ dfsr' = [status |-> "other", st |-> D!pc = D!PUT, far |-> access.addr]
    BY <2>2 DEF D!DataAbortVector, D!was_watchpt_fault
  <2>3. QED BY <2>1, <2>2 DEF D!StrayAbort
<1>2. RegsInv'
  BY <1>0, <1>1 DEF D!Panics, ClientInv, RegsInv
<1>3. ClientInv'
  BY <1>0, <1>1, <1>2 DEF D!Panics, ClientInv
<1>4. D!TypeOK'
  BY <1>0, <1>1 DEF D!StrayAbort, D!Panics, DebugInv, D!TypeOK, DebugConstants
<1>5. QED BY <1>0, <1>1, <1>3, <1>4 DEF D!Panics, DebugInv, D!PanicsIffStray

\* A call returns when it has no fault left to see.
LEMMA ReturnKeeps == DebugInv /\ D!Return => DebugInv'
<1> SUFFICES ASSUME DebugInv, D!Return PROVE DebugInv'
  OBVIOUS
<1>0. /\ ClientInv /\ part = "debug" /\ at \in {"run", "client"} /\ at' \in {"client", "exit"}
      /\ UNCHANGED <<part, run, mode, D!regs, D!client, n_faults, pc_hash, stray, faults>>
  BY DEF D!Return, DebugInv, D!Running
<1>1. Pending = 0
  <2>1. CASE D!Running /\ ~D!BrkptFires /\ ~D!WatchptFires
    <3>1. CASE path = <<D!foo>>
      BY <1>0, <2>1, <3>1, BrkptFiresWhenArmed DEF Pending
    <3>2. CASE path # <<D!foo>>
      BY <1>0, <2>1, <3>2, WatchptFiresWhenArmed DEF Pending
    <3>3. QED BY <3>1, <3>2
  <2>2. CASE at = "client"
    BY <2>2 DEF Pending
  <2>3. QED BY <2>1, <2>2 DEF D!Return
<1>2. RegsInv'
  BY <1>0 DEF D!regs, D!client, ClientInv, RegsInv
<1>3. ClientInv'
  BY <1>0, <1>1, <1>2 DEF D!regs, D!client, ClientInv, Pending
<1>4. D!TypeOK'
  BY <1>0 DEF D!regs, D!client, DebugInv, D!TypeOK
<1>5. QED BY <1>0, <1>3, <1>4 DEF D!client, DebugInv, D!PanicsIffStray

-----------------------------------------------------------------------------
(* The theorem.                                                            *)

LEMMA DebugNext == DebugConstants /\ DebugInv /\ [D!Next]_(D!dvars) => DebugInv'
<1> SUFFICES ASSUME DebugConstants, DebugInv, [D!Next]_(D!dvars) PROVE DebugInv'
  OBVIOUS
<1>1. CASE UNCHANGED D!dvars
  BY <1>1, ZenonT(60) DEF D!dvars, D!regs, D!client, DebugInv, D!TypeOK, D!PanicsIffStray, ClientInv, RegsInv, Pending,
             D!Bytes
<1>2. CASE D!DebugFaultInit
  BY <1>2 DEF D!DebugFaultInit, D!client, DebugInv, D!TypeOK, D!PanicsIffStray, ClientInv, RegsInv, Pending
<1>3. CASE D!Client
  <2>1. /\ ClientInv /\ part' = "debug" /\ at = "client" /\ at' \in {"client", "run"}
        /\ UNCHANGED <<part, run, mode, monitor, dscr, ifsr, dfsr, n_faults, pc_hash, stray, faults>>
    BY <1>3 DEF D!Client, D!ArmBrkpt, D!ArmWatchpt, D!Call, DebugInv
  <2>2. ClientInv'
    BY <1>3, <2>1, ArmKeeps, CallKeeps DEF D!Client
  <2>3. ops' \in 0 .. MaxOps
    BY <1>3 DEF D!Client, DebugConstants, DebugInv, D!TypeOK
  <2>4. handlers' \subseteq {"brkpt", "watchpt"}
    BY <1>3 DEF D!Client, D!ArmBrkpt, D!ArmWatchpt, D!Call, DebugInv, D!TypeOK
  <2>5. wp'.bas \subseteq 0 .. 3
    BY <2>2 DEF ClientInv, RegsInv
  <2>6. D!TypeOK'
    BY <2>1, <2>3, <2>4, <2>5 DEF DebugInv, D!TypeOK
  <2>7. QED BY <2>1, <2>2, <2>6 DEF DebugInv, D!PanicsIffStray
<1>4. CASE D!RunUser
  BY <1>4 DEF D!RunUser, D!client, DebugInv, D!TypeOK, D!PanicsIffStray
<1>5. CASE D!Step
  BY <1>5 DEF D!Step, D!client, DebugInv, D!TypeOK, D!PanicsIffStray
<1>6. CASE D!Execute
  BY <1>6 DEF D!Execute, D!regs, D!client, D!Running, DebugInv, D!TypeOK, D!PanicsIffStray
<1>7. CASE D!Reboot
  BY <1>7 DEF D!Reboot, DebugConstants, DebugInv, D!TypeOK, D!PanicsIffStray
<1>8. QED
  BY <1>1, <1>2, <1>3, <1>4, <1>5, <1>6, <1>7, DebugFaultKeeps, StrayAbortKeeps, ReturnKeeps
     DEF D!Next, D!Processor

\* debug-fault.c's vectors with the handlers of the tests: in any sequence of
\* settings, enablings, calls and accesses a client sees each fault it armed
\* for and no other, and the program stops when, and only when, an abort is no
\* debug fault, whatever the last debug fault left in the status registers.
THEOREM DebugSortsFaults ==
  ASSUME DebugConstants PROVE D!Spec => []D!FaultsSorted
<1>1. D!Init => DebugInv
  BY DebugInit
<1>2. DebugInv /\ [D!Next]_(D!dvars) => DebugInv'
  BY DebugNext
<1>3. DebugInv => D!FaultsSorted
  BY DEF DebugInv, ClientInv, Pending, D!TypeOK, D!FaultsSorted, D!FaultsExact, D!PanicsIffStray
<1>4. QED BY <1>1, <1>2, <1>3, PTL DEF D!Spec

-----------------------------------------------------------------------------
(* The naturals are well founded.                                          *)

\* Every nonempty set of naturals has a least element.
LEMMA NatLeast ==
  ASSUME NEW T \in SUBSET Nat, T # {}
  PROVE  \E m \in T : \A n \in T : m <= n
<1> DEFINE Up == {0 .. m : m \in T}
<1>1. Up \subseteq FiniteSubsetsOf(Nat) /\ Up # {}
  <2>1. \A m \in T : 0 .. m \subseteq Nat /\ IsFiniteSet(0 .. m)
    BY FS_Interval
  <2> QED BY <2>1 DEF FiniteSubsetsOf
<1>2. PICK U \in Up : \A V \in Up : ~ (<<V, U>> \in StrictSubsetOrdering(Nat))
  BY <1>1, FS_StrictSubsetOrderingWellFounded, WFMin
<1>3. PICK m \in T : U = 0 .. m
  OBVIOUS
<1>4. \A n \in T : m <= n
  <2> TAKE n \in T
  <2>1. <<0 .. n, 0 .. m>> \notin StrictSubsetOrdering(Nat)
    BY <1>2, <1>3
  <2>2. ~ (0 .. n \subseteq 0 .. m /\ 0 .. n # 0 .. m)
    BY <2>1 DEF StrictSubsetOrdering
  <2>3. n < m => (0 .. n \subseteq 0 .. m /\ m \in 0 .. m /\ m \notin 0 .. n)
    OBVIOUS
  <2> QED BY <2>2, <2>3
<1> QED BY <1>4

-----------------------------------------------------------------------------
(* Folds: a recursive function on the subsets of a finite set.             *)

\* c chooses an element of each nonempty subset of S.
Chooses(c, S) == \A s \in SUBSET S : s # {} => c[s] \in s

\* g takes a value of V to one of V.
Turns(g, S, V) == \A s \in SUBSET S, v \in V : g[s][v] \in V

\* The subsets of S of at most n elements.
Small(S, n) == {s \in SUBSET S : Cardinality(s) <= n}

\* On the sets of Sets, f is b, turned by g for each element that c takes from a set.
Recurs(f, Sets, b, c, g) ==
  f = [s \in Sets |-> IF s = {} THEN b ELSE g[s][f[s \ {c[s]}]]]

LEMMA SmallFacts ==
  ASSUME NEW S, IsFiniteSet(S), NEW c, Chooses(c, S), NEW n \in Nat
  PROVE  /\ \A s \in Small(S, n) : s # {} => /\ s \ {c[s]} \in Small(S, n) /\ n > 0
                                             /\ s \ {c[s]} \in Small(S, n - 1)
         /\ Small(S, 0) = {{}} /\ Small(S, n) \subseteq SUBSET S
         /\ Cardinality(S) \in Nat /\ Small(S, Cardinality(S)) = SUBSET S
<1>1. ASSUME NEW s \in Small(S, n), s # {}
      PROVE  s \ {c[s]} \in Small(S, n) /\ s \ {c[s]} \in Small(S, n - 1) /\ n > 0
  <2>1. s \in SUBSET S /\ IsFiniteSet(s) /\ c[s] \in s /\ Cardinality(s) <= n
    BY <1>1, FS_Subset DEF Small, Chooses
  <2>2. Cardinality(s) \in Nat /\ Cardinality(s \ {c[s]}) = Cardinality(s) - 1 /\ Cardinality(s) # 0
    BY <1>1, <2>1, FS_RemoveElement, FS_CardinalityType, FS_EmptySet
  <2>3. s \ {c[s]} \in SUBSET S
    BY <2>1
  <2>4. Cardinality(s \ {c[s]}) <= n - 1 /\ Cardinality(s \ {c[s]}) <= n /\ n > 0
    BY <2>1, <2>2
  <2> QED BY <2>3, <2>4 DEF Small
<1>2. Small(S, 0) = {{}}
  <2>1. ASSUME NEW s \in Small(S, 0) PROVE s = {}
    <3>1. s \in SUBSET S /\ IsFiniteSet(s) /\ Cardinality(s) <= 0
      BY FS_Subset DEF Small
    <3>2. Cardinality(s) \in Nat
      BY <3>1, FS_CardinalityType
    <3> QED BY <3>1, <3>2, FS_EmptySet
  <2>2. {} \in Small(S, 0)
    BY FS_EmptySet DEF Small
  <2> QED BY <2>1, <2>2
<1>3. Cardinality(S) \in Nat /\ Small(S, Cardinality(S)) = SUBSET S
  <2>1. \A s \in SUBSET S : Cardinality(s) <= Cardinality(S)
    BY FS_Subset
  <2> QED BY <2>1, FS_CardinalityType DEF Small
<1> QED BY <1>1, <1>2, <1>3 DEF Small

LEMMA RecursExists ==
  ASSUME NEW S, IsFiniteSet(S), NEW V, NEW b \in V, NEW c, Chooses(c, S), NEW g, Turns(g, S, V)
  PROVE  \E f \in [SUBSET S -> V] : Recurs(f, SUBSET S, b, c, g)
<1> DEFINE T == {n \in Nat : ~ \E f \in [Small(S, n) -> V] : Recurs(f, Small(S, n), b, c, g)}
<1>1. T = {}
  <2>1. SUFFICES ASSUME T # {} PROVE FALSE
    OBVIOUS
  <2>2. T \in SUBSET Nat
    OBVIOUS
  <2>3. PICK n \in T : \A m \in T : n <= m
    BY <2>1, <2>2, NatLeast
  <2>4. CASE n = 0
    <3>1. Small(S, n) = {{}}
      BY <2>4, SmallFacts
    <3>2. PICK f : f = [s \in Small(S, n) |-> b]
      OBVIOUS
    <3>3. f \in [Small(S, n) -> V] /\ \A s \in Small(S, n) : s = {} /\ f[s] = b
      BY <3>1, <3>2
    <3>4. Recurs(f, Small(S, n), b, c, g)
      BY <3>2, <3>3 DEF Recurs
    <3> QED BY <3>3, <3>4
  <2>5. CASE n # 0
    <3>1. n \in Nat /\ n - 1 \in Nat /\ n - 1 \notin T
      BY <2>3, <2>5
    <3>2. PICK f \in [Small(S, n - 1) -> V] : Recurs(f, Small(S, n - 1), b, c, g)
      BY <3>1
    <3>3. PICK h : h = [s \in Small(S, n) |-> IF s = {} THEN b ELSE g[s][f[s \ {c[s]}]]]
      OBVIOUS
    <3>4. \A s \in Small(S, n) : s # {} => s \ {c[s]} \in Small(S, n - 1) /\ s \in SUBSET S
      BY <3>1, SmallFacts DEF Small
    <3>5. h \in [Small(S, n) -> V]
      <4>1. ASSUME NEW s \in Small(S, n) PROVE (IF s = {} THEN b ELSE g[s][f[s \ {c[s]}]]) \in V
        <5>1. s # {} => f[s \ {c[s]}] \in V
          BY <3>4
        <5> QED BY <3>4, <5>1 DEF Turns
      <4> QED BY <3>3, <4>1
    <3>6. \A s \in Small(S, n - 1) : h[s] = f[s]
      <4>1. ASSUME NEW s \in Small(S, n - 1) PROVE s \in Small(S, n)
        <5>1. IsFiniteSet(s) /\ Cardinality(s) <= n - 1 /\ s \in SUBSET S
          BY FS_Subset DEF Small
        <5>2. Cardinality(s) <= n
          BY <3>1, <5>1, FS_CardinalityType
        <5> QED BY <5>1, <5>2 DEF Small
      <4>2. \A s \in Small(S, n - 1) : f[s] = IF s = {} THEN b ELSE g[s][f[s \ {c[s]}]]
        BY <3>2 DEF Recurs
      <4> QED BY <3>3, <4>1, <4>2
    <3>7. \A s \in Small(S, n) : s # {} => h[s \ {c[s]}] = f[s \ {c[s]}]
      BY <3>4, <3>6
    <3>8. h = [s \in Small(S, n) |-> IF s = {} THEN b ELSE g[s][h[s \ {c[s]}]]]
      <4>1. \A s \in Small(S, n) :
              (IF s = {} THEN b ELSE g[s][f[s \ {c[s]}]]) = IF s = {} THEN b ELSE g[s][h[s \ {c[s]}]]
        BY <3>7
      <4> QED BY <3>3, <4>1
    <3>9. Recurs(h, Small(S, n), b, c, g)
      BY <3>8 DEF Recurs
    <3> QED BY <3>5, <3>9
  <2> QED BY <2>4, <2>5
<1>2. Cardinality(S) \in Nat /\ Small(S, Cardinality(S)) = SUBSET S
  BY SmallFacts
<1>3. Cardinality(S) \notin T
  BY <1>1
<1> QED BY <1>2, <1>3

\* The greatest of the first numbers, and of a set of them.
LEMMA MaxFacts ==
  ASSUME NEW n \in Nat
  PROVE  /\ \A s \in SUBSET (1 .. n) : s # {} => Max(s) \in s
         /\ \A k \in 1 .. n : Max(1 .. k) = k /\ (1 .. k) \ {k} = 1 .. k - 1 /\ 1 .. k # {}
<1>1. ASSUME NEW s \in SUBSET (1 .. n), s # {}
      PROVE  Max(s) \in s
  <2> DEFINE T == {n - x : x \in s}
  <2>1. T \in SUBSET Nat /\ T # {}
    <3>1. \A x \in s : x \in 1 .. n
      OBVIOUS
    <3>2. \A x \in s : n - x \in Nat
      BY <3>1
    <3> QED BY <1>1, <3>2
  <2>2. PICK m \in T : \A j \in T : m <= j
    BY <2>1, NatLeast
  <2>3. PICK x \in s : m = n - x
    BY <2>2
  <2>4. \A y \in s : x >= y
    <3> TAKE y \in s
    <3>1. n - y \in T
      OBVIOUS
    <3>2. n - x <= n - y
      BY <2>2, <2>3, <3>1
    <3> QED BY <3>2
  <2> QED BY <2>4, Zenon DEF Max
<1>2. ASSUME NEW k \in 1 .. n
      PROVE  Max(1 .. k) = k /\ (1 .. k) \ {k} = 1 .. k - 1 /\ 1 .. k # {}
  <2>1. k \in 1 .. k /\ \A y \in 1 .. k : k >= y
    OBVIOUS
  <2>2. \A x \in 1 .. k : (\A y \in 1 .. k : x >= y) => x = k
    <3> TAKE x \in 1 .. k
    <3> QED BY <2>1
  <2>3. Max(1 .. k) = k
    BY <2>1, <2>2, Zenon DEF Max
  <2>4. (1 .. k) \ {k} = 1 .. k - 1
    OBVIOUS
  <2> QED BY <2>1, <2>3, <2>4
<1> QED BY <1>1, <1>2

-----------------------------------------------------------------------------
(* A sequence without repetitions of what stands next to itself.           *)

CollapseStep(r, x) == IF r # <<>> /\ Last(r) = x THEN r ELSE Append(r, x)

\* f collapses s, from its beginning on.
CollapseFold(f, s) ==
  f = [x \in SUBSET DOMAIN s |-> IF x = {} THEN <<>> ELSE CollapseStep(f[x \ {Max(x)}], s[Max(x)])]

LEMMA CollapseStepType ==
  ASSUME NEW r \in Seq(Nat), NEW x \in Nat
  PROVE  CollapseStep(r, x) \in Seq(Nat)
  BY DEF CollapseStep

LEMMA CollapseFoldExists ==
  ASSUME NEW s \in Seq(Nat)
  PROVE  \E f : CollapseFold(f, s)
<1>1. PICK n \in Nat : n = Len(s) /\ DOMAIN s = 1 .. n
  OBVIOUS
<1>2. PICK S : S = 1 .. n
  OBVIOUS
<1>3. PICK c : c = [x \in SUBSET S |-> IF x = {} THEN 0 ELSE Max(x)]
  OBVIOUS
<1>4. PICK V : V = Seq(Nat)
  OBVIOUS
<1>5. PICK g : g = [x \in SUBSET S |-> [r \in V |-> IF x = {} THEN r ELSE CollapseStep(r, s[c[x]])]]
  OBVIOUS
<1>6. Chooses(c, S)
  BY <1>2, <1>3, MaxFacts DEF Chooses
<1>7. Turns(g, S, V)
  <2> SUFFICES ASSUME NEW x \in SUBSET S, NEW r \in V PROVE g[x][r] \in V
    BY DEF Turns
  <2>1. g[x][r] = IF x = {} THEN r ELSE CollapseStep(r, s[c[x]])
    BY <1>5
  <2>2. x # {} => s[c[x]] \in Nat
    <3>1. \A i \in S : s[i] \in Nat
      BY <1>1, <1>2
    <3>2. x # {} => c[x] \in S
      BY <1>6 DEF Chooses
    <3> QED BY <3>1, <3>2
  <2>3. x # {} => CollapseStep(r, s[c[x]]) \in V
    BY <1>4, <2>2, CollapseStepType
  <2> QED BY <2>1, <2>3
<1>8. IsFiniteSet(S) /\ <<>> \in V
  BY <1>2, <1>4, FS_Interval
<1>9. PICK f \in [SUBSET S -> V] : Recurs(f, SUBSET S, <<>>, c, g)
  BY <1>6, <1>7, <1>8, RecursExists, Zenon
<1>10. f = [x \in SUBSET S |-> IF x = {} THEN <<>> ELSE g[x][f[x \ {c[x]}]]]
  BY <1>9 DEF Recurs
<1>11. ASSUME NEW x \in SUBSET S
       PROVE  (IF x = {} THEN <<>> ELSE g[x][f[x \ {c[x]}]])
              = IF x = {} THEN <<>> ELSE CollapseStep(f[x \ {Max(x)}], s[Max(x)])
  <2>1. x \ {c[x]} \in SUBSET S
    OBVIOUS
  <2>2. f[x \ {c[x]}] \in V
    BY <2>1
  <2>3. x # {} => c[x] = Max(x)
    BY <1>3
  <2>4. x # {} => g[x][f[x \ {c[x]}]] = CollapseStep(f[x \ {c[x]}], s[c[x]])
    BY <1>5, <2>2
  <2> QED BY <2>3, <2>4, Zenon
<1>12. f = [x \in SUBSET S |-> IF x = {} THEN <<>> ELSE CollapseStep(f[x \ {Max(x)}], s[Max(x)])]
  BY <1>10, <1>11, Zenon
<1>13. SUBSET S = SUBSET DOMAIN s
  BY <1>1, <1>2
<1> QED BY <1>12, <1>13, Zenon DEF CollapseFold

\* F holds what is left of each beginning of s.
CollapseRun(F, s) == /\ F \in [0 .. Len(s) -> Seq(Nat)] /\ F[0] = <<>>
                     /\ \A k \in 1 .. Len(s) : F[k] = CollapseStep(F[k - 1], s[k])

LEMMA CollapseRuns ==
  ASSUME NEW s \in Seq(Nat)
  PROVE  \E F : CollapseRun(F, s) /\ D!Collapse(s) = F[Len(s)]
<1>0. PICK f : f = CHOOSE h : CollapseFold(h, s)
  OBVIOUS
<1>a. CollapseFold(f, s)
  BY <1>0, CollapseFoldExists, Zenon
<1>b. D!Collapse(s) = f[DOMAIN s]
  BY <1>0, Zenon DEF D!Collapse, D!FoldLeft, D!MapThenFoldSet, CollapseFold, CollapseStep,
                     D!Max, Max, D!Last, Last
<1>1. PICK n \in Nat : n = Len(s) /\ DOMAIN s = 1 .. n
  OBVIOUS
<1>2. PICK F : F = [k \in 0 .. n |-> f[1 .. k]]
  OBVIOUS
<1>3. F[0] = <<>>
  <2>1. 1 .. 0 = {} /\ {} \in SUBSET DOMAIN s
    OBVIOUS
  <2>2. f[{}] = <<>>
    BY <1>a, <2>1, Zenon DEF CollapseFold
  <2> QED BY <1>2, <2>1, <2>2
<1>4. ASSUME NEW k \in 1 .. n PROVE F[k] = CollapseStep(F[k - 1], s[k])
  <2>1. 1 .. k \in SUBSET DOMAIN s /\ k \in 0 .. n /\ k - 1 \in 0 .. n
    BY <1>1
  <2>2. Max(1 .. k) = k /\ (1 .. k) \ {k} = 1 .. k - 1 /\ 1 .. k # {}
    BY MaxFacts
  <2>3. f[1 .. k] = CollapseStep(f[(1 .. k) \ {Max(1 .. k)}], s[Max(1 .. k)])
    BY <1>a, <2>1, <2>2, Zenon DEF CollapseFold
  <2>4. f[1 .. k] = CollapseStep(f[1 .. k - 1], s[k])
    BY <2>2, <2>3, Zenon
  <2>5. F[k] = f[1 .. k] /\ F[k - 1] = f[1 .. k - 1]
    BY <1>2, <2>1
  <2> QED BY <2>4, <2>5, Zenon
<1>5. \A k \in 0 .. n : F[k] \in Seq(Nat)
  <2> DEFINE T == {k \in 0 .. n : F[k] \notin Seq(Nat)}
  <2>1. SUFFICES ASSUME T # {} PROVE FALSE
    OBVIOUS
  <2>2. T \in SUBSET Nat
    OBVIOUS
  <2>3. PICK k \in T : \A m \in T : k <= m
    BY <2>1, <2>2, NatLeast
  <2>4. k \in 1 .. n /\ k - 1 \in 0 .. n /\ k - 1 \notin T
    <3>1. <<>> \in Seq(Nat)
      OBVIOUS
    <3>2. k # 0 /\ k \in 0 .. n
      BY <1>3, <2>3, <3>1
    <3>3. k \in 1 .. n /\ k - 1 \in 0 .. n /\ ~(k <= k - 1)
      BY <3>2
    <3> QED BY <2>3, <3>3
  <2>5. F[k - 1] \in Seq(Nat) /\ s[k] \in Nat
    BY <1>1, <2>4
  <2> QED BY <1>4, <2>3, <2>4, <2>5, CollapseStepType
<1>6. F \in [0 .. n -> Seq(Nat)]
  BY <1>2, <1>5
<1>7. F[n] = f[DOMAIN s]
  <2>1. n \in 0 .. n
    OBVIOUS
  <2> QED BY <1>1, <1>2, <2>1
<1> QED BY <1>1, <1>3, <1>4, <1>6, <1>7, <1>b DEF CollapseRun

\* What one more does, and what stands last.
LEMMA CollapseAdd ==
  ASSUME NEW s \in Seq(Nat), NEW x \in Nat
  PROVE  /\ D!Collapse(s) \in Seq(Nat) /\ D!Collapse(<<>>) = <<>>
         /\ D!Collapse(Append(s, x)) = CollapseStep(D!Collapse(s), x)
         /\ s # <<>> => D!Collapse(s) # <<>> /\ Last(D!Collapse(s)) = s[Len(s)]
<1>1. PICK n \in Nat : n = Len(s) /\ DOMAIN s = 1 .. n
  OBVIOUS
<1>2. PICK F : CollapseRun(F, s) /\ D!Collapse(s) = F[n]
  BY <1>1, CollapseRuns
<1>3. PICK t \in Seq(Nat) : /\ t = Append(s, x) /\ Len(t) = n + 1 /\ t[n + 1] = x
                            /\ \A i \in 1 .. n : t[i] = s[i]
  <2>1. /\ Append(s, x) \in Seq(Nat) /\ Len(Append(s, x)) = n + 1 /\ Append(s, x)[n + 1] = x
        /\ \A i \in 1 .. n : Append(s, x)[i] = s[i]
    BY <1>1
  <2> QED BY <2>1
<1>4. PICK G : CollapseRun(G, t) /\ D!Collapse(t) = G[n + 1]
  BY <1>3, CollapseRuns
<1>5. /\ F \in [0 .. n -> Seq(Nat)] /\ F[0] = <<>> /\ \A k \in 1 .. n : F[k] = CollapseStep(F[k - 1], s[k])
      /\ G \in [0 .. n + 1 -> Seq(Nat)] /\ G[0] = <<>>
      /\ \A k \in 1 .. n + 1 : G[k] = CollapseStep(G[k - 1], t[k])
  BY <1>1, <1>2, <1>3, <1>4 DEF CollapseRun
<1>6. \A k \in 0 .. n : G[k] = F[k]
  <2> DEFINE T == {k \in 0 .. n : G[k] # F[k]}
  <2>1. SUFFICES ASSUME T # {} PROVE FALSE
    OBVIOUS
  <2>2. T \in SUBSET Nat
    OBVIOUS
  <2>3. PICK k \in T : \A m \in T : k <= m
    BY <2>1, <2>2, NatLeast
  <2>4. k \in 1 .. n /\ k - 1 \in 0 .. n /\ k - 1 \notin T
    <3>1. k # 0 /\ k \in 0 .. n
      BY <1>5, <2>3
    <3>2. k \in 1 .. n /\ k - 1 \in 0 .. n /\ ~(k <= k - 1)
      BY <3>1
    <3> QED BY <2>3, <3>2
  <2>5. G[k - 1] = F[k - 1] /\ k \in 1 .. n + 1 /\ t[k] = s[k]
    BY <1>3, <2>4
  <2>6. G[k] = F[k]
    BY <1>5, <2>4, <2>5
  <2> QED BY <2>3, <2>6
<1>7. D!Collapse(t) = CollapseStep(D!Collapse(s), x)
  <2>1. n + 1 \in 1 .. n + 1 /\ n \in 0 .. n /\ (n + 1) - 1 = n
    OBVIOUS
  <2>2. G[n + 1] = CollapseStep(G[(n + 1) - 1], t[n + 1])
    BY <1>5, <2>1
  <2> QED BY <1>2, <1>3, <1>4, <1>6, <2>1, <2>2
<1>8. D!Collapse(s) \in Seq(Nat)
  BY <1>2, <1>5
<1>9. D!Collapse(<<>>) = <<>>
  <2>1. PICK e \in Seq(Nat) : e = <<>> /\ Len(e) = 0
    <3>1. <<>> \in Seq(Nat) /\ Len(<<>>) = 0
      OBVIOUS
    <3> QED BY <3>1
  <2>2. PICK E : CollapseRun(E, e) /\ D!Collapse(e) = E[0]
    BY <2>1, CollapseRuns
  <2> QED BY <2>1, <2>2 DEF CollapseRun
<1>10. ASSUME s # <<>> PROVE D!Collapse(s) # <<>> /\ Last(D!Collapse(s)) = s[n]
  <2>1. n \in 1 .. n /\ n - 1 \in 0 .. n /\ s[n] \in Nat
    BY <1>1, <1>10
  <2>2. PICK r \in Seq(Nat) : r = F[n - 1] /\ D!Collapse(s) = CollapseStep(r, s[n])
    BY <1>2, <1>5, <2>1
  <2>3. PICK y \in Nat : y = s[n]
    BY <2>1
  <2>4. CollapseStep(r, y) # <<>> /\ Last(CollapseStep(r, y)) = y
    <3>1. CASE r # <<>> /\ Last(r) = y
      BY <3>1 DEF CollapseStep
    <3>2. CASE ~(r # <<>> /\ Last(r) = y)
      <4>1. CollapseStep(r, y) = Append(r, y)
        BY <3>2 DEF CollapseStep
      <4>2. Append(r, y) # <<>> /\ Append(r, y)[Len(Append(r, y))] = y
        OBVIOUS
      <4> QED BY <4>1, <4>2 DEF Last
    <3> QED BY <3>1, <3>2
  <2> QED BY <2>2, <2>3, <2>4
<1> QED BY <1>1, <1>3, <1>7, <1>8, <1>9, <1>10

-----------------------------------------------------------------------------
(* Single stepping.                                                        *)

UserPrograms ==
  /\ HeapStart \in Nat \ {0} /\ Switch \in Seq(1 .. HeapStart - 1)
  /\ \A r \in Runs : r \in Seq(Nat) /\ r # <<>> /\ \A i \in DOMAIN r : r[i] >= HeapStart

\* What is executed in user mode.
All == Switch \o run

\* What the first j of its instructions have left in the count or in the hash.
Reached(j) ==
  /\ part = "single" => n_faults = Len(D!Collapse(SubSeq(All, 1, j)))
  /\ part = "pc" => pc_hash = D!Collapse(SubSeq(run, 1, j - Len(Switch)))

\* k instructions have been executed; the j-th was the last to be stepped, that
\* before the next one or the next, and the mismatch breakpoint is set on it.
Stepped(k, j) ==
  /\ k \in 0 .. Len(All) /\ j \in {k, k + 1} /\ j <= Len(All)
  /\ path = SubSeq(All, k + 1, Len(All))
  /\ at = "run" => k < Len(All)
  /\ at = "exit" => k = Len(All)
  /\ mode = "user" /\ monitor /\ bp = D!mismatch(IF j = 0 THEN 0 ELSE All[j])
  /\ Reached(j)

StepInv ==
  /\ part \notin {"debug", "off"} => run \in Runs /\ part \in {"raw", "user", "single", "pc"}
  /\ part \in {"single", "pc"} /\ at = "start" => n_faults = 0 /\ pc_hash = <<>>
  /\ part \in {"single", "pc"} /\ at \in {"run", "exit"} => \E k, j \in Nat : Stepped(k, j)

\* The program behind the kernel's instructions.
LEMMA AllFacts ==
  ASSUME UserPrograms, run \in Runs
  PROVE  /\ All \in Seq(Nat) /\ run \in Seq(Nat) /\ Switch \in Seq(Nat) /\ Len(run) > 0
         /\ Len(All) = Len(Switch) + Len(run)
         /\ \A i \in 1 .. Len(Switch) : All[i] = Switch[i] /\ 0 < All[i] /\ All[i] < HeapStart
         /\ \A i \in 1 .. Len(run) : All[Len(Switch) + i] = run[i] /\ run[i] >= HeapStart
<1>1. run \in Seq(Nat) /\ Switch \in Seq(Nat) /\ Len(run) > 0 /\ DOMAIN run = 1 .. Len(run)
  BY DEF UserPrograms
<1>2. /\ All \in Seq(Nat) /\ Len(All) = Len(Switch) + Len(run)
      /\ \A i \in 1 .. Len(Switch) : All[i] = Switch[i]
  BY <1>1 DEF All
<1>3. \A i \in 1 .. Len(run) : All[Len(Switch) + i] = run[i]
  BY <1>1 DEF All
<1>4. \A i \in 1 .. Len(Switch) : 0 < Switch[i] /\ Switch[i] < HeapStart
  BY DEF UserPrograms
<1>5. \A i \in 1 .. Len(run) : run[i] >= HeapStart
  BY <1>1 DEF UserPrograms
<1> QED BY <1>1, <1>2, <1>3, <1>4, <1>5

\* A beginning and one more.
LEMMA Longer ==
  ASSUME NEW s \in Seq(Nat), NEW i \in 1 .. Len(s)
  PROVE  /\ SubSeq(s, 1, i - 1) \in Seq(Nat) /\ s[i] \in Nat
         /\ SubSeq(s, 1, i) = Append(SubSeq(s, 1, i - 1), s[i])
         /\ i > 1 => /\ SubSeq(s, 1, i - 1) # <<>>
                     /\ SubSeq(s, 1, i - 1)[Len(SubSeq(s, 1, i - 1))] = s[i - 1]
<1>1. PICK n \in Nat : n = i - 1
  OBVIOUS
<1>2. PICK p : p = SubSeq(s, 1, n)
  OBVIOUS
<1>3. p \in Seq(Nat) /\ Len(p) = n /\ \A l \in 1 .. n : p[l] = s[l]
  BY <1>1, <1>2
<1>4. PICK q : q = SubSeq(s, 1, i)
  OBVIOUS
<1>5. q \in Seq(Nat) /\ Len(q) = i /\ \A l \in 1 .. i : q[l] = s[l]
  BY <1>4
<1>6. q = Append(p, s[i])
  <2>1. s[i] \in Nat
    OBVIOUS
  <2>2. PICK a : a = Append(p, s[i])
    OBVIOUS
  <2>3. a \in Seq(Nat) /\ Len(a) = n + 1 /\ a[n + 1] = s[i] /\ \A l \in 1 .. n : a[l] = p[l]
    BY <1>3, <2>1, <2>2
  <2>4. Len(a) = i /\ n + 1 = i
    BY <1>1, <2>3
  <2>5. ASSUME NEW l \in 1 .. i PROVE a[l] = q[l]
    <3>1. CASE l = i
      BY <1>5, <2>3, <2>4, <3>1
    <3>2. CASE l # i
      <4>1. l \in 1 .. n
        BY <1>1, <3>2
      <4> QED BY <1>3, <1>5, <2>3, <4>1
    <3> QED BY <3>1, <3>2
  <2> QED BY <1>5, <2>2, <2>3, <2>4, <2>5, SMTT(60)
<1>7. i > 1 => p # <<>> /\ p[Len(p)] = s[i - 1]
  BY <1>1, <1>3
<1>8. s[i] \in Nat
  OBVIOUS
<1>9. p = SubSeq(s, 1, i - 1)
  BY <1>1, <1>2, Zenon
<1>10. p \in Seq(Nat)
  BY <1>3
<1> QED BY <1>4, <1>6, <1>7, <1>8, <1>9, <1>10, Zenon

\* What an instruction more does to a beginning.
LEMMA CollapseOne ==
  ASSUME NEW s \in Seq(Nat), NEW h \in 1 .. Len(s)
  PROVE  /\ D!Collapse(SubSeq(s, 1, h - 1)) \in Seq(Nat)
         /\ D!Collapse(SubSeq(s, 1, h))
            = IF h > 1 /\ s[h - 1] = s[h] THEN D!Collapse(SubSeq(s, 1, h - 1))
              ELSE Append(D!Collapse(SubSeq(s, 1, h - 1)), s[h])
<1>1. PICK p \in Seq(Nat), x \in Nat : p = SubSeq(s, 1, h - 1) /\ x = s[h]
  BY Longer, Zenon
<1>2. PICK q : q = SubSeq(s, 1, h)
  OBVIOUS
<1>3. q = Append(p, x) /\ (h > 1 => p # <<>> /\ p[Len(p)] = s[h - 1])
  BY <1>1, <1>2, Longer, Zenon
<1>4. PICK r \in Seq(Nat) : r = D!Collapse(p)
  BY CollapseAdd
<1>5. /\ D!Collapse(q) = CollapseStep(r, x)
      /\ p # <<>> => r # <<>> /\ Last(r) = p[Len(p)]
  BY <1>3, <1>4, CollapseAdd, Zenon
<1>6. D!Collapse(q) = IF h > 1 /\ s[h - 1] = x THEN r ELSE Append(r, x)
  <2>1. CASE h > 1
    BY <1>3, <1>5, <2>1, Zenon DEF CollapseStep
  <2>2. CASE ~(h > 1)
    <3>1. h - 1 = 0
      BY <2>2
    <3>2. SubSeq(s, 1, 0) = <<>>
      OBVIOUS
    <3>3. p = <<>>
      BY <1>1, <3>1, <3>2
    <3>4. r = <<>>
      BY <1>4, <3>3, CollapseAdd
    <3> QED BY <1>5, <2>2, <3>4, Zenon DEF CollapseStep
  <2> QED BY <2>1, <2>2
<1> QED BY <1>1, <1>2, <1>4, <1>6, Zenon

\* One step more: an instruction other than the one before it counts, the same
\* does not.
LEMMA OneSeen ==
  ASSUME UserPrograms, run \in Runs, NEW k \in Nat, k < Len(All)
  PROVE  /\ D!Collapse(SubSeq(All, 1, k)) \in Seq(Nat)
         /\ D!Collapse(SubSeq(run, 1, k - Len(Switch))) \in Seq(Nat)
         /\ IF k > 0 /\ All[k] = All[k + 1]
            THEN /\ D!Collapse(SubSeq(All, 1, k + 1)) = D!Collapse(SubSeq(All, 1, k))
                 /\ D!Collapse(SubSeq(run, 1, (k + 1) - Len(Switch)))
                    = D!Collapse(SubSeq(run, 1, k - Len(Switch)))
            ELSE /\ D!Collapse(SubSeq(All, 1, k + 1)) = Append(D!Collapse(SubSeq(All, 1, k)), All[k + 1])
                 /\ D!Collapse(SubSeq(run, 1, (k + 1) - Len(Switch)))
                    = IF All[k + 1] >= HeapStart
                      THEN Append(D!Collapse(SubSeq(run, 1, k - Len(Switch))), All[k + 1])
                      ELSE D!Collapse(SubSeq(run, 1, k - Len(Switch)))
<1>1. PICK L \in Nat, n \in Nat, m \in Nat : L = Len(Switch) /\ n = Len(All) /\ m = Len(run) /\ n = L + m
  BY AllFacts
<1>2. PICK i \in 1 .. n : i = k + 1 /\ i - 1 = k
  BY <1>1
<1>3. All \in Seq(Nat) /\ run \in Seq(Nat)
  BY AllFacts
<1>5. /\ D!Collapse(SubSeq(All, 1, k)) \in Seq(Nat)
      /\ D!Collapse(SubSeq(All, 1, k + 1))
         = IF k > 0 /\ All[k] = All[k + 1] THEN D!Collapse(SubSeq(All, 1, k))
           ELSE Append(D!Collapse(SubSeq(All, 1, k)), All[k + 1])
  <2>1. i > 1 <=> k > 0
    BY <1>2
  <2>2. /\ D!Collapse(SubSeq(All, 1, i - 1)) \in Seq(Nat)
        /\ D!Collapse(SubSeq(All, 1, i))
           = IF i > 1 /\ All[i - 1] = All[i] THEN D!Collapse(SubSeq(All, 1, i - 1))
             ELSE Append(D!Collapse(SubSeq(All, 1, i - 1)), All[i])
    BY <1>1, <1>3, CollapseOne
  <2> QED BY <1>2, <2>1, <2>2, Zenon
<1>6. CASE i <= L
  <2>1. k - L <= 0 /\ i - L <= 0 /\ i \in 1 .. L
    BY <1>2, <1>6
  <2>2. SubSeq(run, 1, k - L) = <<>> /\ SubSeq(run, 1, i - L) = <<>>
    BY <1>2, <1>3, <2>1
  <2>3. ~(All[i] >= HeapStart)
    BY <1>1, <2>1, AllFacts, SMTT(60) DEF UserPrograms
  <2>4. <<>> \in Seq(Nat) /\ D!Collapse(<<>>) = <<>>
    <3>1. <<>> \in Seq(Nat) /\ 0 \in Nat
      OBVIOUS
    <3> QED BY <3>1, CollapseAdd
  <2> QED BY <1>1, <1>2, <1>5, <2>2, <2>3, <2>4, Zenon
<1>7. CASE ~(i <= L)
  <2>1. PICK h \in 1 .. m : h = i - L /\ L + h = i /\ h - 1 = k - L
    <3>1. i - L \in 1 .. m /\ L + (i - L) = i /\ (i - L) - 1 = k - L
      BY <1>1, <1>2, <1>7
    <3> QED BY <3>1
  <2>2. All[i] = run[h] /\ run[h] >= HeapStart
    BY <1>1, <2>1, AllFacts
  <2>3. /\ D!Collapse(SubSeq(run, 1, h - 1)) \in Seq(Nat)
        /\ D!Collapse(SubSeq(run, 1, h))
           = IF h > 1 /\ run[h - 1] = run[h] THEN D!Collapse(SubSeq(run, 1, h - 1))
             ELSE Append(D!Collapse(SubSeq(run, 1, h - 1)), run[h])
    BY <1>1, <1>3, CollapseOne
  <2>4. (h > 1 /\ run[h - 1] = run[h]) <=> (k > 0 /\ All[k] = All[i])
    <3>1. CASE h > 1
      <4>1. h - 1 \in 1 .. m /\ L + (h - 1) = k /\ k > 0
        BY <1>2, <2>1, <3>1
      <4>2. All[k] = run[h - 1]
        BY <1>1, <4>1, AllFacts
      <4> QED BY <2>2, <3>1, <4>1, <4>2
    <3>2. CASE ~(h > 1) /\ k > 0
      <4>1. k \in 1 .. L
        BY <1>2, <2>1, <3>2
      <4>2. All[k] < HeapStart /\ All[k] \in Nat /\ All[i] \in Nat /\ HeapStart \in Nat
        <5>1. All[k] < HeapStart
          BY <1>1, <4>1, AllFacts
        <5>2. k \in 1 .. n
          BY <1>1, <4>1
        <5>3. All[k] \in Nat /\ All[i] \in Nat
          <6>1. PICK a \in Seq(Nat) : a = All
            BY <1>3
          <6>2. Len(a) = n /\ i \in 1 .. n
            BY <1>1, <6>1
          <6>3. a[k] \in Nat /\ a[i] \in Nat
            BY <5>2, <6>2
          <6> QED BY <6>1, <6>3
        <5> QED BY <5>1, <5>3 DEF UserPrograms
      <4>3. All[k] # All[i]
        BY <2>2, <4>2
      <4> QED BY <3>2, <4>3
    <3>3. CASE ~(h > 1) /\ ~(k > 0)
      BY <3>3
    <3> QED BY <3>1, <3>2, <3>3
  <2> QED BY <1>1, <1>2, <1>5, <2>1, <2>2, <2>3, <2>4, Zenon
<1> QED BY <1>6, <1>7

LEMMA StepInit == UserPrograms /\ DebugConstants /\ D!Init => StepInv
  BY DEF DebugConstants, D!Init, D!Reset, StepInv

\* user_mode_run_fn, with the breakpoint that nothing executed matches.
LEMMA RunUserSteps == UserPrograms /\ StepInv /\ D!RunUser => StepInv'
<1> SUFFICES ASSUME UserPrograms, StepInv, D!RunUser PROVE StepInv'
  OBVIOUS
<1>1. /\ part # "debug" /\ at = "start" /\ at' = "run" /\ UNCHANGED <<part, run, n_faults>>
      /\ part # "raw" => path' = All /\ mode' = "user"
      /\ part \in {"single", "pc"} => bp' = D!mismatch(0) /\ monitor' = TRUE
      /\ part = "pc" => pc_hash' = <<>>
  BY DEF D!RunUser, D!single_step_run_fn, D!equiv_run_fn, All
<1>2. CASE part \in {"single", "pc"}
  <2>1. run \in Runs /\ n_faults = 0 /\ All' = All
    BY <1>1, <1>2 DEF StepInv, All
  <2>2. PICK n \in Nat : n = Len(All) /\ n > 0
    BY <2>1, AllFacts
  <2>3. All \in Seq(Nat) /\ run \in Seq(Nat) /\ Len(Switch) \in Nat
    BY <2>1, AllFacts
  <2>4. SubSeq(All, 1, n) = All /\ SubSeq(All, 1, 0) = <<>> /\ SubSeq(run, 1, 0 - Len(Switch)) = <<>>
    BY <2>2, <2>3
  <2>5. D!Collapse(<<>>) = <<>> /\ Len(<<>>) = 0
    <3>1. <<>> \in Seq(Nat) /\ 0 \in Nat /\ Len(<<>>) = 0
      OBVIOUS
    <3> QED BY <3>1, CollapseAdd
  <2>6. Reached(0)'
    BY <1>1, <1>2, <2>1, <2>4, <2>5, Zenon DEF Reached
  <2>7. path' = SubSeq(All', 0 + 1, Len(All'))
    BY <1>1, <1>2, <2>1, <2>2, <2>4
  <2>8. Stepped(0, 0)'
    BY <1>1, <1>2, <2>1, <2>2, <2>6, <2>7 DEF Stepped, D!mismatch
  <2> QED BY <1>1, <1>2, <2>1, <2>8 DEF StepInv
<1>3. CASE part \notin {"single", "pc"}
  BY <1>1, <1>3 DEF StepInv
<1> QED BY <1>2, <1>3

\* The next instruction.
LEMMA NextInstruction ==
  ASSUME UserPrograms, run \in Runs, NEW k \in Nat, k < Len(All), path = SubSeq(All, k + 1, Len(All))
  PROVE  /\ D!pc = All[k + 1] /\ D!pc \in Nat /\ D!pc # 0
         /\ Tail(path) = SubSeq(All, (k + 1) + 1, Len(All)) /\ (Tail(path) = <<>> <=> k + 1 = Len(All))
<1>1. PICK a \in Seq(Nat), n \in Nat : a = All /\ n = Len(a)
  BY AllFacts
<1>2. PICK p : p = SubSeq(a, k + 1, n)
  OBVIOUS
<1>a. PICK m \in Nat : n = k + m /\ m > 0 /\ m = n - k
  <2>1. n - k \in Nat /\ n = k + (n - k) /\ n - k > 0
    BY <1>1
  <2> QED BY <2>1
<1>b. k + 1 \in Nat /\ k + 2 \in Nat
  OBVIOUS
<1>3. p \in Seq(Nat) /\ Len(p) = m /\ p # <<>> /\ \A i \in 1 .. m : p[i] = a[k + i]
  <2>a. (\A i \in k + 1 .. n : a[i] \in Nat) /\ k + 1 \in Int /\ n \in Int
    BY <1>1
  <2>b. /\ SubSeq(a, k + 1, n) \in Seq(Nat)
        /\ Len(SubSeq(a, k + 1, n)) = IF k + 1 <= n THEN n - (k + 1) + 1 ELSE 0
    BY <2>a, SubSeqProperties
  <2>1. p \in Seq(Nat)
    BY <1>2, <2>b, Zenon
  <2>2. Len(p) = m
    BY <1>1, <1>2, <1>a, <2>b
  <2>3. \A i \in 1 .. m : p[i] = a[k + i]
    <3> TAKE i \in 1 .. m
    <3>1. p[i] = a[(k + 1) + i - 1] /\ (k + 1) + i - 1 = k + i
      BY <1>1, <1>2, <1>a, <1>b
    <3> QED BY <3>1
  <2>4. p # <<>>
    BY <2>2, <1>a
  <2> QED BY <2>1, <2>2, <2>3, <2>4
<1>4. Head(p) = a[k + 1] /\ a[k + 1] \in Nat
  <2>1. 1 \in 1 .. m /\ k + 1 \in 1 .. n
    BY <1>a
  <2>2. Head(p) = p[1]
    BY <1>3
  <2>3. p[1] = a[k + 1]
    BY <1>3, <2>1
  <2> QED BY <1>1, <2>1, <2>2, <2>3
<1>5. Tail(p) = SubSeq(a, (k + 1) + 1, n) /\ (Tail(p) = <<>> <=> k + 1 = n)
  <2>1. PICK q : q = SubSeq(a, k + 2, n)
    OBVIOUS
  <2>0. PICK t : t = Tail(p)
    OBVIOUS
  <2>c. PICK l \in Nat : m = l + 1
    <3>1. m - 1 \in Nat /\ m = (m - 1) + 1
      BY <1>a
    <3> QED BY <3>1
  <2>2. q \in Seq(Nat) /\ Len(q) = l
    <3>a. (\A i \in k + 2 .. n : a[i] \in Nat) /\ k + 2 \in Int /\ n \in Int
      BY <1>1
    <3>b. /\ SubSeq(a, k + 2, n) \in Seq(Nat)
          /\ Len(SubSeq(a, k + 2, n)) = IF k + 2 <= n THEN n - (k + 2) + 1 ELSE 0
      BY <3>a, SubSeqProperties
    <3>1. q \in Seq(Nat)
      BY <2>1, <3>b, Zenon
    <3>2. Len(q) = l
      BY <1>1, <1>a, <2>1, <2>c, <3>b
    <3> QED BY <3>1, <3>2
  <2>3. t \in Seq(Nat) /\ Len(t) = l
    BY <1>3, <2>0, <2>c
  <2>4. ASSUME NEW i \in 1 .. l PROVE t[i] = q[i]
    <3>1. i + 1 \in 1 .. m /\ k + (i + 1) = (k + 2) + i - 1
      BY <2>c
    <3>2. t[i] = p[i + 1]
      BY <1>3, <2>0, <2>c
    <3>3. q[i] = a[(k + 2) + i - 1]
      <4>1. i \in 1 .. (n - (k + 2)) + 1
        BY <1>a, <2>c
      <4> QED BY <1>1, <1>b, <2>1, <4>1, SMTT(60)
    <3> QED BY <1>3, <3>1, <3>2, <3>3
  <2>5. t = q
    BY <2>2, <2>3, <2>4
  <2>6. t = <<>> <=> k + 1 = n
    <3>1. k + 1 = n <=> l = 0
      BY <1>a, <2>c
    <3>2. t = <<>> <=> Len(t) = 0
      BY <2>3
    <3> QED BY <2>3, <3>1, <3>2
  <2>7. (k + 1) + 1 = k + 2
    OBVIOUS
  <2> QED BY <2>0, <2>1, <2>5, <2>6, <2>7, Zenon
<1>6. a[k + 1] # 0
  <2>1. PICK L \in Nat, h \in Nat : L = Len(Switch) /\ h = Len(run) /\ n = L + h
    BY <1>1, AllFacts
  <2>2. CASE k + 1 <= L
    <3>1. k + 1 \in 1 .. L
      BY <2>2
    <3> QED BY <1>1, <2>1, <3>1, AllFacts
  <2>3. CASE ~(k + 1 <= L)
    <3>1. (k + 1) - L \in 1 .. h /\ L + ((k + 1) - L) = k + 1
      BY <1>1, <2>1, <2>3
    <3>2. a[k + 1] >= HeapStart
      BY <1>1, <2>1, <3>1, AllFacts
    <3> QED BY <1>4, <3>2 DEF UserPrograms
  <2> QED BY <2>2, <2>3
<1> QED BY <1>1, <1>2, <1>4, <1>5, <1>6, Zenon DEF D!pc

\* prefetch_abort_single_step and prefetch_abort_equiv_pc see an instruction
\* that they have not seen.
LEMMA StepSteps == UserPrograms /\ StepInv /\ D!Step => StepInv'
<1> SUFFICES ASSUME UserPrograms, StepInv, D!Step PROVE StepInv'
  OBVIOUS
<1>1. /\ part \in {"single", "pc"} /\ at = "run" /\ D!BrkptFires
      /\ UNCHANGED <<part, at, path, run, mode, monitor>> /\ bp' = D!mismatch(D!pc)
  BY DEF D!Step, D!Running, D!prefetch_abort_single_step, D!prefetch_abort_equiv_pc
<1>2. run \in Runs /\ All' = All
  BY <1>1 DEF StepInv, All
<1>3. PICK k \in Nat, j \in Nat : Stepped(k, j)
  BY <1>1 DEF StepInv
<1>4. /\ k < Len(All) /\ path = SubSeq(All, k + 1, Len(All)) /\ j \in {k, k + 1}
      /\ mode = "user" /\ monitor /\ bp = D!mismatch(IF j = 0 THEN 0 ELSE All[j]) /\ Reached(j)
  BY <1>1, <1>3 DEF Stepped
<1>5. D!pc = All[k + 1] /\ D!pc \in Nat
  BY <1>2, <1>4, NextInstruction
<1>6. D!pc # (IF j = 0 THEN 0 ELSE All[j])
  <2>1. bp.mis = TRUE /\ bp.addr = IF j = 0 THEN 0 ELSE All[j]
    BY <1>4 DEF D!mismatch
  <2> QED BY <1>1, <2>1 DEF D!BrkptFires
<1>7. j = k /\ ~(k > 0 /\ All[k] = All[k + 1])
  <2>1. j # k + 1
    BY <1>5, <1>6
  <2> QED BY <1>4, <1>5, <1>6, <2>1
<1>8. /\ D!Collapse(SubSeq(All, 1, k)) \in Seq(Nat)
      /\ D!Collapse(SubSeq(All, 1, k + 1)) = Append(D!Collapse(SubSeq(All, 1, k)), All[k + 1])
      /\ D!Collapse(SubSeq(run, 1, (k + 1) - Len(Switch)))
         = IF All[k + 1] >= HeapStart THEN Append(D!Collapse(SubSeq(run, 1, k - Len(Switch))), All[k + 1])
           ELSE D!Collapse(SubSeq(run, 1, k - Len(Switch)))
  BY <1>2, <1>4, <1>7, OneSeen, Zenon
<1>9. Reached(k + 1)'
  <2>1. CASE part = "single"
    <3>1. n_faults' = n_faults + 1 /\ n_faults = Len(D!Collapse(SubSeq(All, 1, k)))
      BY <1>4, <1>7, <2>1 DEF D!Step, D!prefetch_abort_single_step, Reached
    <3>2. PICK c \in Seq(Nat) : c = D!Collapse(SubSeq(All, 1, k))
      BY <1>8
    <3>3. Len(Append(c, D!pc)) = Len(c) + 1
      BY <1>5
    <3>4. n_faults' = Len(D!Collapse(SubSeq(All, 1, k + 1)))
      BY <1>5, <1>8, <3>1, <3>2, <3>3, Zenon
    <3>5. part' = "single" /\ part' # "pc"
      BY <1>1, <2>1
    <3> QED BY <1>2, <3>4, <3>5, Zenon DEF Reached
  <2>2. CASE part = "pc"
    <3>1. pc_hash' = (IF D!pc >= HeapStart THEN Append(pc_hash, D!pc) ELSE pc_hash)
          /\ pc_hash = D!Collapse(SubSeq(run, 1, k - Len(Switch)))
      BY <1>4, <1>7, <2>2 DEF D!Step, D!prefetch_abort_equiv_pc, D!user_pc, Reached
    <3>2. pc_hash' = D!Collapse(SubSeq(run, 1, (k + 1) - Len(Switch)))
      BY <1>5, <1>8, <3>1, Zenon
    <3>3. part' = "pc" /\ part' # "single" /\ run' = run
      BY <1>1, <2>2
    <3> QED BY <3>2, <3>3, Zenon DEF Reached
  <2> QED BY <1>1, <2>1, <2>2
<1>10. bp' = D!mismatch(IF k + 1 = 0 THEN 0 ELSE All[k + 1])
  <2>1. k + 1 # 0
    OBVIOUS
  <2> QED BY <1>1, <1>5, <2>1, Zenon
<1>11. Stepped(k, k + 1)'
  <2>1. /\ k + 1 \in {k, k + 1} /\ k + 1 <= Len(All) /\ k \in 0 .. Len(All)
        /\ at' = "run" /\ at' # "exit" /\ k < Len(All) /\ mode' = "user" /\ monitor'
    BY <1>1, <1>2, <1>4, AllFacts
  <2>2. path' = SubSeq(All, k + 1, Len(All))
    BY <1>1, <1>4
  <2> QED BY <1>2, <1>9, <1>10, <2>1, <2>2, Zenon DEF Stepped
<1>12. k + 1 \in Nat
  OBVIOUS
<1> QED BY <1>1, <1>2, <1>11, <1>12 DEF StepInv

\* An instruction that is executed has been seen, or is the one before again.
LEMMA ExecuteSteps == UserPrograms /\ StepInv /\ D!Execute => StepInv'
<1> SUFFICES ASSUME UserPrograms, StepInv, D!Execute PROVE StepInv'
  OBVIOUS
<1>1. /\ at = "run" /\ ~D!BrkptFires /\ path' = Tail(path) /\ at' = IF path' = <<>> THEN "exit" ELSE at
      /\ UNCHANGED <<part, run, mode, monitor, bp, n_faults, pc_hash>>
  BY DEF D!Execute, D!Running, D!regs
<1>2. CASE part \in {"single", "pc"}
  <2>1. run \in Runs /\ All' = All
    BY <1>1, <1>2 DEF StepInv, All
  <2>2. PICK k \in Nat, j \in Nat : Stepped(k, j)
    BY <1>1, <1>2 DEF StepInv
  <2>3. /\ k < Len(All) /\ path = SubSeq(All, k + 1, Len(All)) /\ j \in {k, k + 1}
        /\ mode = "user" /\ monitor /\ bp = D!mismatch(IF j = 0 THEN 0 ELSE All[j]) /\ Reached(j)
    BY <1>1, <2>2 DEF Stepped
  <2>4. /\ D!pc = All[k + 1] /\ D!pc \in Nat /\ D!pc # 0
        /\ Tail(path) = SubSeq(All, (k + 1) + 1, Len(All)) /\ (Tail(path) = <<>> <=> k + 1 = Len(All))
    BY <2>1, <2>3, NextInstruction
  <2>5. D!pc = IF j = 0 THEN 0 ELSE All[j]
    <3>1. bp.mis = TRUE /\ bp.on = TRUE /\ bp.addr = IF j = 0 THEN 0 ELSE All[j]
      BY <2>3 DEF D!mismatch
    <3> QED BY <1>1, <2>3, <3>1 DEF D!BrkptFires
  <2>6. j # 0 /\ All[j] = All[k + 1]
    BY <2>4, <2>5
  <2>7. Reached(k + 1)
    <3>1. CASE j = k + 1
      BY <2>3, <3>1
    <3>2. CASE j = k
      <4>1. k > 0 /\ All[k] = All[k + 1]
        BY <2>6, <3>2
      <4>2. /\ D!Collapse(SubSeq(All, 1, k + 1)) = D!Collapse(SubSeq(All, 1, k))
            /\ D!Collapse(SubSeq(run, 1, (k + 1) - Len(Switch))) = D!Collapse(SubSeq(run, 1, k - Len(Switch)))
        BY <2>1, <2>3, <4>1, OneSeen, Zenon
      <4> QED BY <2>3, <3>2, <4>2, Zenon DEF Reached
    <3> QED BY <2>3, <3>1, <3>2
  <2>8. Reached(k + 1)'
    BY <1>1, <2>1, <2>7 DEF Reached
  <2>9. bp' = D!mismatch(IF k + 1 = 0 THEN 0 ELSE All'[k + 1])
    <3>1. k + 1 # 0
      OBVIOUS
    <3> QED BY <1>1, <2>1, <2>3, <2>6, <3>1, Zenon
  <2>10. k + 1 \in 0 .. Len(All) /\ Len(All) \in Nat /\ k + 1 \in Nat
    BY <2>1, <2>3, AllFacts
  <2>11. (at' = "run" => k + 1 < Len(All)) /\ (at' = "exit" => k + 1 = Len(All))
    BY <1>1, <2>4, <2>10
  <2>12. Stepped(k + 1, k + 1)'
    <3>1. /\ k + 1 \in {k + 1, (k + 1) + 1} /\ k + 1 <= Len(All) /\ k + 1 \in 0 .. Len(All)
          /\ mode' = "user" /\ monitor'
      BY <1>1, <2>3, <2>10
    <3>2. path' = SubSeq(All, (k + 1) + 1, Len(All))
      BY <1>1, <2>4
    <3> QED BY <2>1, <2>8, <2>9, <2>11, <3>1, <3>2, Zenon DEF Stepped
  <2>13. at' # "start"
    BY <1>1
  <2> QED BY <1>1, <1>2, <2>1, <2>10, <2>12, <2>13 DEF StepInv
<1>3. CASE part \notin {"single", "pc"}
  BY <1>1, <1>3 DEF StepInv
<1> QED BY <1>2, <1>3

LEMMA StepKept ==
  StepInv /\ UNCHANGED <<part, at, path, mode, monitor, bp, n_faults, pc_hash, run>> => StepInv'
  BY DEF StepInv, Stepped, Reached, All

LEMMA StepNext == UserPrograms /\ StepInv /\ [D!Next]_(D!dvars) => StepInv'
<1> SUFFICES ASSUME UserPrograms, StepInv, [D!Next]_(D!dvars) PROVE StepInv'
  OBVIOUS
<1>1. CASE UNCHANGED D!dvars
  BY <1>1, StepKept DEF D!dvars, D!regs
<1>2. CASE part = "debug" /\ part' = "debug"
  BY <1>2 DEF StepInv
<1>3. CASE D!Reboot
  BY <1>3 DEF D!Reboot, StepInv
<1>4. D!DebugFaultInit \/ D!Client \/ D!DebugFault \/ D!Return \/ D!StrayAbort => part = "debug" /\ part' = "debug"
  BY DEF D!DebugFaultInit, D!Client, D!DebugFault, D!Return, D!StrayAbort
<1> QED BY <1>1, <1>2, <1>3, <1>4, RunUserSteps, StepSteps, ExecuteSteps DEF D!Next, D!Processor

\* What the handlers have counted, of what has been executed.
LEMMA StepsCounted == UserPrograms /\ StepInv => D!EachStepOnce
<1> SUFFICES ASSUME UserPrograms, StepInv PROVE D!EachStepOnce
  OBVIOUS
<1>1. ASSUME part = "pc", at \in {"run", "exit"}
      PROVE  pc_hash \in {D!Collapse(D!Executed)}
                         \union IF path = <<>> \/ Len(path) > Len(run) THEN {}
                                ELSE {D!Collapse(Append(D!Executed, D!pc))}
  <2>1. PICK k \in Nat, j \in Nat : Stepped(k, j)
    BY <1>1 DEF StepInv
  <2>2. run \in Runs
    BY <1>1 DEF StepInv
  <2>3. PICK L \in Nat, n \in Nat, m \in Nat :
          L = Len(Switch) /\ n = Len(All) /\ m = Len(run) /\ n = L + m
    BY <2>2, AllFacts
  <2>4. /\ k <= n /\ j \in {k, k + 1} /\ j <= n /\ path = SubSeq(All, k + 1, n)
        /\ pc_hash = D!Collapse(SubSeq(run, 1, j - L))
    BY <1>1, <2>1, <2>3 DEF Stepped, Reached
  <2>5. Len(path) = n - k
    <3>1. (\A i \in k + 1 .. n : All[i] \in Nat) /\ k + 1 \in Int /\ n \in Int
      <4>1. PICK a \in Seq(Nat) : a = All
        BY <2>2, AllFacts
      <4>2. Len(a) = n
        BY <2>3, <4>1
      <4>3. \A i \in k + 1 .. n : i \in 1 .. n /\ a[i] \in Nat
        BY <4>1, <4>2
      <4> QED BY <4>1, <4>3
    <3>2. Len(SubSeq(All, k + 1, n)) = IF k + 1 <= n THEN n - (k + 1) + 1 ELSE 0
      BY <3>1, SubSeqProperties
    <3> QED BY <2>4, <3>2
  <2>6. D!Executed = SubSeq(run, 1, k - L)
    <3>1. Len(run) - Len(path) = k - L
      BY <2>3, <2>5
    <3> QED BY <3>1, Zenon DEF D!Executed
  <2>7. CASE j = k
    BY <2>4, <2>6, <2>7
  <2>8. CASE j = k + 1 /\ k < L
    <3>1. k - L < 1 /\ j - L < 1
      BY <2>3, <2>8
    <3>2. SubSeq(run, 1, k - L) = <<>> /\ SubSeq(run, 1, j - L) = <<>>
      BY <2>3, <3>1, SubSeqEmpty
    <3> QED BY <2>4, <2>6, <3>2
  <2>9. CASE j = k + 1 /\ ~(k < L)
    <3>1. PICK i \in 1 .. m : i = j - L /\ i - 1 = k - L /\ L + i = k + 1
      <4>1. j - L \in 1 .. m /\ (j - L) - 1 = k - L /\ L + (j - L) = k + 1
        BY <2>3, <2>4, <2>9
      <4> QED BY <4>1
    <3>2. run \in Seq(Nat) /\ k < n /\ ~(Len(path) > Len(run)) /\ path # <<>>
      <4>1. k < n /\ Len(path) # 0 /\ ~(Len(path) > Len(run))
        BY <2>3, <2>4, <2>5, <2>9
      <4>2. Len(<<>>) = 0
        OBVIOUS
      <4> QED BY <2>2, <4>1, <4>2, AllFacts
    <3>3. D!pc = All[k + 1] /\ All[k + 1] = run[i]
      <4>1. D!pc = All[k + 1]
        BY <2>2, <2>3, <2>4, <3>2, NextInstruction
      <4>2. All[L + i] = run[i]
        BY <2>2, <2>3, AllFacts
      <4> QED BY <3>1, <4>1, <4>2
    <3>4. SubSeq(run, 1, i) = Append(SubSeq(run, 1, i - 1), run[i])
      BY <2>3, <3>2, Longer
    <3>5. pc_hash = D!Collapse(Append(D!Executed, D!pc))
      BY <2>4, <2>6, <3>1, <3>3, <3>4, Zenon
    <3> QED BY <3>2, <3>5
  <2> QED BY <2>4, <2>7, <2>8, <2>9
<1>2. ASSUME part = "single", at = "exit" PROVE n_faults = Len(D!Collapse(Switch \o run))
  <2>1. PICK k \in Nat, j \in Nat : Stepped(k, j)
    BY <1>2 DEF StepInv
  <2>2. run \in Runs
    BY <1>2 DEF StepInv
  <2>3. PICK n \in Nat : n = Len(All)
    BY <2>2, AllFacts
  <2>4. k = n /\ j \in {k, k + 1} /\ j <= n /\ n_faults = Len(D!Collapse(SubSeq(All, 1, j)))
    BY <1>2, <2>1, <2>3 DEF Stepped, Reached
  <2>5. j = n
    BY <2>4
  <2>6. SubSeq(All, 1, n) = All
    BY <2>2, <2>3, AllFacts
  <2> QED BY <2>4, <2>5, <2>6, Zenon DEF All
<1> QED BY <1>1, <1>2, Zenon DEF D!EachStepOnce

\* prefetch_abort_single_step and prefetch_abort_equiv_pc: whatever the program,
\* each of its instructions is counted or hashed when it is reached, in order and
\* once, the kernel's own leave no trace in the hash, and an instruction that
\* jumps to itself is counted once however often it is executed.
THEOREM DebugCountsEachStepOnce ==
  ASSUME DebugConstants, UserPrograms PROVE D!Spec => []D!EachStepOnce
<1>1. D!Init => StepInv
  BY StepInit
<1>2. StepInv /\ [D!Next]_(D!dvars) => StepInv'
  BY StepNext
<1>3. StepInv => D!EachStepOnce
  BY StepsCounted
<1>4. QED BY <1>1, <1>2, <1>3, PTL DEF D!Spec


\* An event that the handler has yet to count stands for an edge that it has
\* not, and for one to the level that it is going to read.
EdgesInv ==
  /\ event \in BOOLEAN /\ detect \in BOOLEAN
  /\ counted \in [Ways -> Nat] /\ edges \in [Ways -> Nat]
  /\ hpc \in {"out", "level", "clear"} /\ (hpc = "level" => event)
  /\ event /\ hpc # "clear" => counted[Way(level)] < edges[Way(level)]
  /\ NeverOvercounts

\* The handler's steps follow one another round.
LEMMA AfterStep ==
  After("out") = "level" /\ After("level") = "clear" /\ After("clear") = "out"
<1>1. Order[1] = "out" /\ Order[2] = "level" /\ Order[3] = "clear"
  BY DEF Order
<1>2. ASSUME NEW h, NEW i \in 1 .. 3, Order[i] = h, \A j \in 1 .. 3 : Order[j] = h => j = i
      PROVE  (CHOOSE j \in 1 .. 3 : Order[j] = h) = i
  BY <1>2
<1>3. /\ (CHOOSE j \in 1 .. 3 : Order[j] = "out") = 1
      /\ (CHOOSE j \in 1 .. 3 : Order[j] = "level") = 2
      /\ (CHOOSE j \in 1 .. 3 : Order[j] = "clear") = 3
  <2>1. 1 .. 3 = {1, 2, 3}
    OBVIOUS
  <2>2. QED BY <1>1, <1>2, <2>1
<1>4. (1 % 3) + 1 = 2 /\ (2 % 3) + 1 = 3 /\ (3 % 3) + 1 = 1
  OBVIOUS
<1>5. QED BY <1>1, <1>3, <1>4 DEF After

\* An edge to v leaves one to v uncounted.
LEMMA DriveKeeps ==
  ASSUME EdgesInv, NEW v, Drive(v), UNCHANGED <<hpc, detect, counted>>
  PROVE  EdgesInv'
<1> USE DEF EdgesInv, NeverOvercounts
<1>1. CASE v = level
  BY <1>1 DEF Drive
<1>2. CASE v # level
  <2>1. /\ level' = v /\ event' = (event \/ detect)
        /\ edges' = [edges EXCEPT ![Way(v)] = @ + 1] /\ Way(v) \in Ways
    BY <1>2 DEF Drive, Way, Ways
  <2>2. /\ edges' \in [Ways -> Nat] /\ edges'[Way(v)] = edges[Way(v)] + 1
        /\ \A w \in Ways : edges[w] <= edges'[w]
    BY <2>1
  <2>3. counted'[Way(v)] < edges'[Way(v)]
    BY <2>1, <2>2
  <2>4. NeverOvercounts'
    BY <2>2
  <2>5. Way(level)' = Way(v)
    BY <2>1 DEF Way
  <2>6. QED BY <2>1, <2>2, <2>3, <2>4, <2>5
<1>3. QED BY <1>1, <1>2

LEMMA HandlerKeeps == EdgesInv /\ GpioHandler => EdgesInv'
<1> SUFFICES ASSUME EdgesInv, GpioHandler PROVE EdgesInv'
  OBVIOUS
<1> USE DEF EdgesInv, NeverOvercounts
<1>1. hpc' = After(hpc) /\ UNCHANGED <<level, detect, edges>>
  BY DEF GpioHandler
<1>2. CASE hpc = "out" /\ event /\ UNCHANGED <<n_edge, counted, event>>
  <2>1. hpc' = "level"
    BY <1>1, <1>2, AfterStep
  <2>2. QED BY <1>1, <1>2, <2>1 DEF Way
<1>3. CASE hpc = "level" /\ counted' = [counted EXCEPT ![Way(level)] = @ + 1] /\ UNCHANGED event
  <2>1. hpc' = "clear"
    BY <1>1, <1>3, AfterStep
  <2>2. counted' \in [Ways -> Nat] /\ NeverOvercounts'
    <3>1. Way(level) \in Ways
      BY DEF Way, Ways
    <3>2. counted[Way(level)] + 1 <= edges[Way(level)]
      BY <1>3, <3>1
    <3>3. QED BY <1>1, <1>3, <3>1, <3>2
  <2>3. QED BY <1>1, <1>3, <2>1, <2>2
<1>4. CASE hpc = "clear" /\ event' = FALSE /\ UNCHANGED <<n_edge, counted>>
  <2>1. hpc' = "out"
    BY <1>1, <1>4, AfterStep
  <2>2. QED BY <1>1, <1>4, <2>1
<1>5. QED BY <1>2, <1>3, <1>4 DEF GpioHandler

LEMMA EdgesNext == EdgesInv /\ [Next]_vars => EdgesInv'
<1> SUFFICES ASSUME EdgesInv, [Next]_vars PROVE EdgesInv'
  OBVIOUS
<1>1. CASE UNCHANGED <<hpc, gpio>>
  BY <1>1 DEF gpio, EdgesInv, NeverOvercounts, Way
<1>2. CASE Detect
  BY <1>2 DEF Detect, EdgesInv, NeverOvercounts, Way
<1>3. CASE GpioWrite
  BY <1>3, DriveKeeps DEF GpioWrite
<1>4. CASE Assign
  BY <1>4 DEF Assign, EdgesInv, NeverOvercounts, Way
<1>5. CASE GpioHandler
  BY <1>5, HandlerKeeps
<1>6. CASE Bounce
  BY <1>6, DriveKeeps DEF Bounce
<1>7. CASE \/ Putc \/ UartInit \/ Flush \/ Reboot \/ EnableInterrupts \/ Delay \/ TestAssert
           \/ TimerInit \/ GprofInit \/ Loop \/ DumpOne \/ GprofHandler
           \/ Tick \/ Transmit \/ Echo \/ Unplug
  BY <1>1, <1>7 DEF Putc, UartInit, Flush, Reboot, EnableInterrupts, Delay, TestAssert,
       TimerInit, GprofInit, Loop, DumpOne, GprofHandler, Tick, Transmit, Echo, Unplug, gpio
<1>8. QED
  BY <1>1, <1>2, <1>3, <1>4, <1>5, <1>6, <1>7 DEF Next, Program, Handler, vars

\* interrupt_vector of the gpio test: whatever the wire does between its reads
\* of the event and of the level and its clearing of the event, no edge is
\* counted twice, nor one way for the other.
THEOREM HandlerNeverOvercounts == Spec => []NeverOvercounts
<1>1. Init => EdgesInv
  <2>1. Init => Reset
    BY DEF Init
  <2>2. Reset => EdgesInv
    <3>1. ASSUME Reset
          PROVE  /\ event = FALSE /\ detect = FALSE /\ hpc = "out"
                 /\ counted = [w \in Ways |-> 0] /\ edges = [w \in Ways |-> 0]
      BY <3>1 DEF Reset, Zeros
    <3>2. QED BY <3>1 DEF EdgesInv, NeverOvercounts
  <2>3. QED BY <2>1, <2>2
<1>2. EdgesInv => NeverOvercounts
  BY DEF EdgesInv
<1>3. QED BY <1>1, <1>2, EdgesNext, PTL DEF Spec

-----------------------------------------------------------------------------
(* Flattening a sequence of sequences.                                     *)

\* f flattens the first n elements of s, prefix by prefix.
IsFlat(f, s, n) ==
  f = [i \in 1 .. n |-> IF i = 1 THEN s[i] ELSE f[i - 1] \o s[i]]

LEMMA FlatExists ==
  ASSUME NEW s, NEW n \in Nat
  PROVE  \E f : IsFlat(f, s, n)
<1> DEFINE T == {m \in Nat : ~ \E f : IsFlat(f, s, m)}
<1>1. SUFFICES ASSUME T # {} PROVE FALSE
  OBVIOUS
<1>2. PICK m \in T : \A i \in T : m <= i
  BY <1>1, NatLeast
<1>3. m # 0
  <2>1. IsFlat([i \in 1 .. 0 |-> s], s, 0)
    BY DEF IsFlat
  <2> QED BY <2>1, <1>2
<1>4. PICK f : IsFlat(f, s, m - 1)
  BY <1>2, <1>3
<1> DEFINE g == [i \in 1 .. m |-> IF i = m THEN (IF m = 1 THEN s[m] ELSE f[m - 1] \o s[m]) ELSE f[i]]
<1>5. \A i \in 1 .. m : g[i] = IF i = 1 THEN s[i] ELSE g[i - 1] \o s[i]
  <2> TAKE i \in 1 .. m
  <2>1. ASSUME i # m PROVE g[i] = f[i] /\ f[i] = IF i = 1 THEN s[i] ELSE f[i - 1] \o s[i]
    <3>1. i \in 1 .. m - 1
      BY <2>1, <1>2
    <3> QED BY <1>4, <2>1, <3>1 DEF IsFlat
  <2>2. i # 1 => g[i - 1] = f[i - 1]
    OBVIOUS
  <2>3. i = m => g[i] = IF m = 1 THEN s[m] ELSE f[m - 1] \o s[m]
    OBVIOUS
  <2> HIDE DEF g
  <2> QED BY <2>1, <2>2, <2>3
<1>6. IsFlat(g, s, m)
  <2>1. g = [i \in 1 .. m |-> g[i]]
    OBVIOUS
  <2> HIDE DEF g
  <2> QED BY <1>5, <2>1, Zenon DEF IsFlat
<1> QED BY <1>2, <1>6

\* Flattening keeps the type of the elements.
LEMMA FlatType ==
  ASSUME NEW E, NEW s \in Seq(Seq(E)), NEW f, IsFlat(f, s, Len(s))
  PROVE  \A i \in 1 .. Len(s) : f[i] \in Seq(E)
<1> DEFINE T == {i \in 1 .. Len(s) : f[i] \notin Seq(E)}
<1>1. SUFFICES ASSUME T # {} PROVE FALSE
  OBVIOUS
<1>2. T \in SUBSET Nat
  OBVIOUS
<1>3. PICK i \in T : \A j \in T : i <= j
  BY <1>1, <1>2, NatLeast
<1>4. i \in 1 .. Len(s) /\ s[i] \in Seq(E)
  BY ElementOfSeq
<1>5. f[i] = IF i = 1 THEN s[i] ELSE f[i - 1] \o s[i]
  BY <1>4 DEF IsFlat
<1>6. i # 1 => f[i - 1] \in Seq(E)
  BY <1>3, <1>4
<1>7. i # 1 => f[i - 1] \o s[i] \in Seq(E)
  BY <1>4, <1>6, ConcatProperties
<1> QED BY <1>4, <1>5, <1>7

LEMMA FlattenIsFlat ==
  ASSUME NEW E, NEW s \in Seq(E)
  PROVE  IF s = <<>> THEN FlattenSeq(s) = <<>>
                     ELSE \E f : IsFlat(f, s, Len(s)) /\ FlattenSeq(s) = f[Len(s)]
<1>1. Len(s) \in Nat /\ (Len(s) = 0 <=> s = <<>>)
  BY LenProperties, EmptySeq
<1>2. CASE s = <<>>
  BY <1>1, <1>2, Zenon DEF FlattenSeq
<1>3. CASE s # <<>>
  <2> DEFINE f == CHOOSE f : IsFlat(f, s, Len(s))
  <2>1. IsFlat(f, s, Len(s))
    BY <1>1, FlatExists, Zenon
  <2>2. FlattenSeq(s) = f[Len(s)]
    BY <1>1, <1>3, Zenon DEF FlattenSeq, IsFlat
  <2> QED BY <1>3, <2>1, <2>2, Zenon
<1> QED BY <1>2, <1>3

LEMMA FlattenType ==
  ASSUME NEW E, NEW s \in Seq(Seq(E))
  PROVE  FlattenSeq(s) \in Seq(E)
<1>1. CASE s = <<>>
  BY <1>1, FlattenIsFlat, EmptySeq
<1>2. CASE s # <<>>
  <2>1. PICK f : IsFlat(f, s, Len(s)) /\ FlattenSeq(s) = f[Len(s)]
    BY <1>2, FlattenIsFlat
  <2>2. Len(s) \in 1 .. Len(s)
    BY <1>2, LenProperties, EmptySeq
  <2> QED BY <2>1, <2>2, FlatType
<1> QED BY <1>1, <1>2

-----------------------------------------------------------------------------
(* pi_done.                                                                *)

\* the loop's body, which pi_done leaves when the message is complete
PosStep(p, c) == IF p = 8 THEN p ELSE Match(p, c)

\* f folds the characters of s, from b on.
PosFold(f, s, b) ==
  f = [x \in SUBSET DOMAIN s |-> IF x = {} THEN b ELSE PosStep(f[x \ {Max(x)}], s[Max(x)])]

LEMMA PosStepType ==
  ASSUME NEW p \in 0 .. 8, NEW c
  PROVE  PosStep(p, c) \in 0 .. 8
  BY DEF PosStep, Match

LEMMA PosFoldExists ==
  ASSUME NEW E, NEW s \in Seq(E), NEW b \in 0 .. 8
  PROVE  \E f : PosFold(f, s, b)
<1>1. PICK n \in Nat : n = Len(s) /\ DOMAIN s = 1 .. n
  OBVIOUS
<1>2. PICK S : S = 1 .. n
  OBVIOUS
<1>3. PICK c : c = [x \in SUBSET S |-> Max(x)]
  OBVIOUS
<1>4. PICK V : V = 0 .. 8
  OBVIOUS
<1>5. PICK g : g = [x \in SUBSET S |-> [p \in V |-> PosStep(p, s[c[x]])]]
  OBVIOUS
<1>6. Chooses(c, S)
  BY <1>2, <1>3, MaxFacts DEF Chooses
<1>7. Turns(g, S, V)
  BY <1>4, <1>5, PosStepType DEF Turns
<1>8. IsFiniteSet(S) /\ b \in V
  BY <1>2, <1>4, FS_Interval
<1>9. PICK f \in [SUBSET S -> V] : Recurs(f, SUBSET S, b, c, g)
  BY <1>6, <1>7, <1>8, RecursExists, Zenon
<1>10. f = [x \in SUBSET S |-> IF x = {} THEN b ELSE g[x][f[x \ {c[x]}]]]
  BY <1>9 DEF Recurs
<1>11. ASSUME NEW x \in SUBSET S
       PROVE  (IF x = {} THEN b ELSE g[x][f[x \ {c[x]}]])
              = IF x = {} THEN b ELSE PosStep(f[x \ {Max(x)}], s[Max(x)])
  <2>1. x \ {c[x]} \in SUBSET S
    OBVIOUS
  <2>2. f[x \ {c[x]}] \in V
    BY <2>1
  <2>3. c[x] = Max(x)
    BY <1>3
  <2>4. g[x][f[x \ {c[x]}]] = PosStep(f[x \ {c[x]}], s[c[x]])
    BY <1>5, <2>2
  <2> QED BY <2>3, <2>4, Zenon
<1>12. f = [x \in SUBSET S |-> IF x = {} THEN b ELSE PosStep(f[x \ {Max(x)}], s[Max(x)])]
  BY <1>10, <1>11, Zenon
<1>13. SUBSET S = SUBSET DOMAIN s
  BY <1>1, <1>2
<1> QED BY <1>12, <1>13, Zenon DEF PosFold

\* F runs through s from b on.
PosRun(F, s, b) == /\ F \in [0 .. Len(s) -> 0 .. 8] /\ F[0] = b
                   /\ \A k \in 1 .. Len(s) : F[k] = PosStep(F[k - 1], s[k])

LEMMA PosFoldRuns ==
  ASSUME NEW E, NEW s \in Seq(E), NEW b \in 0 .. 8, NEW f, PosFold(f, s, b)
  PROVE  \E F : PosRun(F, s, b) /\ f[DOMAIN s] = F[Len(s)]
<1>1. PICK n \in Nat : n = Len(s) /\ DOMAIN s = 1 .. n
  OBVIOUS
<1>2. PICK F : F = [k \in 0 .. n |-> f[1 .. k]]
  OBVIOUS
<1>3. F[0] = b
  <2>1. 1 .. 0 = {} /\ {} \in SUBSET DOMAIN s
    OBVIOUS
  <2>2. f[{}] = b
    BY <2>1, Zenon DEF PosFold
  <2> QED BY <1>2, <2>1, <2>2
<1>4. ASSUME NEW k \in 1 .. n PROVE F[k] = PosStep(F[k - 1], s[k])
  <2>1. 1 .. k \in SUBSET DOMAIN s /\ k \in 0 .. n /\ k - 1 \in 0 .. n
    BY <1>1
  <2>2. Max(1 .. k) = k /\ (1 .. k) \ {k} = 1 .. k - 1 /\ 1 .. k # {}
    BY MaxFacts
  <2>3. f[1 .. k] = PosStep(f[(1 .. k) \ {Max(1 .. k)}], s[Max(1 .. k)])
    BY <2>1, <2>2, Zenon DEF PosFold
  <2>4. f[1 .. k] = PosStep(f[1 .. k - 1], s[k])
    BY <2>2, <2>3, Zenon
  <2>5. F[k] = f[1 .. k] /\ F[k - 1] = f[1 .. k - 1]
    BY <1>2, <2>1
  <2> QED BY <2>4, <2>5, Zenon
<1>5. \A k \in 0 .. n : F[k] \in 0 .. 8
  <2> DEFINE T == {k \in 0 .. n : F[k] \notin 0 .. 8}
  <2>1. SUFFICES ASSUME T # {} PROVE FALSE
    OBVIOUS
  <2>2. T \in SUBSET Nat
    OBVIOUS
  <2>3. PICK k \in T : \A m \in T : k <= m
    BY <2>1, <2>2, NatLeast
  <2>4. k \in 1 .. n /\ k - 1 \in 0 .. n /\ k - 1 \notin T
    BY <1>3, <2>3
  <2>5. F[k - 1] \in 0 .. 8
    BY <2>4
  <2> QED BY <1>4, <2>3, <2>4, <2>5, PosStepType
<1>6. F \in [0 .. n -> 0 .. 8]
  BY <1>2, <1>5
<1>7. F[n] = f[DOMAIN s]
  <2>1. n \in 0 .. n
    OBVIOUS
  <2> QED BY <1>1, <1>2, <2>1
<1> QED BY <1>1, <1>3, <1>4, <1>6, <1>7 DEF PosRun

\* pi_done of a buffer without a NUL.
LEMMA PosRuns ==
  ASSUME NEW E, NEW s \in Seq(E), pos \in 0 .. 8, Nul \notin Range(s)
  PROVE  \E F : PosRun(F, s, pos) /\ Pos(s) = F[Len(s)]
<1>1. Visible(s) = s
  BY DEF Visible
<1>2. PICK f : f = CHOOSE h : PosFold(h, s, pos)
  OBVIOUS
<1>3. PosFold(f, s, pos)
  BY <1>2, PosFoldExists, Zenon
<1>4. Pos(s) = f[DOMAIN s]
  BY <1>1, <1>2, Zenon DEF Pos, FoldLeft, MapThenFoldSet, PosFold, PosStep
<1> QED BY <1>3, <1>4, PosFoldRuns, Zenon

-----------------------------------------------------------------------------
(* What a program still has to do.                                         *)

\* The elements of two sequences, one behind the other.
LEMMA Joined ==
  ASSUME NEW E, NEW p \in Seq(E), NEW q \in Seq(E)
  PROVE  /\ p \o q \in Seq(E) /\ Len(p \o q) = Len(p) + Len(q)
         /\ \A i \in 1 .. Len(p) : (p \o q)[i] = p[i]
         /\ \A i \in 1 .. Len(q) : (p \o q)[Len(p) + i] = q[i]
  OBVIOUS

\* What is printed.
TextChar == UNION {Range(t) : t \in Texts}
OwnChar  == {"x", "D", "O", "N", "E", "!", "nl", Panic}
Char     == TextChar \cup OwnChar

\* The steps of the programs.
Step == {<<"puts", t>> : t \in Seq(Char)}
   \cup {<<k>> : k \in {"settle", "reboot", "flush", "delay", "uart_init", "detect", "irqs",
                        "timer", "gprof_init"}}
   \cup {<<"write", v>> : v \in {0, 1}}
   \cup {<<k, w>> : k \in {"zero", "save", "more"}, w \in Ways}
   \cup {<<"assert", w, n>> : w \in Ways, n \in Nat}
   \cup {<<k, n>> : k \in {"loop", "dump"}, n \in Nat}

\* Those whose place in a program matters to what it prints.
Placed == {"uart_init", "settle", "reboot"}

\* No step of s but the first is one of them, and that one is uart_init.
Opening(s) == /\ s \in Seq(Step)
              /\ \A i \in 1 .. Len(s) : s[i][1] \in Placed => i = 1 /\ s[i][1] = "uart_init"

\* uart_init comes first, a reboot last, and before it what clean_reboot does.
Chained(s) ==
  /\ s \in Seq(Step)
  /\ \A i \in 1 .. Len(s) :
       /\ s[i][1] = "uart_init" => i = 1
       /\ s[i][1] = "settle" => i = 1 \/ s[i - 1][1] = "flush"
       /\ s[i][1] = "reboot" => i = Len(s) /\ (i = 1 \/ s[i - 1][1] = "settle")

LEMMA CharFacts ==
  /\ None \notin Char /\ Texts \subseteq Seq(Char) /\ <<"x">> \in Seq(Char)
  /\ ExitString \in Seq(Char) /\ <<Panic>> \in Seq(Char)
<1>1. ASSUME NEW t \in Texts
      PROVE  t \in Seq(Char) /\ \A c \in Range(t) : c # None
  <2>1. t \in Seq(Range(t) \ {None, Panic}) /\ t \in Seq(Range(t)) /\ Len(t) \in Nat
    BY TextAssumption
  <2>2. Range(t) \subseteq Char
    BY Zenon DEF Char, TextChar
  <2>3. \A i \in 1 .. Len(t) : t[i] \in Char /\ t[i] # None
    BY <2>1, <2>2
  <2>4. DOMAIN t = 1 .. Len(t)
    BY <2>1
  <2>5. t \in Seq(Char)
    BY <2>1, <2>2
  <2> QED BY <2>3, <2>4, <2>5 DEF Range
<1>2. None \notin Char
  <2>1. None \notin OwnChar
    BY DEF OwnChar, None, Panic
  <2>2. None \notin TextChar
    BY <1>1, Zenon DEF TextChar
  <2> QED BY <2>1, <2>2 DEF Char
<1>3. "x" \in Char /\ Panic \in Char /\ \A c \in {"D", "O", "N", "E", "!", "nl"} : c \in Char
  BY DEF Char, OwnChar
<1>4. ExitString \in Seq(Char)
  BY <1>3 DEF ExitString
<1> QED BY <1>1, <1>2, <1>3, <1>4

LEMMA StepFacts ==
  /\ \A t \in Seq(Char) : <<"puts", t>> \in Step
  /\ \A k \in {"settle", "reboot", "flush", "delay", "uart_init", "detect", "irqs", "timer",
               "gprof_init"} : <<k>> \in Step
  /\ \A v \in {0, 1} : <<"write", v>> \in Step
  /\ \A k \in {"zero", "save", "more"}, w \in Ways : <<k, w>> \in Step
  /\ \A w \in Ways, n \in Nat : <<"assert", w, n>> \in Step
  /\ \A k \in {"loop", "dump"}, n \in Nat : <<k, n>> \in Step
<1>1. \A t \in Seq(Char) : <<"puts", t>> \in Step
  BY DEF Step
<1>2. \A k \in {"settle", "reboot", "flush", "delay", "uart_init", "detect", "irqs", "timer",
               "gprof_init"} : <<k>> \in Step
  BY DEF Step
<1>3. \A v \in {0, 1} : <<"write", v>> \in Step
  BY DEF Step
<1>4. \A k \in {"zero", "save", "more"}, w \in Ways : <<k, w>> \in Step
  BY DEF Step
<1>5. \A w \in Ways, n \in Nat : <<"assert", w, n>> \in Step
  BY DEF Step
<1>6. \A k \in {"loop", "dump"}, n \in Nat : <<k, n>> \in Step
  BY DEF Step
<1> QED BY <1>1, <1>2, <1>3, <1>4, <1>5, <1>6

\* A text is the argument of a puts.
LEMMA PutsArg ==
  ASSUME NEW s \in Step, s[1] = "puts"
  PROVE  s[2] \in Seq(Char)
  BY DEF Step

LEMMA Single ==
  ASSUME NEW s \in Step
  PROVE  <<s>> \in Seq(Step) /\ Len(<<s>>) = 1 /\ <<s>>[1] = s
  OBVIOUS

LEMMA OpeningSingle ==
  ASSUME NEW s \in Step, s[1] \notin Placed \/ s[1] = "uart_init"
  PROVE  Opening(<<s>>)
  BY Single DEF Opening

LEMMA OpeningConcat ==
  ASSUME NEW p, NEW q, Opening(p), Opening(q), q = <<>> \/ q[1][1] \notin Placed
  PROVE  Opening(p \o q)
<1>1. p \in Seq(Step) /\ q \in Seq(Step) /\ Len(p) \in Nat /\ Len(q) \in Nat
  BY DEF Opening
<1>2. /\ p \o q \in Seq(Step) /\ Len(p \o q) = Len(p) + Len(q)
      /\ \A i \in 1 .. Len(p) : (p \o q)[i] = p[i]
      /\ \A i \in Len(p) + 1 .. Len(p) + Len(q) : (p \o q)[i] = q[i - Len(p)]
  BY <1>1
<1>3. ASSUME NEW i \in 1 .. Len(p) + Len(q), (p \o q)[i][1] \in Placed
      PROVE  i = 1 /\ (p \o q)[i][1] = "uart_init"
  <2>1. CASE i \in 1 .. Len(p)
    BY <1>2, <1>3, <2>1 DEF Opening
  <2>2. CASE i \notin 1 .. Len(p)
    <3>1. i \in Len(p) + 1 .. Len(p) + Len(q) /\ i - Len(p) \in 1 .. Len(q)
      BY <1>1, <2>2
    <3>2. q[i - Len(p)][1] \in Placed
      BY <1>2, <1>3, <3>1
    <3>3. i - Len(p) = 1
      BY <3>1, <3>2 DEF Opening
    <3>4. q # <<>>
      BY <1>1, <3>1
    <3> QED BY <3>2, <3>3, <3>4
  <2> QED BY <2>1, <2>2
<1> QED BY <1>2, <1>3 DEF Opening

LEMMA ChainedConcat ==
  ASSUME NEW p, NEW q, Opening(p), Chained(q), q = <<>> \/ q[1][1] \notin Placed
  PROVE  Chained(p \o q)
<1>1. p \in Seq(Step) /\ q \in Seq(Step) /\ Len(p) \in Nat /\ Len(q) \in Nat
  BY DEF Opening, Chained
<1>2. /\ p \o q \in Seq(Step) /\ Len(p \o q) = Len(p) + Len(q)
      /\ \A i \in 1 .. Len(p) : (p \o q)[i] = p[i]
      /\ \A i \in Len(p) + 1 .. Len(p) + Len(q) : (p \o q)[i] = q[i - Len(p)]
  BY <1>1
<1>3. PICK r : r = p \o q
  OBVIOUS
<1>4. ASSUME NEW i \in 1 .. Len(p) + Len(q)
      PROVE  /\ r[i][1] = "uart_init" => i = 1
             /\ r[i][1] = "settle" => i = 1 \/ r[i - 1][1] = "flush"
             /\ r[i][1] = "reboot" => i = Len(p) + Len(q) /\ (i = 1 \/ r[i - 1][1] = "settle")
  <2>1. CASE i \in 1 .. Len(p)
    <3>1. r[i] = p[i]
      BY <1>2, <1>3, <2>1
    <3> QED BY <2>1, <3>1 DEF Opening, Placed
  <2>2. CASE i = Len(p) + 1
    <3>1. r[i] = q[1] /\ q # <<>>
      <4>1. i \in Len(p) + 1 .. Len(p) + Len(q) /\ i - Len(p) = 1 /\ Len(q) # 0
        BY <1>1, <2>2
      <4> QED BY <1>1, <1>2, <1>3, <4>1
    <3> QED BY <3>1 DEF Placed
  <2>3. CASE i \notin 1 .. Len(p) /\ i # Len(p) + 1
    <3>1. PICK j : j = i - Len(p)
      OBVIOUS
    <3>2. /\ j \in 1 .. Len(q) /\ j - 1 \in 1 .. Len(q) /\ j # 1 /\ (j = Len(q) <=> i = Len(p) + Len(q))
          /\ i \in Len(p) + 1 .. Len(p) + Len(q) /\ i - 1 \in Len(p) + 1 .. Len(p) + Len(q)
          /\ (i - 1) - Len(p) = j - 1
      BY <1>1, <2>3, <3>1
    <3>3. r[i] = q[j] /\ r[i - 1] = q[j - 1]
      BY <1>2, <1>3, <3>1, <3>2
    <3> QED BY <3>2, <3>3 DEF Chained
  <2> QED BY <2>1, <2>2, <2>3
<1> QED BY <1>2, <1>3, <1>4 DEF Chained

\* The rest of a program, and what has been done before it.
LEMMA ChainedTail ==
  ASSUME NEW s, Chained(s), s # <<>>
  PROVE  /\ Chained(Tail(s)) /\ Head(s) \in Step /\ Head(s) = s[1]
         /\ Tail(s) # <<>> => LET k == Tail(s)[1][1] IN
              /\ k # "uart_init"
              /\ k = "settle" => Head(s)[1] = "flush"
              /\ k = "reboot" => Head(s)[1] = "settle"
         /\ s[1][1] = "reboot" => Tail(s) = <<>>
<1>1. s \in Seq(Step) /\ Len(s) \in Nat /\ Len(s) > 0
  BY DEF Chained
<1>2. /\ Tail(s) \in Seq(Step) /\ Len(Tail(s)) = Len(s) - 1 /\ Head(s) = s[1] /\ Head(s) \in Step
      /\ \A i \in 1 .. Len(s) - 1 : Tail(s)[i] = s[i + 1]
  BY <1>1
<1>3. PICK r : r = Tail(s)
  OBVIOUS
<1>4. ASSUME NEW i \in 1 .. Len(s) - 1
      PROVE  /\ r[i][1] # "uart_init"
             /\ r[i][1] = "settle" => s[i][1] = "flush"
             /\ r[i][1] = "reboot" => i = Len(s) - 1 /\ s[i][1] = "settle"
  <2>1. i + 1 \in 1 .. Len(s) /\ (i + 1) - 1 = i
        /\ i + 1 # 1 /\ (i + 1 = Len(s) => i = Len(s) - 1)
    BY <1>1
  <2>2. r[i] = s[i + 1]
    BY <1>2, <1>3
  <2> QED BY <2>1, <2>2 DEF Chained
<1>5. \A i \in 1 .. Len(s) - 1 : i # 1 => i - 1 \in 1 .. Len(s) - 1 /\ r[i - 1] = s[i]
  <2> TAKE i \in 1 .. Len(s) - 1
  <2>1. i # 1 => i - 1 \in 1 .. Len(s) - 1 /\ (i - 1) + 1 = i
    BY <1>1
  <2> QED BY <1>2, <1>3, <2>1
<1>6. Chained(r)
  BY <1>2, <1>3, <1>4, <1>5, ZenonT(60) DEF Chained
<1>7. r # <<>> => 1 \in 1 .. Len(s) - 1
  BY <1>1, <1>2, <1>3
<1>8. s[1][1] = "reboot" => r = <<>>
  <2>1. 1 \in 1 .. Len(s)
    BY <1>1
  <2>2. s[1][1] = "reboot" => Len(s) = 1
    BY <2>1 DEF Chained
  <2> QED BY <1>2, <1>3, <2>2
<1> QED BY <1>2, <1>3, <1>4, <1>6, <1>7, <1>8

-----------------------------------------------------------------------------
(* The programs are chained.                                               *)

\* The steps that may stand anywhere.
PlainStep == {x \in Step : x[1] \notin Placed}

LEMMA OpeningPlain ==
  ASSUME NEW p, Opening(p), NEW q \in Seq(PlainStep)
  PROVE  Opening(p \o q)
<1>1. q \in Seq(Step) /\ \A i \in 1 .. Len(q) : q[i][1] \notin Placed
  BY DEF PlainStep
<1>2. Opening(q)
  BY <1>1 DEF Opening
<1>3. q = <<>> \/ q[1][1] \notin Placed
  <2>1. q # <<>> => 1 \in 1 .. Len(q)
    BY <1>1
  <2> QED BY <1>1, <2>1
<1> QED BY <1>2, <1>3, OpeningConcat

LEMMA PlainPieces ==
  /\ \A t \in Seq(Char) : puts(t) \in Seq(PlainStep)
  /\ printk \in Seq(PlainStep)
  /\ \A w \in Ways, v \in {0, 1} : Simple(w, v) \in Seq(PlainStep) /\ Edge(w, v) \in Seq(PlainStep)
  /\ \A k \in {"detect", "irqs", "timer", "gprof_init"} : <<k>> \in PlainStep
  /\ \A w \in Ways, n \in Nat : <<"assert", w, n>> \in PlainStep
  /\ \A k \in {"loop", "dump"}, n \in Nat : <<k, n>> \in PlainStep
<1>1. \A t \in Seq(Char) : <<"puts", t>> \in PlainStep
  BY StepFacts DEF PlainStep, Placed
<1>2. ASSUME NEW t \in Seq(Char) PROVE puts(t) \in Seq(PlainStep)
  <2>1. PICK s \in PlainStep : s = <<"puts", t>>
    BY <1>1
  <2>2. <<s>> \in Seq(PlainStep)
    OBVIOUS
  <2> QED BY <2>1, <2>2 DEF puts
<1>3. printk \in Seq(PlainStep)
  BY <1>2, CharFacts DEF printk
<1>4. ASSUME NEW v \in {0, 1} PROVE Write(v) \in Seq(PlainStep)
  <2>1. <<"write", v>> \in PlainStep /\ <<"delay">> \in PlainStep
    BY StepFacts DEF PlainStep, Placed
  <2> QED BY <2>1 DEF Write
<1>5. \A w \in Ways, n \in Nat : <<"assert", w, n>> \in PlainStep
  BY StepFacts DEF PlainStep, Placed
<1>6. \A k \in {"zero", "save", "more"}, w \in Ways : <<k, w>> \in PlainStep
  BY StepFacts DEF PlainStep, Placed
<1>7. ASSUME NEW w \in Ways, NEW v \in {0, 1} PROVE Simple(w, v) \in Seq(PlainStep)
  <2>1. << <<"assert", w, 0>> >> \in Seq(PlainStep)
    BY <1>5
  <2>2. << <<"assert", w, 1>>, <<"zero", w>> >> \in Seq(PlainStep)
    BY <1>5, <1>6
  <2> QED BY <1>3, <1>4, <2>1, <2>2 DEF Simple
<1>8. ASSUME NEW w \in Ways, NEW v \in {0, 1} PROVE Edge(w, v) \in Seq(PlainStep)
  <2>1. << <<"save", w>> >> \in Seq(PlainStep) /\ << <<"more", w>> >> \in Seq(PlainStep)
    BY <1>6
  <2> QED BY <1>3, <1>4, <2>1 DEF Edge
<1>9. \A k \in {"detect", "irqs", "timer", "gprof_init"} : <<k>> \in PlainStep
  BY StepFacts DEF PlainStep, Placed
<1>10. \A k \in {"loop", "dump"}, n \in Nat : <<k, n>> \in PlainStep
  BY StepFacts DEF PlainStep, Placed
<1> QED BY <1>2, <1>3, <1>5, <1>7, <1>8, <1>9, <1>10

LEMMA CleanRebootChained ==
  Chained(CleanReboot) /\ CleanReboot # <<>> /\ CleanReboot[1][1] = "puts"
<1>1. puts(ExitString) \in Seq(PlainStep) /\ puts(ExitString) = << <<"puts", ExitString>> >>
  BY CharFacts, PlainPieces DEF puts
<1>2. PICK p : p = << <<"puts", ExitString>> >>
  OBVIOUS
<1>3. PICK q : q = << <<"flush">>, <<"settle">>, <<"reboot">> >>
  OBVIOUS
<1>4. PICK c : c = p \o q /\ c = CleanReboot
  BY <1>1, <1>2, <1>3, Zenon DEF CleanReboot
<1>5. /\ c \in Seq(Step) /\ Len(c) = 4 /\ c[1] = <<"puts", ExitString>> /\ c[2] = <<"flush">>
      /\ c[3] = <<"settle">> /\ c[4] = <<"reboot">>
  <2>1. p \in Seq(Step) /\ Len(p) = 1 /\ p[1] = <<"puts", ExitString>>
    <3>1. p \in Seq(PlainStep)
      BY <1>1, <1>2
    <3> QED BY <1>2, <3>1 DEF PlainStep
  <2>2. q \in Seq(Step) /\ Len(q) = 3 /\ q[1] = <<"flush">> /\ q[2] = <<"settle">> /\ q[3] = <<"reboot">>
    BY <1>3, StepFacts
  <2>3. /\ c \in Seq(Step) /\ Len(c) = 4 /\ c[1] = p[1] /\ c[2] = q[1] /\ c[3] = q[2] /\ c[4] = q[3]
    <3>1. p \in Seq(Step) /\ q \in Seq(Step)
      BY <2>1, <2>2
    <3>2. Len(p) = 1 /\ Len(q) = 3
      BY <2>1, <2>2
    <3>3. /\ p \o q \in Seq(Step) /\ Len(p \o q) = Len(p) + Len(q)
          /\ \A i \in 1 .. Len(p) : (p \o q)[i] = p[i]
          /\ \A i \in 1 .. Len(q) : (p \o q)[Len(p) + i] = q[i]
      BY <3>1, Joined
    <3>4. /\ c \in Seq(Step) /\ Len(c) = 1 + 3 /\ \A i \in 1 .. 1 : c[i] = p[i]
          /\ \A i \in 1 .. 3 : c[1 + i] = q[i]
      BY <1>4, <3>2, <3>3, Zenon
    <3> QED BY <3>4
  <2> QED BY <2>1, <2>2, <2>3
<1>6. c[1][1] = "puts" /\ c[2][1] = "flush" /\ c[3][1] = "settle" /\ c[4][1] = "reboot"
  BY <1>5
<1>7. Chained(c)
  BY <1>5, <1>6 DEF Chained
<1> QED BY <1>4, <1>5, <1>6, <1>7

\* A program made of plain steps, or that opens with uart_init, and clean_reboot.
LEMMA OpeningRuns ==
  ASSUME NEW p, Opening(p)
  PROVE  Chained(p \o CleanReboot)
  BY CleanRebootChained, ChainedConcat DEF Placed

LEMMA PlainOpening ==
  ASSUME NEW p \in Seq(PlainStep)
  PROVE  Opening(p)
  BY DEF PlainStep, Opening

LEMMA GpioTestOpening == Opening(GpioTest)
<1> DEFINE g1 == << <<"uart_init">> >>
           g2 == g1 \o printk
           d  == << <<"detect">>, <<"irqs">> >>
           g3 == g2 \o d
           g4 == g3 \o Simple("rise", 1)
           g5 == g4 \o Simple("fall", 0)
           z  == << <<"assert", "fall", 0>>, <<"assert", "rise", 0>> >>
           g6 == g5 \o z
           r  == [i \in 1 .. Rounds |-> Edge("rise", 1) \o Edge("fall", 0)]
           g7 == g6 \o FlattenSeq(r)
           f  == << <<"assert", "rise", Rounds>>, <<"assert", "fall", Rounds>> >>
           g8 == g7 \o f
           g9 == g8 \o printk
<1>0. GpioTest = g9
  BY DEF GpioTest
<1>1. Opening(g1)
  BY StepFacts, OpeningSingle
<1>2. Opening(g2)
  BY <1>1, PlainPieces, OpeningPlain
<1>3. Opening(g3)
  <2>1. d \in Seq(PlainStep)
    BY PlainPieces
  <2> QED BY <1>2, <2>1, OpeningPlain
<1>a. Simple("rise", 1) \in Seq(PlainStep) /\ Simple("fall", 0) \in Seq(PlainStep)
      /\ Edge("rise", 1) \in Seq(PlainStep) /\ Edge("fall", 0) \in Seq(PlainStep)
  BY PlainPieces DEF Ways
<1>4. Opening(g4)
  BY <1>3, <1>a, OpeningPlain
<1>5. Opening(g5)
  BY <1>4, <1>a, OpeningPlain
<1>6. Opening(g6)
  <2>1. z \in Seq(PlainStep)
    BY PlainPieces DEF Ways
  <2> QED BY <1>5, <2>1, OpeningPlain
<1>7. Opening(g7)
  <2>1. Edge("rise", 1) \o Edge("fall", 0) \in Seq(PlainStep)
    BY <1>a
  <2>2. r \in Seq(Seq(PlainStep))
    BY <2>1, LabsAssumption
  <2>3. FlattenSeq(r) \in Seq(PlainStep)
    BY <2>2, FlattenType
  <2> QED BY <1>6, <2>3, OpeningPlain
<1>8. Opening(g8)
  <2>1. f \in Seq(PlainStep)
    BY PlainPieces, LabsAssumption DEF Ways
  <2> QED BY <1>7, <2>1, OpeningPlain
<1>9. Opening(g9)
  BY <1>8, PlainPieces, OpeningPlain
<1> QED BY <1>0, <1>9

LEMMA GprofPlain == Gprof \in Seq(PlainStep)
<1>1. << <<"timer">>, <<"gprof_init">>, <<"irqs">>, <<"loop", 0>> >> \in Seq(PlainStep)
  BY PlainPieces
<1> QED BY <1>1, PlainPieces DEF Gprof

LEMMA DumpPlain == Dump \in Seq(PlainStep)
<1>1. PICK n \in Nat : n = Cardinality(Code)
  BY LabsAssumption, FS_CardinalityType
<1>2. ASSUME NEW i \in 1 .. n
      PROVE  << <<"dump", i - 1>> >> \in Seq(PlainStep)
  <2>1. i - 1 \in Nat
    OBVIOUS
  <2> QED BY <2>1, PlainPieces
<1>3. PICK d : d = [i \in 1 .. n |-> << <<"dump", i - 1>> >>]
  OBVIOUS
<1>4. d \in [1 .. n -> Seq(PlainStep)]
  BY <1>2, <1>3
<1>5. d \in Seq(Seq(PlainStep))
  BY <1>4
<1>6. FlattenSeq(d) \in Seq(PlainStep)
  BY <1>5, FlattenType
<1> QED BY <1>1, <1>3, <1>6, Zenon DEF Dump

-----------------------------------------------------------------------------
(* What is printed arrives.                                                *)

\* the character in the shift register
Sending == IF shift = None THEN <<>> ELSE <<shift>>

\* A program whose next step may be taken whatever the uart holds.
Fresh(t) == Chained(t) /\ (t # <<>> => t[1][1] \notin Placed)

PrintTypes ==
  /\ fifo \in Seq(Char) /\ line \in Seq(Char) /\ got \in Seq(Char) /\ printed \in Seq(Char)
  /\ shift \in Char \cup {None}

\* The program is where the uart can be reset, has been flushed, or is idle.
PlaceInv ==
  /\ Chained(todo)
  /\ todo # <<>> /\ todo[1][1] = "uart_init" => printed = <<>>
  /\ todo # <<>> /\ todo[1][1] = "settle" => fifo = <<>>
  /\ todo # <<>> /\ todo[1][1] = "reboot" => fifo = <<>> /\ shift = None
  /\ rebooted => todo = <<>> /\ fifo = <<>> /\ shift = None

\* All that was printed is read, on the cable, in the shift register or in the FIFO.
OnItsWay == ((got \o line) \o Sending) \o fifo = printed

PrintInv == PrintTypes /\ PlaceInv /\ OnItsWay

LEMMA RestFresh ==
  ASSUME Chained(todo), todo # <<>>, Head(todo)[1] \notin {"flush", "settle"}
  PROVE  Fresh(Rest)
  BY ChainedTail DEF Rest, Fresh, Placed

LEMMA FreshBehind ==
  ASSUME NEW p \in Seq(PlainStep), NEW q, Fresh(q)
  PROVE  Fresh(p \o q)
<1>1. Opening(p) /\ Chained(q) /\ (q = <<>> \/ q[1][1] \notin Placed)
  BY PlainOpening DEF Fresh
<1>2. Chained(p \o q)
  BY <1>1, ChainedConcat
<1>3. p \o q # <<>> => (p \o q)[1][1] \notin Placed
  <2>1. q \in Seq(Step) /\ p \in Seq(Step)
    BY DEF Fresh, Chained, PlainStep
  <2>2. CASE p = <<>>
    BY <2>1, <2>2, <1>1
  <2>3. CASE p # <<>>
    <3>1. 1 \in 1 .. Len(p) /\ p[1] \in PlainStep
      BY <2>3
    <3>2. (p \o q)[1] = p[1]
      BY <2>1, <3>1, Joined
    <3> QED BY <3>1, <3>2 DEF PlainStep
  <2> QED BY <2>2, <2>3
<1> QED BY <1>2, <1>3 DEF Fresh

LEMMA RebootFresh ==
  /\ Fresh(CleanReboot)
  /\ \A p \in Seq(PlainStep) : Fresh(p \o CleanReboot)
<1>1. Fresh(CleanReboot)
  BY CleanRebootChained DEF Fresh, Placed
<1> QED BY <1>1, FreshBehind

\* A step of the program that leaves the uart alone.
LEMMA FreshKeeps ==
  ASSUME PrintInv, Fresh(todo') \/ UNCHANGED todo, ~rebooted \/ UNCHANGED todo,
         UNCHANGED <<uart, got, printed>>
  PROVE  PrintInv'
<1>1. UNCHANGED <<fifo, shift, line, rebooted, got, printed>>
  BY DEF uart
<1>2. PrintTypes' /\ OnItsWay'
  BY <1>1 DEF PrintInv, PrintTypes, OnItsWay, Sending
<1>3. PlaceInv'
  BY <1>1 DEF PrintInv, PlaceInv, Fresh, Placed, Chained
<1> QED BY <1>2, <1>3 DEF PrintInv

\* The program goes on: its step, and what it leaves.
LEMMA Goes ==
  ASSUME PrintInv, NEW k, Is(k)
  PROVE  /\ Chained(todo) /\ todo # <<>> /\ ~rebooted /\ todo[1] = Head(todo) /\ Head(todo)[1] = k
         /\ Head(todo) \in Step /\ Chained(Rest) /\ Len(todo) > 0
         /\ k \notin {"flush", "settle"} => Fresh(Rest)
<1>1. Chained(todo) /\ todo # <<>> /\ ~rebooted /\ Head(todo)[1] = k
  BY DEF PrintInv, PlaceInv, Is
<1>2. Head(todo) = todo[1] /\ Head(todo) \in Step /\ Chained(Rest)
  BY <1>1, ChainedTail DEF Rest
<1>3. Len(todo) > 0
  BY <1>1 DEF Chained
<1> QED BY <1>1, <1>2, <1>3, RestFresh

LEMMA PutcKeeps == PrintInv /\ Putc => PrintInv'
<1> SUFFICES ASSUME PrintInv, Putc PROVE PrintInv'
  OBVIOUS
<1>1. Is("puts")
  BY DEF Putc
<1>2. /\ Chained(todo) /\ todo # <<>> /\ ~rebooted /\ Head(todo)[1] = "puts" /\ Head(todo) \in Step
      /\ Fresh(Rest)
  BY <1>1, Goes
<1>3. PICK t \in Seq(Char) : t = Arg(2)
  BY <1>2, PutsArg DEF Arg
<1>4. CASE t = <<>>
  <2>1. todo' = Rest /\ UNCHANGED <<uart, got, printed>>
    BY <1>3, <1>4 DEF Putc, uart, laptop
  <2> QED BY <1>2, <2>1, FreshKeeps
<1>5. CASE t # <<>>
  <2>1. /\ fifo' = Append(fifo, Head(t)) /\ printed' = Append(printed, Head(t))
        /\ todo' = puts(Tail(t)) \o Rest /\ UNCHANGED <<shift, line, rebooted, got>>
    BY <1>3, <1>5 DEF Putc, laptop
  <2>2. Head(t) \in Char /\ Tail(t) \in Seq(Char)
    BY <1>5
  <2>3. Fresh(todo')
    BY <1>2, <2>1, <2>2, PlainPieces, FreshBehind
  <2>4. PICK c \in Char : c = Head(t)
    BY <2>2
  <2>5. fifo' = Append(fifo, c) /\ printed' = Append(printed, c)
    BY <2>1, <2>4
  <2>6. PrintTypes'
    BY <2>1, <2>5 DEF PrintInv, PrintTypes
  <2>7. OnItsWay'
    <3>1. PICK x : x = (got \o line) \o Sending
      OBVIOUS
    <3>2. x \in Seq(Char) /\ fifo \in Seq(Char) /\ <<c>> \in Seq(Char)
      BY <3>1 DEF PrintInv, PrintTypes, Sending
    <3>3. (x \o fifo) \o <<c>> = x \o (fifo \o <<c>>)
      BY <3>2
    <3>4. Append(fifo, c) = fifo \o <<c>>
      BY <3>2
    <3>5. printed \in Seq(Char) /\ Append(printed, c) = printed \o <<c>>
      BY <3>2 DEF PrintInv, PrintTypes
    <3>6. x \o fifo = printed
      BY <3>1, Zenon DEF PrintInv, OnItsWay
    <3>7. ((got \o line) \o Sending)' = x
      BY <2>1, <3>1 DEF Sending
    <3>8. x \o fifo' = printed'
      BY <2>5, <3>3, <3>4, <3>5, <3>6, Zenon
    <3> QED BY <3>7, <3>8, Zenon DEF OnItsWay
  <2>8. PlaceInv'
    BY <1>2, <2>1, <2>3 DEF PlaceInv, Fresh, Placed, Chained
  <2> QED BY <2>6, <2>7, <2>8 DEF PrintInv
<1> QED BY <1>4, <1>5

LEMMA UartInitKeeps == PrintInv /\ UartInit => PrintInv'
<1> SUFFICES ASSUME PrintInv, UartInit PROVE PrintInv'
  OBVIOUS
<1>1. Is("uart_init") /\ todo' = Rest /\ fifo' = <<>> /\ UNCHANGED <<shift, line, rebooted, got, printed>>
  BY DEF UartInit, laptop
<1>2. todo # <<>> /\ ~rebooted /\ todo[1][1] = "uart_init" /\ Fresh(Rest)
  <2>1. todo # <<>> /\ ~rebooted /\ todo[1] = Head(todo) /\ Head(todo)[1] = "uart_init" /\ Fresh(Rest)
    BY <1>1, Goes
  <2> QED BY <2>1
<1>3. printed = <<>>
  BY <1>2 DEF PrintInv, PlaceInv
<1>4. fifo = <<>>
  <2>1. PICK x : x = (got \o line) \o Sending
    OBVIOUS
  <2>2. x \in Seq(Char) /\ fifo \in Seq(Char)
    BY <2>1 DEF PrintInv, PrintTypes, Sending
  <2>3. x \o fifo = <<>>
    BY <1>3, <2>1, Zenon DEF PrintInv, OnItsWay
  <2>4. Len(x \o fifo) = Len(x) + Len(fifo) /\ Len(x) \in Nat /\ Len(fifo) \in Nat
    BY <2>2
  <2>5. Len(x \o fifo) = 0
    BY <2>3
  <2>6. Len(fifo) = 0
    BY <2>4, <2>5
  <2> QED BY <2>2, <2>6
<1>5. UNCHANGED <<uart, got, printed>>
  BY <1>1, <1>4 DEF uart
<1> QED BY <1>1, <1>2, <1>5, FreshKeeps

LEMMA FlushKeeps == PrintInv /\ Flush => PrintInv'
<1> SUFFICES ASSUME PrintInv, Flush PROVE PrintInv'
  OBVIOUS
<1>1. todo' = Rest /\ UNCHANGED <<fifo, shift, line, rebooted, got, printed>>
  BY DEF Flush, uart, laptop
<1>2. PrintTypes' /\ OnItsWay'
  BY <1>1 DEF PrintInv, PrintTypes, OnItsWay, Sending
<1>3. /\ Chained(todo) /\ todo # <<>> /\ ~rebooted /\ Head(todo) = todo[1] /\ Chained(Rest)
      /\ Rest # <<>> => LET k == Rest[1][1] IN
           /\ k # "uart_init"
           /\ k = "settle" => Head(todo)[1] = "flush"
           /\ k = "reboot" => Head(todo)[1] = "settle"
  <2>1. Chained(todo) /\ todo # <<>> /\ ~rebooted
    BY DEF PrintInv, PlaceInv, Flush, Is
  <2> QED BY <2>1, ChainedTail DEF Rest
<1>4. Head(todo)[1] = "flush" => fifo = <<>>
  BY DEF Flush, Is
<1>5. Head(todo)[1] = "settle" => fifo = <<>> /\ shift = None
  BY <1>3 DEF Flush, Is, PrintInv, PlaceInv
<1>6. PlaceInv'
  BY <1>1, <1>3, <1>4, <1>5 DEF PlaceInv, Chained
<1> QED BY <1>2, <1>6 DEF PrintInv

LEMMA RebootKeeps == PrintInv /\ Reboot => PrintInv'
<1> SUFFICES ASSUME PrintInv, Reboot PROVE PrintInv'
  OBVIOUS
<1>1. /\ Is("reboot") /\ todo' = <<>> /\ rebooted' = TRUE /\ fifo' = <<>> /\ shift' = None
      /\ UNCHANGED <<line, got, printed>>
  BY DEF Reboot, laptop
<1>2. fifo = <<>> /\ shift = None
  <2>1. todo # <<>> /\ todo[1] = Head(todo) /\ Head(todo)[1] = "reboot"
    BY <1>1, Goes
  <2> QED BY <2>1 DEF PrintInv, PlaceInv
<1>3. Chained(<<>>)
  BY DEF Chained
<1>4. PlaceInv'
  BY <1>1, <1>3 DEF PlaceInv, Chained
<1>5. PrintTypes' /\ OnItsWay'
  BY <1>1, <1>2 DEF PrintInv, PrintTypes, OnItsWay, Sending
<1> QED BY <1>4, <1>5 DEF PrintInv

LEMMA TransmitKeeps == PrintInv /\ Transmit => PrintInv'
<1> SUFFICES ASSUME PrintInv, Transmit PROVE PrintInv'
  OBVIOUS
<1>1. UNCHANGED <<todo, rebooted, got, printed>>
  BY DEF Transmit, laptop
<1>2. PICK g \in Seq(Char), l \in Seq(Char), f \in Seq(Char), r \in Seq(Char) :
        g = got /\ l = line /\ f = fifo /\ r = printed
  BY DEF PrintInv, PrintTypes
<1>3. ((g \o l) \o Sending) \o f = r
  BY <1>2, Zenon DEF PrintInv, OnItsWay
<1>4. CASE shift = None /\ fifo # <<>> /\ shift' = Head(fifo) /\ fifo' = Tail(fifo) /\ line' = line
  <2>1. PICK c \in Char : c = Head(f)
    BY <1>2, <1>4
  <2>2. PICK t \in Seq(Char) : t = Tail(f)
    <3>1. f # <<>>
      BY <1>2, <1>4
    <3>2. Tail(f) \in Seq(Char)
      BY <3>1
    <3> QED BY <3>2
  <2>3. f = <<c>> \o t
    BY <1>2, <1>4, <2>1, <2>2
  <2>4. Sending = <<>> /\ Sending' = <<c>>
    BY <1>2, <1>4, <2>1, CharFacts DEF Sending
  <2>5. PICK x \in Seq(Char) : x = g \o l
    <3>1. g \o l \in Seq(Char)
      OBVIOUS
    <3> QED BY <3>1
  <2>6. (x \o <<>>) \o (<<c>> \o t) = (x \o <<c>>) \o t
    <3>1. x \o <<>> = x /\ <<c>> \in Seq(Char)
      OBVIOUS
    <3>2. x \o (<<c>> \o t) = (x \o <<c>>) \o t
      BY <3>1
    <3> QED BY <3>1, <3>2
  <2>7. ((g \o l) \o <<c>>) \o t = r
    BY <1>3, <2>3, <2>4, <2>5, <2>6, Zenon
  <2>8. OnItsWay'
    <3>1. got' = g /\ line' = l /\ fifo' = t /\ printed' = r
      BY <1>1, <1>2, <1>4, <2>2
    <3> QED BY <2>4, <2>7, <3>1, Zenon DEF OnItsWay
  <2>9. PrintTypes'
    BY <1>1, <1>2, <1>4, <2>1, <2>2 DEF PrintInv, PrintTypes
  <2>10. PlaceInv'
    BY <1>1, <1>4 DEF PrintInv, PlaceInv, Chained
  <2> QED BY <2>8, <2>9, <2>10 DEF PrintInv
<1>5. CASE shift # None /\ line' = Append(line, shift) /\ shift' = None /\ fifo' = fifo
  <2>1. PICK c \in Char : c = shift
    BY <1>5 DEF PrintInv, PrintTypes
  <2>2. Sending = <<c>> /\ Sending' = <<>>
    BY <1>5, <2>1 DEF Sending
  <2>3. line' = l \o <<c>> /\ line' \in Seq(Char)
    BY <1>2, <1>5, <2>1
  <2>4. (g \o (l \o <<c>>)) \o <<>> = (g \o l) \o <<c>>
    <3>1. <<c>> \in Seq(Char)
      OBVIOUS
    <3>2. g \o (l \o <<c>>) = (g \o l) \o <<c>>
      BY <3>1
    <3>3. (g \o l) \o <<c>> \in Seq(Char)
      BY <3>1
    <3> QED BY <3>2, <3>3
  <2>5. ((g \o (l \o <<c>>)) \o <<>>) \o f = r
    BY <1>3, <2>2, <2>4, Zenon
  <2>6. OnItsWay'
    <3>1. got' = g /\ line' = l \o <<c>> /\ fifo' = f /\ printed' = r
      BY <1>1, <1>2, <1>5, <2>3
    <3> QED BY <2>2, <2>5, <3>1, Zenon DEF OnItsWay
  <2>7. PrintTypes'
    BY <1>1, <1>5, <2>3 DEF PrintInv, PrintTypes
  <2>8. PlaceInv'
    BY <1>1, <1>5 DEF PrintInv, PlaceInv, Chained
  <2> QED BY <2>6, <2>7, <2>8 DEF PrintInv
<1> QED BY <1>4, <1>5 DEF Transmit

LEMMA EchoKeeps == PrintInv /\ Echo => PrintInv'
<1> SUFFICES ASSUME PrintInv, Echo PROVE PrintInv'
  OBVIOUS
<1>1. UNCHANGED <<todo, fifo, shift, rebooted, printed>>
  BY DEF Echo
<1>2. PICK n \in 1 .. Len(line) :
        /\ line' = SubSeq(line, n + 1, Len(line)) /\ got' = got \o SubSeq(line, 1, n)
  BY DEF Echo
<1>3. PICK g \in Seq(Char), l \in Seq(Char) : g = got /\ l = line
  BY DEF PrintInv, PrintTypes
<1>4. PICK a \in Seq(Char), b \in Seq(Char) :
        a = SubSeq(l, 1, n) /\ b = SubSeq(l, n + 1, Len(l)) /\ l = a \o b
  <2>1. n \in 1 .. Len(l)
    BY <1>3
  <2>2. SubSeq(l, 1, n) \in Seq(Char) /\ SubSeq(l, n + 1, Len(l)) \in Seq(Char)
    BY <2>1
  <2>3. l = SubSeq(l, 1, n) \o SubSeq(l, n + 1, Len(l))
    BY <2>1
  <2> QED BY <2>2, <2>3, Zenon
<1>5. (g \o a) \o b = g \o l
  <2>1. (g \o a) \o b = g \o (a \o b)
    <3> HIDE <1>4
    <3> QED BY SMTT(60)
  <2> QED BY <1>4, <2>1, Zenon
<1>6. got' = g \o a /\ line' = b
  BY <1>2, <1>3, <1>4, Zenon
<1>7. PrintTypes'
  <2>1. got' \in Seq(Char) /\ line' \in Seq(Char)
    <3>1. g \o a \in Seq(Char)
      OBVIOUS
    <3> QED BY <1>6, <3>1
  <2> QED BY <1>1, <2>1 DEF PrintInv, PrintTypes
<1>8. Sending' = Sending
  BY <1>1 DEF Sending
<1>9. OnItsWay'
  BY <1>1, <1>3, <1>5, <1>6, <1>8, Zenon DEF PrintInv, OnItsWay
<1>10. PlaceInv'
  BY <1>1 DEF PrintInv, PlaceInv, Chained
<1> QED BY <1>7, <1>9, <1>10 DEF PrintInv

\* What a failing assertion and the loop of the profiler leave to do.
LEMMA RebuiltFresh ==
  /\ Fresh(puts(<<Panic>>) \o CleanReboot)
  /\ \A n \in Nat, d \in {Dump, <<>>}, l \in Seq(Step) :
       l = << <<"loop", n>> >> => Fresh((printk \o d) \o l)
<1>1. Fresh(puts(<<Panic>>) \o CleanReboot)
  BY CharFacts, PlainPieces, RebootFresh
<1>2. ASSUME NEW n \in Nat, NEW d \in {Dump, <<>>}, NEW l, l = << <<"loop", n>> >>
      PROVE  Fresh((printk \o d) \o l)
  <2>a. <<>> \in Seq(PlainStep)
    OBVIOUS
  <2>1. d \in Seq(PlainStep)
    BY <2>a, DumpPlain
  <2>2. printk \o d \in Seq(PlainStep)
    BY <2>1, PlainPieces
  <2>3. PICK s \in PlainStep : s = <<"loop", n>>
    BY PlainPieces
  <2>4. l = <<s>> /\ l \in Seq(Step) /\ Len(l) = 1 /\ l[1] = s
    BY <1>2, <2>3 DEF PlainStep
  <2>5. s[1] = "loop"
    BY <2>3
  <2>6. Fresh(l)
    BY <2>4, <2>5 DEF Fresh, Chained, Placed
  <2> QED BY <2>2, <2>6, FreshBehind
<1> QED BY <1>1, <1>2

LEMMA LoopKeeps == PrintInv /\ Loop => PrintInv'
<1> SUFFICES ASSUME PrintInv, Loop PROVE PrintInv'
  OBVIOUS
<1>1. Is("loop") /\ UNCHANGED <<uart, got, printed>>
  BY DEF Loop, laptop
<1>2. ~rebooted /\ Head(todo) \in Step /\ Head(todo)[1] = "loop"
  BY <1>1, Goes
<1>3. Arg(2) \in Nat
  BY <1>2 DEF Step, Arg
<1>4. CASE cnt >= Samples
  BY <1>1, <1>2, <1>4, RebootFresh, FreshKeeps DEF Loop
<1>5. CASE ~(cnt >= Samples)
  <2>1. PICK n \in Nat : n = Arg(2) + 1
    BY <1>3
  <2>2. PICK d \in {Dump, <<>>} : d = IF n % Every = 0 THEN Dump ELSE <<>>
    OBVIOUS
  <2>3. PICK l \in Seq(Step) : l = << <<"loop", n>> >>
    <3>1. <<"loop", n>> \in Step
      BY StepFacts
    <3>2. << <<"loop", n>> >> \in Seq(Step)
      BY <3>1, Single
    <3> QED BY <3>2
  <2>4. todo' = (printk \o d) \o l
    BY <1>5, <2>1, <2>2, <2>3, Zenon DEF Loop
  <2>5. Fresh(todo')
    BY <2>3, <2>4, RebuiltFresh
  <2> QED BY <1>1, <1>2, <2>5, FreshKeeps
<1> QED BY <1>4, <1>5

\* A step of the program that only takes it further.
LEMMA RestKeeps ==
  ASSUME PrintInv, NEW k, Is(k), k \notin {"flush", "settle"}, todo' = Rest,
         UNCHANGED <<uart, laptop, printed>>
  PROVE  PrintInv'
<1>1. ~rebooted /\ Fresh(Rest)
  BY Goes
<1>2. UNCHANGED <<uart, got, printed>>
  BY DEF laptop
<1> QED BY <1>1, <1>2, FreshKeeps

LEMMA ProgramKeeps == PrintInv /\ Program => PrintInv'
<1> SUFFICES ASSUME PrintInv, Program PROVE PrintInv'
  OBVIOUS
<1>1. CASE EnableInterrupts \/ Detect \/ GpioWrite \/ Delay \/ Assign \/ TimerInit
  <2>1. CASE EnableInterrupts
    BY <2>1, RestKeeps DEF EnableInterrupts
  <2>2. CASE Detect
    BY <2>2, RestKeeps DEF Detect
  <2>3. CASE GpioWrite
    BY <2>3, RestKeeps DEF GpioWrite
  <2>4. CASE Delay
    BY <2>4, RestKeeps DEF Delay
  <2>5. CASE Assign
    <3>1. \E k \in {"zero", "save"} : Is(k)
      BY <2>5 DEF Assign
    <3> QED BY <2>5, <3>1, RestKeeps DEF Assign
  <2>6. CASE TimerInit
    BY <2>6, RestKeeps DEF TimerInit
  <2> QED BY <1>1, <2>1, <2>2, <2>3, <2>4, <2>5, <2>6
<1>2. CASE TestAssert
  <2>1. PICK k \in {"assert", "more"} : Is(k)
    BY <1>2 DEF TestAssert
  <2>2. UNCHANGED <<uart, got, printed>> /\ todo' \in {Rest, puts(<<Panic>>) \o CleanReboot}
    BY <1>2 DEF TestAssert, Asserts, laptop
  <2>3. ~rebooted /\ Fresh(Rest)
    BY <2>1, Goes
  <2> QED BY <2>2, <2>3, RebuiltFresh, FreshKeeps
<1>3. CASE GprofInit \/ DumpOne
  <2>1. PICK k \in {"gprof_init", "dump"} : Is(k)
    BY <1>3 DEF GprofInit, DumpOne
  <2>2. UNCHANGED <<uart, got, printed>> /\ \E p \in {printk, <<>>} : todo' = p \o Rest
    BY <1>3 DEF GprofInit, DumpOne, laptop
  <2>3. ~rebooted /\ Fresh(Rest)
    BY <2>1, Goes
  <2>4. \A p \in {printk, <<>>} : Fresh(p \o Rest)
    <3>a. <<>> \in Seq(PlainStep)
      OBVIOUS
    <3>1. \A p \in {printk, <<>>} : p \in Seq(PlainStep)
      BY <3>a, PlainPieces
    <3> QED BY <2>3, <3>1, FreshBehind
  <2> QED BY <2>2, <2>3, <2>4, FreshKeeps
<1> QED BY <1>1, <1>2, <1>3, PutcKeeps, UartInitKeeps, FlushKeeps, RebootKeeps, LoopKeeps DEF Program

\* A step of a handler, of the timer or of the wire.
LEMMA OthersKeep ==
  PrintInv /\ (Handler \/ Tick \/ Bounce \/ Unplug) => PrintInv'
<1> SUFFICES ASSUME PrintInv, Handler \/ Tick \/ Bounce \/ Unplug PROVE PrintInv'
  OBVIOUS
<1>1. UNCHANGED <<todo, uart, got, printed>>
  BY DEF Handler, GpioHandler, GprofHandler, Tick, Bounce, Unplug, laptop
<1> QED BY <1>1, FreshKeeps

LEMMA PrintNext == PrintInv /\ [Next]_vars => PrintInv'
<1> SUFFICES ASSUME PrintInv, [Next]_vars PROVE PrintInv'
  OBVIOUS
<1>1. CASE UNCHANGED vars
  BY <1>1, FreshKeeps DEF vars, laptop
<1> QED BY <1>1, ProgramKeeps, OthersKeep, TransmitKeeps, EchoKeeps DEF Next

\* A session starts with nothing printed, and the program it runs.
LEMMA ResetPrint ==
  ASSUME Reset, Chained(todo)
  PROVE  PrintInv
<1>1. /\ fifo = <<>> /\ shift = None /\ line = <<>> /\ rebooted = FALSE /\ printed = <<>> /\ got = <<>>
  BY DEF Reset
<1>2. PrintTypes
  BY <1>1 DEF PrintTypes
<1>3. OnItsWay
  BY <1>1 DEF OnItsWay, Sending
<1>4. PlaceInv
  BY <1>1 DEF PlaceInv
<1> QED BY <1>2, <1>3, <1>4 DEF PrintInv

LEMMA PrintInit == Init => PrintInv
<1> SUFFICES ASSUME Init PROVE PrintInv
  OBVIOUS
<1>1. ASSUME NEW t \in Texts PROVE Chained(puts(t) \o CleanReboot)
  BY CharFacts, PlainPieces, RebootFresh DEF Fresh
<1>2. Chained(GpioTest \o CleanReboot)
  BY GpioTestOpening, OpeningRuns
<1>3. Chained(Gprof)
  <2>1. Fresh(<<>>)
    BY DEF Fresh, Chained
  <2>2. Gprof \o <<>> = Gprof
    BY GprofPlain
  <2>3. Fresh(Gprof \o <<>>)
    BY <2>1, GprofPlain, FreshBehind
  <2> QED BY <2>2, <2>3 DEF Fresh
<1>4. \/ todo \in {GpioTest \o CleanReboot, Gprof}
      \/ \E t \in Texts : todo = puts(t) \o CleanReboot
  BY Zenon DEF Init
<1>5. Chained(todo)
  BY <1>1, <1>2, <1>3, <1>4
<1> QED BY <1>5, ResetPrint DEF Init

-----------------------------------------------------------------------------
(* A session with a debug client or a user process.                        *)

\* Such a program has printed nothing before its last words, and says them once.
Silent == at # "off" => todo = <<>> /\ ~rebooted

LEMMA SilentInit == SessionInit => Silent
  BY DEF SessionInit, D!Off, D!Reset, D!Init, Reset, Silent

\* What the debug client and the user processes do.
LEMMA DebugStepFrame == DebugStep => at # "off" /\ UNCHANGED lvars
  BY DEF DebugStep, D!Processor, D!DebugFaultInit, D!Client, D!DebugFault, D!Return, D!RunUser,
         D!Step, D!Execute, D!Running

LEMMA SilentNext == Silent /\ [SessionNext]_svars => Silent'
<1> SUFFICES ASSUME Silent, [SessionNext]_svars PROVE Silent'
  OBVIOUS
<1>1. CASE Next /\ UNCHANGED dvars
  <2>1. at' = at
    BY <1>1 DEF dvars
  <2>2. CASE todo = <<>> /\ at # "off"
    <3>1. ~Program
      BY <2>2 DEF Program, Is, Putc, UartInit, Flush, Reboot, EnableInterrupts, Detect, GpioWrite,
           Delay, TestAssert, Assign, TimerInit, GprofInit, Loop, DumpOne
    <3>2. UNCHANGED <<todo, rebooted>>
      BY <1>1, <3>1 DEF Next, Handler, GpioHandler, GprofHandler, Tick, Bounce, Unplug, Transmit, Echo, uart
    <3> QED BY <2>1, <3>2 DEF Silent
  <2> QED BY <2>1, <2>2 DEF Silent
<1>2. CASE DebugStep
  BY <1>2, DebugStepFrame DEF lvars, uart, Silent
<1>3. CASE D!StrayAbort /\ UNCHANGED lvars
  <2>1. at # "off"
    BY <1>3 DEF D!StrayAbort, D!Running
  <2> QED BY <1>3, <2>1 DEF lvars, uart, Silent
<1>4. CASE Finish
  BY <1>4 DEF Finish, D!Reboot, Silent
<1>5. CASE UNCHANGED svars
  BY <1>5 DEF svars, vars, dvars, uart, Silent
<1> QED BY <1>1, <1>2, <1>3, <1>4, <1>5 DEF SessionNext

\* Its last words, and clean_reboot.
LEMMA FinishTodo ==
  ASSUME Finish
  PROVE  \E p \in {puts(<<Panic>>), printk, SysExit \o EquivPrint, SysExit} : todo' = p \o CleanReboot
  BY Zenon DEF Finish

LEMMA FinishFresh ==
  ASSUME Finish
  PROVE  Fresh(todo')
<1>1. printk \in Seq(PlainStep) /\ puts(<<Panic>>) \in Seq(PlainStep)
  BY PlainPieces, CharFacts
<1>2. SysExit \in Seq(PlainStep) /\ SysExit \o EquivPrint \in Seq(PlainStep)
  BY <1>1 DEF SysExit, EquivPrint
<1>3. PICK p \in {puts(<<Panic>>), printk, SysExit \o EquivPrint, SysExit} : todo' = p \o CleanReboot
  BY FinishTodo
<1>4. p \in Seq(PlainStep)
  BY <1>1, <1>2
<1> QED BY <1>3, <1>4, RebootFresh

LEMMA SessionPrintNext == PrintInv /\ Silent /\ [SessionNext]_svars => PrintInv'
<1> SUFFICES ASSUME PrintInv, Silent, [SessionNext]_svars PROVE PrintInv'
  OBVIOUS
<1>1. CASE Next
  BY <1>1, PrintNext
<1>2. CASE Finish
  <2>1. ~rebooted
    BY <1>2 DEF Finish, D!Reboot, Silent
  <2>2. UNCHANGED <<uart, got, printed>>
    BY <1>2 DEF Finish, laptop
  <2> QED BY <1>2, <2>1, <2>2, FinishFresh, FreshKeeps
<1>3. CASE UNCHANGED lvars \/ UNCHANGED svars
  <2>1. UNCHANGED <<todo, uart, got, printed>>
    BY <1>3 DEF lvars, svars, vars, laptop
  <2> QED BY <2>1, FreshKeeps
<1> QED BY <1>1, <1>2, <1>3, DebugStepFrame DEF SessionNext

LEMMA SessionPrintInit == SessionInit => PrintInv
<1>1. Chained(<<>>)
  BY DEF Chained
<1>2. todo = <<>> /\ Reset => PrintInv
  BY <1>1, ResetPrint
<1> QED BY <1>2, PrintInit DEF SessionInit

\* Whatever a program prints, the debug clients' and the user processes' last
\* words included, is on the laptop's side when clean_reboot reboots, for every
\* size of the FIFO and length of text, also from a panic.
THEOREM NothingPrintedIsLost == SessionSpec => []NothingLost
<1>1. PrintInv => NothingLost
  <2> SUFFICES ASSUME PrintInv, rebooted PROVE got \o line = printed
    BY DEF NothingLost
  <2>1. fifo = <<>> /\ Sending = <<>>
    BY DEF PrintInv, PlaceInv, Sending
  <2>2. PICK x \in Seq(Char) : x = got \o line
    <3>1. got \o line \in Seq(Char)
      BY DEF PrintInv, PrintTypes
    <3> QED BY <3>1
  <2>3. (x \o <<>>) \o <<>> = x
    OBVIOUS
  <2> QED BY <2>1, <2>2, <2>3, Zenon DEF PrintInv, OnItsWay
<1>2. SessionInit => PrintInv /\ Silent
  BY SessionPrintInit, SilentInit
<1>3. (PrintInv /\ Silent) /\ [SessionNext]_svars => (PrintInv /\ Silent)'
  BY SessionPrintNext, SilentNext
<1> QED BY <1>1, <1>2, <1>3, PTL DEF SessionSpec

-----------------------------------------------------------------------------
(* In a session: the invariants of the debug hardware are kept.            *)


LEMMA ConstantsFit == DebugConstants
  BY DebugAssumption, LabsAssumption DEF DebugConstants

\* Labs' steps bound the faults they make as well.
LEMMA LabsFaults ==
  ASSUME Next, faults \in 0 .. MaxFault
  PROVE  faults' \in 0 .. MaxFault
<1>1. faults' = faults \/ (faults < MaxFault /\ faults' = faults + 1)
  BY DEF Next, Program, Handler, Putc, UartInit, Flush, Reboot, EnableInterrupts, Detect, GpioWrite,
         Delay, TestAssert, Assign, TimerInit, GprofInit, Loop, DumpOne, GpioHandler, GprofHandler,
         Tick, Bounce, Transmit, Echo, Unplug
<1> QED BY <1>1, LabsAssumption

LEMMA SessionDebugInit == SessionInit => DebugInv
<1>1. CASE Init /\ D!Off
  <2>1. part = "off" /\ at = "off" /\ ~stray /\ mode = "super" /\ handlers = {} /\ dscr = "none"
        /\ wp = [on |-> FALSE, addr |-> 0, bas |-> {}] /\ ops = 0
    BY <1>1 DEF D!Off, D!Reset
  <2>2. faults = 0
    BY <1>1 DEF Init, Reset
  <2> QED BY <2>1, <2>2, DebugAssumption, LabsAssumption DEF DebugInv, D!TypeOK, D!PanicsIffStray
<1>2. CASE D!Init
  BY <1>2, ConstantsFit, DebugInit
<1> QED BY <1>1, <1>2 DEF SessionInit

LEMMA SessionDebugNext == DebugInv /\ [SessionNext]_svars => DebugInv'
<1> SUFFICES ASSUME DebugInv, [SessionNext]_svars PROVE DebugInv'
  OBVIOUS
<1>1. CASE Next /\ UNCHANGED dvars
  <2>1. faults' \in 0 .. MaxFault
    BY <1>1, LabsFaults DEF DebugInv, D!TypeOK
  <2>2. UNCHANGED <<part, at, path, access, mode, monitor, bp, wp, dscr, ifsr, dfsr, handlers,
                    n_faults, pc_hash, run, armed, due, stray, ops>>
    BY <1>1 DEF dvars
  <2> QED BY <2>1, <2>2, ZenonT(60) DEF DebugInv, D!TypeOK, D!PanicsIffStray, ClientInv, RegsInv,
             Pending, D!Bytes
<1>2. ASSUME D!Next PROVE DebugInv'
  BY <1>2, ConstantsFit, DebugNext
<1>3. CASE DebugStep \/ D!StrayAbort \/ Finish
  <2>1. D!Next
    BY <1>3 DEF DebugStep, D!Processor, Finish, D!Next
  <2> QED BY <1>2, <2>1
<1>4. CASE UNCHANGED svars
  <2>1. UNCHANGED D!dvars
    BY <1>4 DEF svars, vars, dvars, D!dvars, D!regs, D!client
  <2> QED BY <2>1, ConstantsFit, DebugNext
<1> QED BY <1>1, <1>3, <1>4 DEF SessionNext

\* debug-fault.c in a session: its client sees each fault it armed for and no
\* other, and stops when, and only when, an abort is no debug fault.
THEOREM SessionSortsFaults == SessionSpec => []FaultsSorted
<1>1. DebugInv => FaultsSorted
  BY DEF FaultsSorted, DebugInv, ClientInv, Pending, D!TypeOK, D!FaultsSorted, D!FaultsExact,
         D!PanicsIffStray
<1> QED BY <1>1, SessionDebugInit, SessionDebugNext, PTL DEF SessionSpec

LEMMA ProgramsFit == UserPrograms
  BY DebugAssumption DEF UserPrograms

LEMMA SessionStepInit == SessionInit => StepInv
<1>1. CASE Init /\ D!Off
  <2>1. part = "off"
    BY <1>1 DEF D!Off, D!Reset
  <2> QED BY <2>1 DEF StepInv
<1>2. CASE D!Init
  BY <1>2, ConstantsFit, ProgramsFit, StepInit
<1> QED BY <1>1, <1>2 DEF SessionInit

LEMMA SessionStepNext == StepInv /\ [SessionNext]_svars => StepInv'
<1> SUFFICES ASSUME StepInv, [SessionNext]_svars PROVE StepInv'
  OBVIOUS
<1>1. CASE (Next /\ UNCHANGED dvars) \/ UNCHANGED svars
  <2>1. UNCHANGED <<part, at, path, mode, monitor, bp, n_faults, pc_hash, run>>
    BY <1>1 DEF svars, dvars
  <2> QED BY <2>1, StepKept
<1>2. CASE DebugStep \/ D!StrayAbort \/ Finish
  <2>1. D!Next
    BY <1>2 DEF DebugStep, D!Processor, Finish, D!Next
  <2> QED BY <2>1, ProgramsFit, StepNext
<1> QED BY <1>1, <1>2 DEF SessionNext

\* The handlers of lab 11 in a session: each instruction of a stepped program is
\* counted or hashed when it is reached, in order and once, and the kernel's
\* own leave no trace in the hash.
THEOREM SessionCountsEachStepOnce == SessionSpec => []EachStepOnce
<1>1. StepInv => EachStepOnce
  BY ProgramsFit, StepsCounted DEF EachStepOnce
<1> QED BY <1>1, SessionStepInit, SessionStepNext, PTL DEF SessionSpec

\* The state of pi_done is how much of the message ends what has been read: i
\* characters of it end the first j of s.
Ends(s, j, i) == i <= j /\ \A k \in 1 .. i : s[(j - i) + k] = ExitString[k]

\* The message stands in what has been read.
Seen(s) == \E j \in 8 .. Len(s) : Ends(s, j, 8)

EchoInv ==
  /\ pos \in 0 .. 8 /\ got \in Seq(Char) /\ line \in Seq(Char)
  /\ echo \in {"reading", "done", "gone"}
  /\ pos # 8 => Ends(got, Len(got), pos)
  /\ pos = 8 \/ echo = "done" => Seen(got)

LEMMA Message ==
  Len(ExitString) = 8 /\ ExitString \in Seq(Char) /\ \A i \in 1 .. 8 : ExitString[i] \notin {Nul, " "}
<1>1. ExitString[1] = "D" /\ ExitString[2] = "O" /\ ExitString[3] = "N" /\ ExitString[4] = "E"
      /\ ExitString[5] = "!" /\ ExitString[6] = "!" /\ ExitString[7] = "!" /\ ExitString[8] = "nl"
      /\ Len(ExitString) = 8
  BY DEF ExitString
<1>2. 1 .. 8 = {1, 2, 3, 4, 5, 6, 7, 8}
  OBVIOUS
<1> QED BY <1>1, <1>2, CharFacts DEF Nul

\* remove_nonprint leaves the message's characters as they are, and makes none.
LEMMA PrintableFacts ==
  ASSUME NEW s \in Seq(Char)
  PROVE  /\ Printable(s) \in Seq(Char \cup {" "}) /\ Len(Printable(s)) = Len(s)
         /\ Nul \notin Range(Printable(s))
         /\ \A i \in 1 .. Len(s), k \in 1 .. 8 : Printable(s)[i] = ExitString[k] => s[i] = ExitString[k]
<1>1. PICK n \in Nat : n = Len(s) /\ DOMAIN s = 1 .. n
  OBVIOUS
<1>2. PICK r : r = Printable(s)
  OBVIOUS
<1>3. r = [i \in 1 .. n |-> IF s[i] = Nul THEN " " ELSE s[i]]
  BY <1>1, <1>2, Zenon DEF Printable
<1>4. \A i \in 1 .. n : s[i] \in Char
  BY <1>1
<1>5. r \in Seq(Char \cup {" "}) /\ Len(r) = n /\ DOMAIN r = 1 .. n
  <2>1. PICK E : E = Char \cup {" "}
    OBVIOUS
  <2>2. \A i \in 1 .. n : (IF s[i] = Nul THEN " " ELSE s[i]) \in E
    BY <1>4, <2>1
  <2>3. r \in [1 .. n -> E]
    BY <1>3, <2>2
  <2>4. r \in Seq(E) /\ Len(r) = n
    BY <2>3
  <2> QED BY <2>1, <2>3, <2>4
<1>6. \A i \in 1 .. n : r[i] # Nul
  BY <1>3 DEF Nul
<1>7. Nul \notin Range(r)
  BY <1>5, <1>6 DEF Range
<1>8. \A i \in 1 .. n, k \in 1 .. 8 : r[i] = ExitString[k] => s[i] = ExitString[k]
  BY <1>3, Message
<1> QED BY <1>1, <1>2, <1>5, <1>7, <1>8

\* A character longer: the message is matched as far, and one further or anew.
LEMMA StepEnds ==
  ASSUME NEW s \in Seq(Char), NEW j \in 1 .. Len(s), NEW p \in 0 .. 7, Ends(s, j - 1, p),
         NEW c, \A k \in 1 .. 8 : c = ExitString[k] => s[j] = ExitString[k]
  PROVE  Ends(s, j, PosStep(p, c))
<1>1. CASE c = ExitString[p + 1]
  <2>1. PosStep(p, c) = p + 1 /\ p + 1 \in 1 .. 8
    BY <1>1 DEF PosStep, Match
  <2>2. s[j] = ExitString[p + 1]
    BY <1>1, <2>1
  <2>3. ASSUME NEW k \in 1 .. p + 1 PROVE s[(j - (p + 1)) + k] = ExitString[k]
    <3>1. CASE k = p + 1
      <4>1. (j - (p + 1)) + k = j
        BY <3>1
      <4> QED BY <2>2, <3>1, <4>1
    <3>2. CASE k # p + 1
      <4>1. k \in 1 .. p /\ (j - (p + 1)) + k = ((j - 1) - p) + k
        BY <3>2
      <4> QED BY <4>1 DEF Ends
    <3> QED BY <3>1, <3>2
  <2>4. p + 1 <= j
    BY DEF Ends
  <2>5. Ends(s, j, p + 1)
    BY <2>3, <2>4 DEF Ends
  <2> QED BY <2>1, <2>5
<1>2. CASE c # ExitString[p + 1]
  <2>1. PosStep(p, c) = 0
    BY <1>2 DEF PosStep, Match
  <2>2. Ends(s, j, 0)
    BY DEF Ends
  <2> QED BY <2>1, <2>2
<1> QED BY <1>1, <1>2

\* What has been seen stays seen.
LEMMA SeenOn ==
  ASSUME NEW a \in Seq(Char), NEW b \in Seq(Char)
  PROVE  /\ Seen(a) => Seen(a \o b)
         /\ \A j \in 0 .. Len(a), i \in 0 .. 8 : Ends(a, j, i) => Ends(a \o b, j, i)
<1>1. PICK r : r = a \o b
  OBVIOUS
<1>2. Len(r) = Len(a) + Len(b) /\ \A i \in 1 .. Len(a) : r[i] = a[i]
  BY <1>1
<1>3. Len(a) \in Nat /\ Len(b) \in Nat
  OBVIOUS
<1>4. ASSUME NEW j \in 0 .. Len(a), NEW i \in 0 .. 8, Ends(a, j, i)
      PROVE  Ends(r, j, i)
  <2>1. i <= j /\ \A k \in 1 .. i : (j - i) + k \in 1 .. Len(a)
    BY <1>3, <1>4 DEF Ends
  <2> QED BY <1>2, <1>4, <2>1 DEF Ends
<1>5. Seen(a) => Seen(r)
  <2> SUFFICES ASSUME NEW j \in 8 .. Len(a), Ends(a, j, 8) PROVE Seen(r)
    BY DEF Seen
  <2>1. j \in 0 .. Len(a) /\ j \in 8 .. Len(r) /\ 8 \in 0 .. 8
    BY <1>2, <1>3
  <2> QED BY <1>4, <2>1 DEF Seen
<1> QED BY <1>1, <1>4, <1>5

LEMMA EchoSees == EchoInv /\ Echo => EchoInv'
<1> SUFFICES ASSUME EchoInv, Echo PROVE EchoInv'
  OBVIOUS
<1>1. PICK n \in 1 .. Len(line) :
        /\ line' = SubSeq(line, n + 1, Len(line)) /\ got' = got \o SubSeq(line, 1, n)
        /\ pos' = Pos(Printable(SubSeq(line, 1, n)))
        /\ echo' = IF pos' = 8 THEN "done" ELSE "reading"
  BY DEF Echo
<1>2. echo = "reading"
  BY DEF Echo
<1>3. PICK b \in Seq(Char) : b = SubSeq(line, 1, n)
  <2>1. SubSeq(line, 1, n) \in Seq(Char)
    BY DEF EchoInv
  <2> QED BY <2>1
<1>4. line' \in Seq(Char)
  BY <1>1 DEF EchoInv
<1>5. PICK g \in Seq(Char) : g = got
  BY DEF EchoInv
<1>6. PICK r \in Seq(Char) : r = g \o b /\ r = got'
  <2>1. g \o b \in Seq(Char)
    OBVIOUS
  <2> QED BY <1>1, <1>3, <1>5, <2>1, Zenon
<1>7. PICK m \in Nat, l \in Nat : m = Len(g) /\ l = Len(b)
  OBVIOUS
<1>8. Len(r) = m + l /\ (\A i \in 1 .. l : r[m + i] = b[i])
  <2>1. Len(g \o b) = Len(g) + Len(b) /\ (\A i \in 1 .. Len(b) : (g \o b)[Len(g) + i] = b[i])
    BY Joined
  <2> QED BY <1>6, <1>7, <2>1, Zenon
<1>9. PICK p : p = Printable(b)
  OBVIOUS
<1>10. /\ p \in Seq(Char \cup {" "}) /\ Len(p) = l /\ Nul \notin Range(p)
       /\ \A i \in 1 .. l, k \in 1 .. 8 : p[i] = ExitString[k] => b[i] = ExitString[k]
  <2>1. /\ Printable(b) \in Seq(Char \cup {" "}) /\ Len(Printable(b)) = Len(b)
        /\ Nul \notin Range(Printable(b))
        /\ \A i \in 1 .. Len(b), k \in 1 .. 8 : Printable(b)[i] = ExitString[k] => b[i] = ExitString[k]
    BY PrintableFacts
  <2> QED BY <1>7, <1>9, <2>1, Zenon
<1>11. PICK F : PosRun(F, p, pos) /\ pos' = F[Len(p)]
  <2>1. pos' = Pos(p) /\ pos \in 0 .. 8
    BY <1>1, <1>3, <1>9 DEF EchoInv
  <2> QED BY <1>10, <2>1, PosRuns, Zenon
<1>12. /\ F \in [0 .. l -> 0 .. 8] /\ F[0] = pos /\ pos' = F[l]
       /\ \A k \in 1 .. l : F[k] = PosStep(F[k - 1], p[k])
  BY <1>10, <1>11 DEF PosRun
<1>13. Seen(g) => Seen(r)
  BY <1>6, SeenOn
<1>14. \A k \in 0 .. l : IF F[k] = 8 THEN Seen(r) ELSE Ends(r, m + k, F[k])
  <2> DEFINE T == {k \in 0 .. l : ~ IF F[k] = 8 THEN Seen(r) ELSE Ends(r, m + k, F[k])}
  <2>1. SUFFICES ASSUME T # {} PROVE FALSE
    OBVIOUS
  <2>2. T \in SUBSET Nat
    OBVIOUS
  <2>3. PICK k \in T : \A i \in T : k <= i
    BY <2>1, <2>2, NatLeast
  <2>4. k \in 0 .. l /\ ~ IF F[k] = 8 THEN Seen(r) ELSE Ends(r, m + k, F[k])
    OBVIOUS
  <2>5. k # 0
    <3>1. CASE pos = 8
      BY <1>5, <1>12, <1>13, <2>4, <3>1 DEF EchoInv
    <3>2. CASE pos # 8
      <4>1. Ends(g, m, pos) /\ m \in 0 .. Len(g) /\ pos \in 0 .. 8
        BY <1>5, <1>7, <3>2 DEF EchoInv
      <4>2. Ends(r, m, pos)
        BY <1>6, <4>1, SeenOn
      <4> QED BY <1>12, <2>4, <3>2, <4>2
    <3> QED BY <3>1, <3>2
  <2>6. k \in 1 .. l /\ k - 1 \in 0 .. l /\ k - 1 \notin T
    BY <2>3, <2>4, <2>5
  <2>7. IF F[k - 1] = 8 THEN Seen(r) ELSE Ends(r, m + (k - 1), F[k - 1])
    BY <2>6
  <2>8. F[k] = PosStep(F[k - 1], p[k])
    BY <1>12, <2>6
  <2>9. CASE F[k - 1] = 8
    <3>1. F[k] = 8
      BY <2>8, <2>9 DEF PosStep
    <3> QED BY <2>4, <2>7, <2>9, <3>1
  <2>10. CASE F[k - 1] # 8
    <3>1. PICK q \in 0 .. 7 : q = F[k - 1]
      <4>1. F[k - 1] \in 0 .. 8
        BY <1>12, <2>6
      <4> QED BY <2>10, <4>1
    <3>2. m + k \in 1 .. Len(r) /\ (m + k) - 1 = m + (k - 1)
      BY <1>8, <2>6, SMTT(60)
    <3>3. \A i \in 1 .. 8 : p[k] = ExitString[i] => r[m + k] = ExitString[i]
      BY <1>8, <1>10, <2>6
    <3>4. Ends(r, (m + k) - 1, q)
      BY <2>7, <2>10, <3>1, <3>2
    <3>5. Ends(r, m + k, PosStep(q, p[k]))
      BY <3>2, <3>3, <3>4, StepEnds
    <3>6. F[k] = 8 => Seen(r)
      <4> SUFFICES ASSUME F[k] = 8 PROVE Seen(r)
        OBVIOUS
      <4>1. Ends(r, m + k, 8)
        BY <2>8, <3>1, <3>5
      <4>2. m + k \in 8 .. Len(r)
        BY <3>2, <4>1 DEF Ends
      <4> QED BY <4>1, <4>2 DEF Seen
    <3> QED BY <2>4, <2>8, <3>1, <3>5, <3>6
  <2> QED BY <2>9, <2>10
<1>15. IF pos' = 8 THEN Seen(r) ELSE Ends(r, Len(r), pos')
  <2>1. l \in 0 .. l
    OBVIOUS
  <2> QED BY <1>8, <1>12, <1>14, <2>1
<1>16. pos' \in 0 .. 8
  <2>1. l \in 0 .. l
    OBVIOUS
  <2> QED BY <1>12, <2>1
<1>17. (pos # 8 => Ends(got, Len(got), pos))' /\ (pos = 8 \/ echo = "done" => Seen(got))'
  BY <1>1, <1>6, <1>15 DEF Ends, Seen
<1>18. echo' \in {"reading", "done", "gone"} /\ got' \in Seq(Char)
  BY <1>1, <1>6
<1> QED BY <1>4, <1>16, <1>17, <1>18 DEF EchoInv

\* The other steps read nothing.
LEMMA EchoRests == EchoInv /\ PrintInv' /\ [Next]_vars /\ ~Echo => EchoInv'
<1> SUFFICES ASSUME EchoInv, PrintInv', [Next]_vars, ~Echo PROVE EchoInv'
  OBVIOUS
<1>1. UNCHANGED <<pos, got>> /\ (echo' = echo \/ echo' = "gone")
  BY DEF Next, Program, Handler, Putc, UartInit, Flush, Reboot, EnableInterrupts, Detect, GpioWrite,
         Delay, TestAssert, Assign, TimerInit, GprofInit, Loop, DumpOne, GpioHandler, GprofHandler,
         Tick, Bounce, Transmit, Unplug, laptop, vars
<1>2. line' \in Seq(Char)
  BY DEF PrintInv, PrintTypes
<1> QED BY <1>1, <1>2 DEF EchoInv, Ends, Seen

\* Where the message stands.
LEMMA SeenIsDone ==
  ASSUME NEW s \in Seq(Char), Seen(s)
  PROVE  \E i \in DOMAIN s : IsPrefix(ExitString, SubSeq(s, i, Len(s)))
<1>1. PICK j \in 8 .. Len(s) : Ends(s, j, 8)
  BY DEF Seen
<1>2. PICK i : i = j - 7
  OBVIOUS
<1>3. PICK n \in Nat : n = Len(s) /\ DOMAIN s = 1 .. n
  OBVIOUS
<1>4. i \in 1 .. n /\ j \in 8 .. n /\ j <= n
  BY <1>1, <1>2, <1>3
<1>5. \A k \in 1 .. 8 : s[(i + k) - 1] = ExitString[k]
  <2> TAKE k \in 1 .. 8
  <2>1. (j - 8) + k = (i + k) - 1
    BY <1>1, <1>2
  <2> QED BY <1>1, <2>1 DEF Ends
<1>6. PICK t : t = SubSeq(s, i, n)
  OBVIOUS
<1>7. t \in Seq(Char) /\ Len(t) = (n - i) + 1 /\ \A k \in 1 .. (n - i) + 1 : t[k] = s[(i + k) - 1]
  BY <1>3, <1>4, <1>6
<1>8. \A k \in 1 .. 8 : t[k] = ExitString[k]
  <2> TAKE k \in 1 .. 8
  <2>1. k \in 1 .. (n - i) + 1
    BY <1>2, <1>4
  <2> QED BY <1>5, <1>7, <2>1
<1>9. Len(t) >= 8
  BY <1>2, <1>4, <1>7
<1>10. PICK m \in Seq(Char) : m = ExitString /\ Len(m) = 8
  BY Message
<1>a. Len(m) >= 8
  BY <1>10
<1>11. SubSeq(m, 1, 8) = SubSeq(t, 1, 8)
  <2>1. /\ SubSeq(m, 1, 8) \in Seq(Char) /\ Len(SubSeq(m, 1, 8)) = 8
        /\ \A k \in 1 .. 8 : SubSeq(m, 1, 8)[k] = m[k]
    BY <1>a
  <2>2. /\ SubSeq(t, 1, 8) \in Seq(Char) /\ Len(SubSeq(t, 1, 8)) = 8
        /\ \A k \in 1 .. 8 : SubSeq(t, 1, 8)[k] = t[k]
    BY <1>7, <1>9
  <2> HIDE <1>10
  <2>3. \A k \in 1 .. 8 : m[k] = t[k]
    BY <1>8, <1>10
  <2> QED BY <2>1, <2>2, <2>3
<1>12. IsPrefix(m, t)
  BY <1>7, <1>9, <1>10, <1>11 DEF IsPrefix
<1> QED BY <1>3, <1>4, <1>6, <1>10, <1>12

LEMMA SessionEchoNext ==
  PrintInv /\ Silent /\ EchoInv /\ [SessionNext]_svars => EchoInv'
<1> SUFFICES ASSUME PrintInv, Silent, EchoInv, [SessionNext]_svars PROVE EchoInv'
  OBVIOUS
<1>1. PrintInv'
  BY SessionPrintNext
<1>2. CASE Next
  BY <1>1, <1>2, EchoSees, EchoRests
<1>3. CASE Finish \/ UNCHANGED lvars \/ UNCHANGED svars
  <2>1. UNCHANGED <<pos, got, echo>>
    BY <1>3 DEF Finish, lvars, svars, vars, laptop
  <2>2. line' \in Seq(Char)
    BY <1>1 DEF PrintInv, PrintTypes
  <2> QED BY <2>1, <2>2 DEF EchoInv, Ends, Seen
<1> QED BY <1>2, <1>3, DebugStepFrame DEF SessionNext

LEMMA SessionEchoInit == SessionInit => EchoInv
<1> SUFFICES ASSUME SessionInit PROVE EchoInv
  OBVIOUS
<1>1. Reset
  BY DEF SessionInit, Init
<1>2. pos = 0 /\ got = <<>> /\ line = <<>> /\ echo = "reading"
  BY <1>1 DEF Reset
<1> QED BY <1>2 DEF EchoInv, Ends

\* pi_echo ends well only when the message stands in what it has read, for every
\* cut of the text by its reads, and whatever is not printable between.
THEOREM ExitStringMeansDone == SessionSpec => []ExitMeansDone
<1>1. EchoInv => ExitMeansDone
  BY SeenIsDone DEF EchoInv, ExitMeansDone
<1>2. SessionInit => PrintInv /\ Silent /\ EchoInv
  BY SessionPrintInit, SilentInit, SessionEchoInit
<1>3. (PrintInv /\ Silent /\ EchoInv) /\ [SessionNext]_svars => (PrintInv /\ Silent /\ EchoInv)'
  BY SessionPrintNext, SilentNext, SessionEchoNext
<1> QED BY <1>1, <1>2, <1>3, PTL DEF SessionSpec

-----------------------------------------------------------------------------
(* The gpio test without a fault: what its assertions will find.           *)

\* What the test knows of the wire: its level, the edges that are counted or
\* will be, test3's b, whether edges are detected, and whether all are counted.
State(l, r, f, b, d, q) ==
  [level |-> l, rise |-> r, fall |-> f, before |-> b, detect |-> d, quiet |-> q]
Of(x, w) == IF w = "rise" THEN x.rise ELSE x.fall

\* The steps that leave all of it alone, and those of them that tell of no failure.
Idle == {"puts", "flush", "settle", "reboot", "uart_init", "irqs", "timer", "gprof_init", "loop",
         "dump"}
Harmless(s) == s[1] \in Idle /\ (s[1] = "puts" => Panic \notin Range(s[2]))
IdleStep == {s \in Step : Harmless(s)}

SameBut(x, y, F) ==
  /\ "level" \notin F => y.level = x.level
  /\ "rise" \notin F => y.rise = x.rise
  /\ "fall" \notin F => y.fall = x.fall
  /\ "before" \notin F => y.before = x.before
  /\ "detect" \notin F => y.detect = x.detect
  /\ "quiet" \notin F => y.quiet = x.quiet

\* The step s takes x to y, and its assertion, if it is one, holds.
Does(s, x, y) ==
  \/ Harmless(s) /\ y = x
  \/ s[1] = "detect" /\ y.detect = 1 /\ SameBut(x, y, {"detect"})
  \/ /\ s[1] = "write" /\ x.quiet = 1 /\ x.detect = 1 /\ s[2] # x.level
     /\ y.level = s[2] /\ y.quiet = 0 /\ Of(y, Way(s[2])) = Of(x, Way(s[2])) + 1
     /\ SameBut(x, y, {"level", "quiet", Way(s[2])})
  \/ s[1] = "delay" /\ y.quiet = 1 /\ SameBut(x, y, {"quiet"})
  \/ s[1] = "assert" /\ x.quiet = 1 /\ Of(x, s[2]) = s[3] /\ y = x
  \/ s[1] = "more" /\ x.quiet = 1 /\ x.before + 1 = Of(x, s[2]) /\ y = x
  \/ s[1] = "zero" /\ x.quiet = 1 /\ Of(y, s[2]) = 0 /\ SameBut(x, y, {s[2]})
  \/ s[1] = "save" /\ x.quiet = 1 /\ y.before = Of(x, s[2]) /\ SameBut(x, y, {"before"})

\* The steps of t take x to y, by way of h.
Leads(h, t, x, y) ==
  h[0] = x /\ h[Len(t)] = y /\ \A i \in 1 .. Len(t) : Does(t[i], h[i - 1], h[i])
PassesTo(t, x, y) == \E h : Leads(h, t, x, y)

LEMMA PassesIdle ==
  ASSUME NEW t \in Seq(IdleStep), NEW x
  PROVE  PassesTo(t, x, x)
<1>0. \A i \in 1 .. Len(t) : Harmless(t[i])
  BY DEF IdleStep
<1>1. PICK h : h = [i \in 0 .. Len(t) |-> x]
  OBVIOUS
<1>2. \A i \in 0 .. Len(t) : h[i] = x
  BY <1>1
<1>3. 0 \in 0 .. Len(t) /\ Len(t) \in 0 .. Len(t) /\ \A i \in 1 .. Len(t) : i \in 0 .. Len(t) /\ i - 1 \in 0 .. Len(t)
  OBVIOUS
<1>4. \A i \in 1 .. Len(t) : Does(t[i], h[i - 1], h[i])
  BY <1>0, <1>2, <1>3 DEF Does
<1> QED BY <1>2, <1>3, <1>4 DEF PassesTo, Leads

LEMMA PassesOne ==
  ASSUME NEW s \in Step, NEW x, NEW y, Does(s, x, y)
  PROVE  PassesTo(<<s>>, x, y)
<1>1. PICK t : t = <<s>>
  OBVIOUS
<1>2. Len(t) = 1 /\ t[1] = s
  BY <1>1
<1>3. PICK h : h = [i \in 0 .. 1 |-> IF i = 0 THEN x ELSE y]
  OBVIOUS
<1>4. h[0] = x /\ h[1] = y
  BY <1>3
<1>5. \A i \in 1 .. 1 : i = 1 /\ i - 1 = 0
  OBVIOUS
<1>6. \A i \in 1 .. 1 : Does(t[i], h[i - 1], h[i])
  BY <1>2, <1>4, <1>5
<1>7. Leads(h, t, x, y)
  BY <1>2, <1>4, <1>6 DEF Leads
<1> QED BY <1>1, <1>7, Zenon DEF PassesTo

LEMMA PassesConcat ==
  ASSUME NEW p \in Seq(Step), NEW q \in Seq(Step), NEW x, NEW y, NEW z,
         PassesTo(p, x, y), PassesTo(q, y, z)
  PROVE  PassesTo(p \o q, x, z)
<1>1. PICK a, b : Leads(a, p, x, y) /\ Leads(b, q, y, z)
  BY DEF PassesTo
<1>2. PICK m \in Nat, n \in Nat : m = Len(p) /\ n = Len(q)
  OBVIOUS
<1>3. PICK r \in Seq(Step) : r = p \o q
  <2>1. p \o q \in Seq(Step)
    OBVIOUS
  <2> QED BY <2>1
<1>4. Len(r) = m + n /\ (\A i \in 1 .. m : r[i] = p[i]) /\ (\A i \in 1 .. n : r[m + i] = q[i])
  <2>1. /\ Len(p \o q) = Len(p) + Len(q) /\ (\A i \in 1 .. Len(p) : (p \o q)[i] = p[i])
        /\ \A i \in 1 .. Len(q) : (p \o q)[Len(p) + i] = q[i]
    BY Joined
  <2> QED BY <1>2, <1>3, <2>1, Zenon
<1>5. PICK h : h = [i \in 0 .. m + n |-> IF i <= m THEN a[i] ELSE b[i - m]]
  OBVIOUS
<1>6. /\ a[0] = x /\ a[m] = y /\ b[0] = y /\ b[n] = z
      /\ \A i \in 1 .. m : Does(p[i], a[i - 1], a[i])
      /\ \A i \in 1 .. n : Does(q[i], b[i - 1], b[i])
  BY <1>1, <1>2 DEF Leads
<1>7. \A i \in 0 .. m : h[i] = a[i]
  BY <1>5
<1>8. \A i \in 0 .. n : h[m + i] = b[i]
  <2> TAKE i \in 0 .. n
  <2>1. CASE i = 0
    BY <1>6, <1>7, <2>1
  <2>2. CASE i # 0
    <3>1. m + i \in 0 .. m + n /\ ~(m + i <= m) /\ (m + i) - m = i
      BY <2>2
    <3> QED BY <1>5, <3>1
  <2> QED BY <2>1, <2>2
<1>9. ASSUME NEW i \in 1 .. m + n PROVE Does(r[i], h[i - 1], h[i])
  <2>1. CASE i <= m
    <3>1. i \in 1 .. m /\ i \in 0 .. m /\ i - 1 \in 0 .. m
      BY <2>1
    <3> QED BY <1>4, <1>6, <1>7, <3>1
  <2>2. CASE ~(i <= m)
    <3>1. PICK j \in 1 .. n : i = m + j /\ j \in 0 .. n /\ j - 1 \in 0 .. n /\ i - 1 = m + (j - 1)
      <4>1. i - m \in 1 .. n /\ i = m + (i - m) /\ i - m \in 0 .. n /\ (i - m) - 1 \in 0 .. n
            /\ i - 1 = m + ((i - m) - 1)
        BY <2>2
      <4> QED BY <4>1
    <3>2. r[i] = q[j] /\ h[i] = b[j] /\ h[i - 1] = b[j - 1]
      BY <1>4, <1>8, <3>1
    <3> QED BY <1>6, <3>2
  <2> QED BY <2>1, <2>2
<1>10. h[0] = x /\ h[m + n] = z
  <2>1. 0 \in 0 .. m /\ n \in 0 .. n
    OBVIOUS
  <2> QED BY <1>6, <1>7, <1>8, <2>1
<1>11. Leads(h, r, x, z)
  BY <1>4, <1>9, <1>10 DEF Leads
<1> QED BY <1>3, <1>11, Zenon DEF PassesTo

LEMMA PassesHead ==
  ASSUME NEW t \in Seq(Step), t # <<>>, NEW x, NEW z, PassesTo(t, x, z)
  PROVE  \E y : Does(Head(t), x, y) /\ PassesTo(Tail(t), y, z)
<1>1. PICK h : Leads(h, t, x, z)
  BY DEF PassesTo
<1>2. PICK n \in Nat : n + 1 = Len(t)
  <2>1. Len(t) \in Nat /\ Len(t) # 0
    OBVIOUS
  <2>2. Len(t) - 1 \in Nat /\ (Len(t) - 1) + 1 = Len(t)
    BY <2>1
  <2> QED BY <2>2
<1>3. PICK r : r = Tail(t)
  OBVIOUS
<1>4. Len(r) = n /\ Head(t) = t[1] /\ \A i \in 1 .. n : r[i] = t[i + 1]
  BY <1>2, <1>3
<1>5. PICK g : g = [i \in 0 .. n |-> h[i + 1]]
  OBVIOUS
<1>6. /\ h[0] = x /\ h[n + 1] = z /\ \A i \in 1 .. n + 1 : Does(t[i], h[i - 1], h[i])
  BY <1>1, <1>2 DEF Leads
<1>7. ASSUME NEW i \in 1 .. n PROVE Does(r[i], g[i - 1], g[i])
  <2>1. i + 1 \in 1 .. n + 1 /\ (i + 1) - 1 = i /\ i \in 0 .. n /\ i - 1 \in 0 .. n /\ (i - 1) + 1 = i
    OBVIOUS
  <2>2. r[i] = t[i + 1] /\ g[i] = h[i + 1] /\ g[i - 1] = h[i]
    BY <1>4, <1>5, <2>1
  <2>3. Does(t[i + 1], h[(i + 1) - 1], h[i + 1])
    BY <1>6, <2>1
  <2> QED BY <2>1, <2>2, <2>3
<1>8. g[0] = h[1] /\ g[n] = z
  BY <1>5, <1>6
<1>9. Does(t[1], x, h[1])
  <2>1. 1 \in 1 .. n + 1 /\ 1 - 1 = 0
    OBVIOUS
  <2>2. Does(t[1], h[1 - 1], h[1])
    BY <1>6, <2>1
  <2> QED BY <1>6, <2>1, <2>2
<1>10. Leads(g, r, h[1], z)
  BY <1>4, <1>7, <1>8 DEF Leads
<1> QED BY <1>3, <1>4, <1>9, <1>10, Zenon DEF PassesTo

-----------------------------------------------------------------------------
(* The programs pass.                                                      *)

LEMMA IdlePieces ==
  /\ \A t \in Seq(Char) : Panic \notin Range(t) => puts(t) \in Seq(IdleStep)
  /\ \A t \in Texts : puts(t) \in Seq(IdleStep)
  /\ printk \in Seq(IdleStep) /\ CleanReboot \in Seq(IdleStep)
  /\ \A k \in {"uart_init", "irqs", "timer", "gprof_init"} : <<k>> \in IdleStep
  /\ \A k \in {"loop", "dump"}, n \in Nat : <<k, n>> \in IdleStep
<1>1. ASSUME NEW t \in Seq(Char), Panic \notin Range(t) PROVE puts(t) \in Seq(IdleStep)
  <2>1. PICK s : s = <<"puts", t>>
    OBVIOUS
  <2>2. s \in Step /\ s[1] = "puts" /\ s[2] = t
    BY <2>1, StepFacts
  <2>3. s \in IdleStep
    BY <1>1, <2>2 DEF IdleStep, Harmless, Idle
  <2>4. <<s>> \in Seq(IdleStep)
    BY <2>3
  <2> QED BY <2>1, <2>4 DEF puts
<1>2. ASSUME NEW t \in Texts PROVE puts(t) \in Seq(IdleStep)
  <2>1. t \in Seq(Range(t) \ {None, Panic})
    BY TextAssumption
  <2>2. \A i \in DOMAIN t : t[i] # Panic
    BY <2>1
  <2>3. Panic \notin Range(t)
    BY <2>2 DEF Range
  <2> QED BY <1>1, <2>3, CharFacts
<1>3. Panic \notin Range(<<"x">>) /\ Panic \notin Range(ExitString)
  BY DEF Range, ExitString, Panic
<1>4. printk \in Seq(IdleStep) /\ puts(ExitString) \in Seq(IdleStep)
  BY <1>1, <1>3, CharFacts DEF printk
<1>5. \A k \in {"flush", "settle", "reboot", "uart_init", "irqs", "timer", "gprof_init"} :
        <<k>> \in IdleStep
  BY StepFacts DEF IdleStep, Harmless, Idle
<1>6. \A k \in {"loop", "dump"}, n \in Nat : <<k, n>> \in IdleStep
  BY StepFacts DEF IdleStep, Harmless, Idle
<1>7. << <<"flush">>, <<"settle">>, <<"reboot">> >> \in Seq(IdleStep)
  BY <1>5
<1>8. CleanReboot \in Seq(IdleStep)
  BY <1>4, <1>7 DEF CleanReboot
<1> QED BY <1>1, <1>2, <1>4, <1>5, <1>6, <1>8

LEMMA IdlePrograms == Gprof \in Seq(IdleStep) /\ Dump \in Seq(IdleStep)
<1>1. << <<"timer">>, <<"gprof_init">>, <<"irqs">>, <<"loop", 0>> >> \in Seq(IdleStep)
  BY IdlePieces
<1>2. PICK n \in Nat : n = Cardinality(Code)
  BY LabsAssumption, FS_CardinalityType
<1>3. ASSUME NEW i \in 1 .. n
      PROVE  << <<"dump", i - 1>> >> \in Seq(IdleStep)
  <2>1. i - 1 \in Nat
    OBVIOUS
  <2> QED BY <2>1, IdlePieces
<1>4. PICK d : d = [i \in 1 .. n |-> << <<"dump", i - 1>> >>]
  OBVIOUS
<1>5. d \in Seq(Seq(IdleStep))
  <2>1. d \in [1 .. n -> Seq(IdleStep)]
    BY <1>3, <1>4
  <2> QED BY <2>1
<1>6. FlattenSeq(d) \in Seq(IdleStep)
  BY <1>5, FlattenType
<1>7. Dump \in Seq(IdleStep)
  BY <1>2, <1>4, <1>6, Zenon DEF Dump
<1> QED BY <1>1, <1>7, IdlePieces DEF Gprof

\* A step behind the others, and steps that leave all alone behind them.
LEMMA PassesThen ==
  ASSUME NEW p \in Seq(Step), NEW x, NEW y, PassesTo(p, x, y)
  PROVE  /\ \A s \in Step : \A z : Does(s, y, z) =>
               p \o <<s>> \in Seq(Step) /\ PassesTo(p \o <<s>>, x, z)
         /\ \A q \in Seq(IdleStep) : p \o q \in Seq(Step) /\ PassesTo(p \o q, x, y)
<1>1. ASSUME NEW s \in Step, NEW z, Does(s, y, z)
      PROVE  p \o <<s>> \in Seq(Step) /\ PassesTo(p \o <<s>>, x, z)
  <2>1. PICK q \in Seq(Step) : q = <<s>>
    BY Single
  <2>2. PassesTo(q, y, z)
    BY <1>1, <2>1, PassesOne
  <2>3. p \o q \in Seq(Step) /\ PassesTo(p \o q, x, z)
    BY <2>2, PassesConcat
  <2> QED BY <2>1, <2>3
<1>2. ASSUME NEW q \in Seq(IdleStep)
      PROVE  p \o q \in Seq(Step) /\ PassesTo(p \o q, x, y)
  <2>1. q \in Seq(Step)
    BY DEF IdleStep
  <2>2. PassesTo(q, y, y)
    BY PassesIdle
  <2> QED BY <2>1, <2>2, PassesConcat
<1> QED BY <1>1, <1>2

\* Two steps.
LEMMA Pair ==
  ASSUME NEW E, NEW s \in E, NEW t \in E
  PROVE  <<s>> \o <<t>> = <<s, t>>
<1>1. PICK p \in Seq(E), q \in Seq(E) : p = <<s>> /\ q = <<t>> /\ Len(p) = 1 /\ Len(q) = 1 /\ p[1] = s /\ q[1] = t
  <2>1. /\ <<s>> \in Seq(E) /\ Len(<<s>>) = 1 /\ <<s>>[1] = s
        /\ <<t>> \in Seq(E) /\ Len(<<t>>) = 1 /\ <<t>>[1] = t
    OBVIOUS
  <2> QED BY <2>1
<1>2. PICK r \in Seq(E) : r = p \o q
  <2>1. p \o q \in Seq(E)
    OBVIOUS
  <2> QED BY <2>1
<1>3. Len(r) = 2 /\ r[1] = s /\ r[2] = t
  <2>1. Len(p \o q) = Len(p) + Len(q) /\ (p \o q)[1] = p[1] /\ (p \o q)[1 + 1] = q[1]
    BY <1>1, Joined
  <2> QED BY <1>1, <1>2, <2>1
<1>4. PICK u \in Seq(E) : u = <<s, t>> /\ Len(u) = 2 /\ u[1] = s /\ u[2] = t
  <2>1. <<s, t>> \in Seq(E) /\ Len(<<s, t>>) = 2 /\ <<s, t>>[1] = s /\ <<s, t>>[2] = t
    OBVIOUS
  <2> QED BY <2>1
<1>5. \A i \in 1 .. 2 : r[i] = u[i]
  BY <1>3, <1>4
<1>6. r = u
  BY <1>3, <1>4, <1>5, SeqEqual
<1> QED BY <1>1, <1>2, <1>4, <1>6

LEMMA PassesPair ==
  ASSUME NEW s \in Step, NEW t \in Step, NEW x, NEW y, NEW z, Does(s, x, y), Does(t, y, z)
  PROVE  <<s, t>> \in Seq(Step) /\ PassesTo(<<s, t>>, x, z)
<1>1. PICK p \in Seq(Step) : p = <<s>>
  BY Single
<1>2. PassesTo(p, x, y)
  BY <1>1, PassesOne
<1>3. p \o <<t>> \in Seq(Step) /\ PassesTo(p \o <<t>>, x, z)
  BY <1>2, PassesThen
<1>4. p \o <<t>> = <<s, t>>
  BY <1>1, Pair
<1> QED BY <1>3, <1>4

\* The wire goes to v, and what it counts is handled.
LEMMA WritePasses ==
  ASSUME NEW v \in {0, 1}, NEW r \in Nat, NEW f \in Nat, NEW b \in Nat
  PROVE  Write(v) \in Seq(Step)
         /\ PassesTo(Write(v), State(1 - v, r, f, b, 1, 1), State(v, r + v, f + (1 - v), b, 1, 1))
<1>1. PICK x : x = State(1 - v, r, f, b, 1, 1)
  OBVIOUS
<1>2. PICK y : y = State(v, r + v, f + (1 - v), b, 1, 0)
  OBVIOUS
<1>3. PICK z : z = State(v, r + v, f + (1 - v), b, 1, 1)
  OBVIOUS
<1>4. PICK s \in Step : s = <<"write", v>> /\ s[1] = "write" /\ s[2] = v
  BY StepFacts
<1>5. PICK t \in Step : t = <<"delay">> /\ t[1] = "delay"
  BY StepFacts
<1>6. Does(s, x, y)
  <2>1. CASE v = 0
    <3>1. Way(v) = "fall" /\ 1 - v = 1
      BY <2>1 DEF Way
    <3> QED BY <1>1, <1>2, <1>4, <2>1, <3>1 DEF Does, State, Of, SameBut
  <2>2. CASE v = 1
    <3>1. Way(v) = "rise" /\ 1 - v = 0
      BY <2>2 DEF Way
    <3> QED BY <1>1, <1>2, <1>4, <2>2, <3>1 DEF Does, State, Of, SameBut
  <2> QED BY <2>1, <2>2
<1>7. Does(t, y, z)
  BY <1>2, <1>3, <1>5 DEF Does, State, SameBut
<1>8. <<s, t>> \in Seq(Step) /\ PassesTo(<<s, t>>, x, z)
  BY <1>6, <1>7, PassesPair
<1>9. Write(v) = <<s, t>>
  BY <1>4, <1>5 DEF Write
<1> QED BY <1>1, <1>3, <1>8, <1>9, Zenon

LEMMA AssertStep ==
  ASSUME NEW w \in Ways, NEW n \in Nat
  PROVE  \E s \in Step : s = <<"assert", w, n>> /\ s[1] = "assert" /\ s[2] = w /\ s[3] = n
<1>1. PICK s : s = <<"assert", w, n>>
  OBVIOUS
<1>2. s \in Step
  BY <1>1, StepFacts
<1>3. s[1] = "assert" /\ s[2] = w /\ s[3] = n
  BY <1>1
<1> QED BY <1>1, <1>2, <1>3

\* test1_simple_rise and test2_simple_fall
LEMMA SimplePasses ==
  ASSUME NEW v \in {0, 1}
  PROVE  Simple(Way(v), v) \in Seq(Step)
         /\ PassesTo(Simple(Way(v), v), State(1 - v, 0, 0, 0, 1, 1), State(v, 0, 0, 0, 1, 1))
<1>1. PICK w \in Ways : w = Way(v)
  BY DEF Way, Ways
<1>2. PICK x : x = State(1 - v, 0, 0, 0, 1, 1)
  OBVIOUS
<1>3. PICK y : y = State(v, v, 1 - v, 0, 1, 1)
  OBVIOUS
<1>4. PICK z : z = State(v, 0, 0, 0, 1, 1)
  OBVIOUS
<1>5. PICK s \in Step : s = <<"assert", w, 0>> /\ s[1] = "assert" /\ s[2] = w /\ s[3] = 0
  BY AssertStep
<1>6. PICK t \in Step : t = <<"assert", w, 1>> /\ t[1] = "assert" /\ t[2] = w /\ t[3] = 1
  BY AssertStep
<1>7. PICK u \in Step : u = <<"zero", w>> /\ u[1] = "zero" /\ u[2] = w
  BY StepFacts
<1>8. /\ Of(x, w) = 0 /\ Of(y, w) = 1 /\ Of(z, w) = 0 /\ x.quiet = 1 /\ y.quiet = 1
      /\ SameBut(y, z, {w})
  <2>1. CASE v = 0
    BY <1>1, <1>2, <1>3, <1>4, <2>1 DEF Way, State, Of, SameBut
  <2>2. CASE v = 1
    BY <1>1, <1>2, <1>3, <1>4, <2>2 DEF Way, State, Of, SameBut
  <2> QED BY <2>1, <2>2
<1>9. Does(s, x, x) /\ Does(t, y, y) /\ Does(u, y, z)
  BY <1>5, <1>6, <1>7, <1>8 DEF Does
<1>10. PICK p1 \in Seq(Step) : p1 = <<s>> /\ PassesTo(p1, x, x)
  <2>1. <<s>> \in Seq(Step) /\ PassesTo(<<s>>, x, x)
    BY <1>9, PassesOne, Single
  <2> QED BY <2>1
<1>11. PICK p2 \in Seq(Step) : p2 = p1 \o printk /\ PassesTo(p2, x, x)
  <2>1. p1 \o printk \in Seq(Step) /\ PassesTo(p1 \o printk, x, x)
    BY <1>10, PassesThen, IdlePieces
  <2> QED BY <2>1
<1>12. PICK p3 \in Seq(Step) : p3 = p2 \o Write(v) /\ PassesTo(p3, x, y)
  <2>1. Write(v) \in Seq(Step) /\ PassesTo(Write(v), State(1 - v, 0, 0, 0, 1, 1), State(v, 0 + v, 0 + (1 - v), 0, 1, 1))
    BY WritePasses
  <2>2. 0 + v = v /\ 0 + (1 - v) = 1 - v
    OBVIOUS
  <2>3. PassesTo(Write(v), x, y)
    BY <1>2, <1>3, <2>1, <2>2
  <2>4. p2 \o Write(v) \in Seq(Step)
    BY <2>1
  <2>5. PassesTo(p2 \o Write(v), x, y)
    BY <1>11, <2>1, <2>3, PassesConcat
  <2> QED BY <2>4, <2>5
<1>13. PICK q \in Seq(Step) : q = <<t, u>> /\ PassesTo(q, y, z)
  <2>1. <<t, u>> \in Seq(Step) /\ PassesTo(<<t, u>>, y, z)
    BY <1>9, PassesPair
  <2> QED BY <2>1
<1>14. PICK p4 \in Seq(Step) : p4 = p3 \o q /\ PassesTo(p4, x, z)
  <2>1. p3 \o q \in Seq(Step)
    OBVIOUS
  <2>2. PassesTo(p3 \o q, x, z)
    BY <1>12, <1>13, PassesConcat
  <2> QED BY <2>1, <2>2
<1>15. PICK p5 \in Seq(Step) : p5 = p4 \o printk /\ PassesTo(p5, x, z)
  <2>1. p4 \o printk \in Seq(Step) /\ PassesTo(p4 \o printk, x, z)
    BY <1>14, PassesThen, IdlePieces
  <2> QED BY <2>1
<1>16. Simple(w, v) = p5
  BY <1>5, <1>6, <1>7, <1>10, <1>11, <1>12, <1>13, <1>14, <1>15, Zenon DEF Simple
<1> QED BY <1>1, <1>2, <1>4, <1>15, <1>16, Zenon

\* one edge of test3_full_test
LEMMA EdgePasses ==
  ASSUME NEW v \in {0, 1}, NEW r \in Nat, NEW f \in Nat, NEW b \in Nat
  PROVE  Edge(Way(v), v) \in Seq(Step)
         /\ PassesTo(Edge(Way(v), v), State(1 - v, r, f, b, 1, 1),
                     State(v, r + v, f + (1 - v), IF v = 1 THEN r ELSE f, 1, 1))
<1>1. PICK w \in Ways : w = Way(v)
  BY DEF Way, Ways
<1>2. PICK c \in Nat : c = IF v = 1 THEN r ELSE f
  OBVIOUS
<1>3. PICK x : x = State(1 - v, r, f, b, 1, 1)
  OBVIOUS
<1>4. PICK y : y = State(1 - v, r, f, c, 1, 1)
  OBVIOUS
<1>5. PICK z : z = State(v, r + v, f + (1 - v), c, 1, 1)
  OBVIOUS
<1>6. PICK s \in Step : s = <<"save", w>> /\ s[1] = "save" /\ s[2] = w
  BY StepFacts
<1>7. PICK t \in Step : t = <<"more", w>> /\ t[1] = "more" /\ t[2] = w
  BY StepFacts
<1>8. x.quiet = 1 /\ z.quiet = 1 /\ y.before = Of(x, w) /\ z.before + 1 = Of(z, w)
      /\ SameBut(x, y, {"before"})
  <2>1. CASE v = 0
    BY <1>1, <1>2, <1>3, <1>4, <1>5, <2>1 DEF Way, State, Of, SameBut
  <2>2. CASE v = 1
    BY <1>1, <1>2, <1>3, <1>4, <1>5, <2>2 DEF Way, State, Of, SameBut
  <2> QED BY <2>1, <2>2
<1>9. Does(s, x, y) /\ Does(t, z, z)
  BY <1>6, <1>7, <1>8 DEF Does
<1>10. PICK p1 \in Seq(Step) : p1 = <<s>> /\ PassesTo(p1, x, y)
  <2>1. <<s>> \in Seq(Step) /\ PassesTo(<<s>>, x, y)
    BY <1>9, PassesOne, Single
  <2> QED BY <2>1
<1>11. PICK p2 \in Seq(Step) : p2 = p1 \o printk /\ PassesTo(p2, x, y)
  <2>1. p1 \o printk \in Seq(Step) /\ PassesTo(p1 \o printk, x, y)
    BY <1>10, PassesThen, IdlePieces
  <2> QED BY <2>1
<1>12. PICK p3 \in Seq(Step) : p3 = p2 \o Write(v) /\ PassesTo(p3, x, z)
  <2>1. Write(v) \in Seq(Step) /\ PassesTo(Write(v), y, z)
    BY <1>4, <1>5, WritePasses
  <2>2. p2 \o Write(v) \in Seq(Step)
    BY <2>1
  <2>3. PassesTo(p2 \o Write(v), x, z)
    BY <1>11, <2>1, PassesConcat
  <2> QED BY <2>2, <2>3
<1>13. PICK p4 \in Seq(Step) : p4 = p3 \o printk /\ PassesTo(p4, x, z)
  <2>1. p3 \o printk \in Seq(Step) /\ PassesTo(p3 \o printk, x, z)
    BY <1>12, PassesThen, IdlePieces
  <2> QED BY <2>1
<1>14. PICK p5 \in Seq(Step) : p5 = p4 \o <<t>> /\ PassesTo(p5, x, z)
  <2>1. p4 \o <<t>> \in Seq(Step) /\ PassesTo(p4 \o <<t>>, x, z)
    BY <1>9, <1>13, PassesThen
  <2> QED BY <2>1
<1>15. Edge(w, v) = p5
  BY <1>6, <1>7, <1>10, <1>11, <1>12, <1>13, <1>14, Zenon DEF Edge
<1> QED BY <1>1, <1>2, <1>3, <1>5, <1>14, <1>15, Zenon

\* What test3_full_test knows after i rounds.
Round(i) == State(0, i, i, IF i = 0 THEN 0 ELSE i - 1, 1, 1)

LEMMA RoundPasses ==
  ASSUME NEW i \in Nat
  PROVE  Edge("rise", 1) \o Edge("fall", 0) \in Seq(Step)
         /\ PassesTo(Edge("rise", 1) \o Edge("fall", 0), Round(i), Round(i + 1))
<1>1. Way(1) = "rise" /\ Way(0) = "fall"
  BY DEF Way
<1>2. PICK b \in Nat : b = IF i = 0 THEN 0 ELSE i - 1
  OBVIOUS
<1>3. PICK p \in Seq(Step) : p = Edge("rise", 1) /\ PassesTo(p, State(0, i, i, b, 1, 1), State(1, i + 1, i, i, 1, 1))
  <2>1. Edge(Way(1), 1) \in Seq(Step)
        /\ PassesTo(Edge(Way(1), 1), State(1 - 1, i, i, b, 1, 1),
                    State(1, i + 1, i + (1 - 1), IF 1 = 1 THEN i ELSE i, 1, 1))
    BY EdgePasses
  <2>2. 1 - 1 = 0 /\ i + (1 - 1) = i
    OBVIOUS
  <2> QED BY <1>1, <2>1, <2>2
<1>4. PICK q \in Seq(Step) : q = Edge("fall", 0)
                             /\ PassesTo(q, State(1, i + 1, i, i, 1, 1), State(0, i + 1, i + 1, i, 1, 1))
  <2>1. Edge(Way(0), 0) \in Seq(Step)
        /\ PassesTo(Edge(Way(0), 0), State(1 - 0, i + 1, i, i, 1, 1),
                    State(0, (i + 1) + 0, i + (1 - 0), IF 0 = 1 THEN i + 1 ELSE i, 1, 1))
    BY EdgePasses
  <2>2. 1 - 0 = 1 /\ (i + 1) + 0 = i + 1 /\ i + (1 - 0) = i + 1 /\ (IF 0 = 1 THEN i + 1 ELSE i) = i
    OBVIOUS
  <2> QED BY <1>1, <2>1, <2>2
<1>5. p \o q \in Seq(Step)
  OBVIOUS
<1>6. PassesTo(p \o q, State(0, i, i, b, 1, 1), State(0, i + 1, i + 1, i, 1, 1))
  BY <1>3, <1>4, PassesConcat
<1>7. Round(i) = State(0, i, i, b, 1, 1) /\ Round(i + 1) = State(0, i + 1, i + 1, i, 1, 1)
  <2>1. (IF i + 1 = 0 THEN 0 ELSE (i + 1) - 1) = i
    OBVIOUS
  <2> QED BY <1>2, <2>1, Zenon DEF Round
<1> QED BY <1>3, <1>4, <1>5, <1>6, <1>7, Zenon

LEMMA RoundsPass ==
  ASSUME NEW n \in Nat, NEW s, s = [i \in 1 .. n |-> Edge("rise", 1) \o Edge("fall", 0)]
  PROVE  FlattenSeq(s) \in Seq(Step) /\ PassesTo(FlattenSeq(s), Round(0), Round(n))
<1>1. PICK e \in Seq(Step) : e = Edge("rise", 1) \o Edge("fall", 0)
  BY RoundPasses
<1>2. \A i \in Nat : PassesTo(e, Round(i), Round(i + 1))
  BY <1>1, RoundPasses
<1>3. s = [i \in 1 .. n |-> e]
  BY <1>1, Zenon
<1>4. s \in Seq(Seq(Step)) /\ Len(s) = n /\ \A i \in 1 .. n : s[i] = e
  <2>1. PICK S : S = Seq(Step)
    OBVIOUS
  <2>2. e \in S
    BY <2>1
  <2>3. s \in [1 .. n -> S] /\ \A i \in 1 .. n : s[i] = e
    BY <1>3, <2>2
  <2>4. s \in Seq(S) /\ Len(s) = n
    BY <2>3, SMTT(60)
  <2> QED BY <2>1, <2>3, <2>4
<1>5. FlattenSeq(s) \in Seq(Step)
  BY <1>4, FlattenType
<1>6. CASE n = 0
  <2>1. FlattenSeq(s) = <<>>
    <3>1. s = <<>>
      BY <1>4, <1>6
    <3> QED BY <1>4, <3>1, FlattenIsFlat
  <2>2. <<>> \in Seq(IdleStep)
    OBVIOUS
  <2> QED BY <1>5, <1>6, <2>1, <2>2, PassesIdle
<1>7. CASE n # 0
  <2>1. s # <<>>
    BY <1>4, <1>7
  <2>2. PICK f : IsFlat(f, s, n) /\ FlattenSeq(s) = f[n]
    BY <1>4, <2>1, FlattenIsFlat
  <2>3. \A i \in 1 .. n : f[i] \in Seq(Step)
    BY <1>4, <2>2, FlatType
  <2>4. \A i \in 1 .. n : f[i] = IF i = 1 THEN e ELSE f[i - 1] \o e
    <3> TAKE i \in 1 .. n
    <3>1. f[i] = IF i = 1 THEN s[i] ELSE f[i - 1] \o s[i]
      BY <2>2 DEF IsFlat
    <3> QED BY <1>4, <3>1
  <2> DEFINE T == {i \in 1 .. n : ~ PassesTo(f[i], Round(0), Round(i))}
  <2>5. T = {}
    <3>1. SUFFICES ASSUME T # {} PROVE FALSE
      OBVIOUS
    <3>2. T \in SUBSET Nat
      OBVIOUS
    <3>3. PICK i \in T : \A j \in T : i <= j
      BY <3>1, <3>2, NatLeast
    <3>4. i \in 1 .. n /\ ~ PassesTo(f[i], Round(0), Round(i))
      OBVIOUS
    <3>5. CASE i = 1
      <4>1. PassesTo(e, Round(0), Round(0 + 1)) /\ 0 + 1 = 1
        BY <1>2
      <4> QED BY <2>4, <3>4, <3>5, <4>1
    <3>6. CASE i # 1
      <4>1. PICK j \in 1 .. n : i = j + 1 /\ i - 1 = j
        <5>1. i - 1 \in 1 .. n /\ i = (i - 1) + 1
          BY <3>4, <3>6
        <5> QED BY <5>1
      <4>2. j \notin T
        BY <3>3, <4>1
      <4>3. PassesTo(f[j], Round(0), Round(j))
        BY <4>2
      <4>4. f[j] \in Seq(Step) /\ f[i] = f[j] \o e
        BY <2>3, <2>4, <3>4, <3>6, <4>1
      <4>5. PassesTo(e, Round(j), Round(i))
        BY <1>2, <4>1
      <4>6. PassesTo(f[j] \o e, Round(0), Round(i))
        BY <4>3, <4>4, <4>5, PassesConcat
      <4> QED BY <3>4, <4>4, <4>6
    <3> QED BY <3>5, <3>6
  <2>6. n \in 1 .. n
    BY <1>7
  <2>7. PassesTo(f[n], Round(0), Round(n))
    BY <2>5, <2>6, Zenon
  <2> QED BY <1>5, <2>2, <2>7
<1> QED BY <1>6, <1>7

\* A test finds no event, and does not look for any yet.
Start == State(0, 0, 0, 0, 0, 1)

LEMMA GpioTestPasses ==
  GpioTest \in Seq(Step) /\ \E z : PassesTo(GpioTest, Start, z)
<1>1. PICK n \in Nat : n = Rounds
  BY LabsAssumption
<1>2. "rise" \in Ways /\ "fall" \in Ways /\ Way(1) = "rise" /\ Way(0) = "fall"
  BY DEF Ways, Way
<1>3. PICK x : x = State(0, 0, 0, 0, 1, 1)
  OBVIOUS
<1>4. PICK g1 \in Seq(Step) : g1 = << <<"uart_init">> >> /\ PassesTo(g1, Start, Start)
  <2>1. PICK s \in IdleStep : s = <<"uart_init">>
    BY IdlePieces
  <2>2. <<s>> \in Seq(IdleStep) /\ s \in Step
    BY DEF IdleStep
  <2>3. PassesTo(<<s>>, Start, Start)
    BY <2>2, PassesIdle
  <2>4. <<s>> \in Seq(Step)
    BY <2>2
  <2> QED BY <2>1, <2>3, <2>4
<1>5. PICK g2 \in Seq(Step) : g2 = g1 \o printk /\ PassesTo(g2, Start, Start)
  <2>1. g1 \o printk \in Seq(Step) /\ PassesTo(g1 \o printk, Start, Start)
    BY <1>4, IdlePieces, PassesThen
  <2> QED BY <2>1
<1>6. PICK g3 \in Seq(Step) : g3 = g2 \o << <<"detect">>, <<"irqs">> >> /\ PassesTo(g3, Start, x)
  <2>1. PICK s \in Step : s = <<"detect">> /\ s[1] = "detect"
    BY StepFacts
  <2>2. PICK t \in Step : t = <<"irqs">> /\ Harmless(t)
    BY IdlePieces DEF IdleStep
  <2>3. Does(s, Start, x) /\ Does(t, x, x)
    BY <1>3, <2>1, <2>2 DEF Does, Start, State, SameBut
  <2>4. <<s, t>> \in Seq(Step) /\ PassesTo(<<s, t>>, Start, x)
    BY <2>3, PassesPair
  <2>5. g2 \o <<s, t>> \in Seq(Step)
    BY <2>4
  <2>6. PassesTo(g2 \o <<s, t>>, Start, x)
    BY <1>5, <2>4, PassesConcat
  <2> QED BY <2>1, <2>2, <2>5, <2>6
<1>7. PICK y : y = State(1, 0, 0, 0, 1, 1)
  OBVIOUS
<1>8. PICK g4 \in Seq(Step) : g4 = g3 \o Simple("rise", 1) /\ PassesTo(g4, Start, y)
  <2>1. Simple(Way(1), 1) \in Seq(Step)
        /\ PassesTo(Simple(Way(1), 1), State(1 - 1, 0, 0, 0, 1, 1), State(1, 0, 0, 0, 1, 1))
    BY SimplePasses
  <2>2. 1 - 1 = 0
    OBVIOUS
  <2>3. PICK p \in Seq(Step) : p = Simple("rise", 1) /\ PassesTo(p, x, y)
    BY <1>2, <1>3, <1>7, <2>1, <2>2
  <2>4. g3 \o p \in Seq(Step)
    OBVIOUS
  <2>5. PassesTo(g3 \o p, Start, y)
    BY <1>6, <2>3, PassesConcat
  <2> QED BY <2>3, <2>4, <2>5
<1>9. PICK g5 \in Seq(Step) : g5 = g4 \o Simple("fall", 0) /\ PassesTo(g5, Start, x)
  <2>1. Simple(Way(0), 0) \in Seq(Step)
        /\ PassesTo(Simple(Way(0), 0), State(1 - 0, 0, 0, 0, 1, 1), State(0, 0, 0, 0, 1, 1))
    BY SimplePasses
  <2>2. 1 - 0 = 1
    OBVIOUS
  <2>3. PICK p \in Seq(Step) : p = Simple("fall", 0) /\ PassesTo(p, y, x)
    BY <1>2, <1>3, <1>7, <2>1, <2>2
  <2>4. g4 \o p \in Seq(Step)
    OBVIOUS
  <2>5. PassesTo(g4 \o p, Start, x)
    BY <1>8, <2>3, PassesConcat
  <2> QED BY <2>3, <2>4, <2>5
<1>10. ASSUME NEW g \in Seq(Step), NEW m \in Nat, NEW r, NEW v \in Ways, NEW w \in Ways,
              PassesTo(g, Start, r), r.quiet = 1, Of(r, v) = m, Of(r, w) = m
       PROVE  /\ g \o << <<"assert", v, m>>, <<"assert", w, m>> >> \in Seq(Step)
              /\ PassesTo(g \o << <<"assert", v, m>>, <<"assert", w, m>> >>, Start, r)
  <2>1. PICK s \in Step : s = <<"assert", v, m>> /\ s[1] = "assert" /\ s[2] = v /\ s[3] = m
    BY AssertStep
  <2>2. PICK t \in Step : t = <<"assert", w, m>> /\ t[1] = "assert" /\ t[2] = w /\ t[3] = m
    BY AssertStep
  <2>3. Does(s, r, r) /\ Does(t, r, r)
    BY <1>10, <2>1, <2>2 DEF Does
  <2>4. <<s, t>> \in Seq(Step) /\ PassesTo(<<s, t>>, r, r)
    BY <2>3, PassesPair
  <2>5. g \o <<s, t>> \in Seq(Step)
    BY <2>4
  <2>6. PassesTo(g \o <<s, t>>, Start, r)
    BY <1>10, <2>4, PassesConcat
  <2> QED BY <2>1, <2>2, <2>5, <2>6
<1>11. PICK g6 \in Seq(Step) : /\ g6 = g5 \o << <<"assert", "fall", 0>>, <<"assert", "rise", 0>> >>
                               /\ PassesTo(g6, Start, x)
  <2>1. x.quiet = 1 /\ Of(x, "fall") = 0 /\ Of(x, "rise") = 0
    BY <1>3 DEF State, Of
  <2>2. /\ g5 \o << <<"assert", "fall", 0>>, <<"assert", "rise", 0>> >> \in Seq(Step)
        /\ PassesTo(g5 \o << <<"assert", "fall", 0>>, <<"assert", "rise", 0>> >>, Start, x)
    BY <1>2, <1>9, <1>10, <2>1
  <2> QED BY <2>2
<1>12. PICK s : s = [i \in 1 .. n |-> Edge("rise", 1) \o Edge("fall", 0)]
  OBVIOUS
<1>13. PICK z : z = Round(n)
  OBVIOUS
<1>14. PICK g7 \in Seq(Step) : g7 = g6 \o FlattenSeq(s) /\ PassesTo(g7, Start, z)
  <2>1. PICK p \in Seq(Step) : p = FlattenSeq(s) /\ PassesTo(p, Round(0), z)
    BY <1>12, <1>13, RoundsPass
  <2>2. Round(0) = x
    BY <1>3 DEF Round
  <2>3. g6 \o p \in Seq(Step)
    OBVIOUS
  <2>4. PassesTo(g6 \o p, Start, z)
    BY <1>11, <2>1, <2>2, PassesConcat
  <2> QED BY <2>1, <2>3, <2>4
<1>15. PICK g8 \in Seq(Step) : /\ g8 = g7 \o << <<"assert", "rise", n>>, <<"assert", "fall", n>> >>
                               /\ PassesTo(g8, Start, z)
  <2>1. z.quiet = 1 /\ Of(z, "fall") = n /\ Of(z, "rise") = n
    BY <1>13 DEF Round, State, Of
  <2>2. /\ g7 \o << <<"assert", "rise", n>>, <<"assert", "fall", n>> >> \in Seq(Step)
        /\ PassesTo(g7 \o << <<"assert", "rise", n>>, <<"assert", "fall", n>> >>, Start, z)
    BY <1>2, <1>10, <1>14, <2>1
  <2> QED BY <2>2
<1>16. PICK g9 \in Seq(Step) : g9 = g8 \o printk /\ PassesTo(g9, Start, z)
  <2>1. g8 \o printk \in Seq(Step) /\ PassesTo(g8 \o printk, Start, z)
    BY <1>15, IdlePieces, PassesThen
  <2> QED BY <2>1
<1>17. GpioTest = g9
  BY <1>1, <1>4, <1>5, <1>6, <1>8, <1>9, <1>11, <1>12, <1>14, <1>15, <1>16, Zenon DEF GpioTest
<1> QED BY <1>16, <1>17

-----------------------------------------------------------------------------
(* Without a fault no assertion fails.                                     *)

\* The edge that the handler is about to count.
Uncounted(w) == IF event /\ hpc # "clear" /\ Way(level) = w THEN 1 ELSE 0

\* The wire and the counts are as the test knows them.
Sees(x) ==
  /\ level = x.level /\ (detect <=> x.detect = 1) /\ before = x.before
  /\ \A w \in Ways : n_edge[w] + Uncounted(w) = Of(x, w)
  /\ x.quiet = 1 => ~event

Passing == \E x, z : PassesTo(todo, x, z) /\ Sees(x)

PassInv ==
  /\ n_edge \in [Ways -> Nat] /\ level \in {0, 1}
  /\ stray => faults > 0
  /\ faults = 0 => Panic \notin Range(printed) /\ Passing

LEMMA HeadDoes ==
  ASSUME PrintInv, NEW k, Is(k), Passing
  PROVE  \E x, y, z : Sees(x) /\ Does(Head(todo), x, y) /\ PassesTo(Rest, y, z)
<1>1. PICK x, z : PassesTo(todo, x, z) /\ Sees(x)
  BY DEF Passing
<1>2. todo \in Seq(Step) /\ todo # <<>>
  BY Goes DEF Chained
<1>3. PICK y : Does(Head(todo), x, y) /\ PassesTo(Tail(todo), y, z)
  BY <1>1, <1>2, PassesHead
<1> QED BY <1>1, <1>3 DEF Rest

LEMMA SeesSame ==
  ASSUME NEW x, UNCHANGED <<hpc, gpio>>
  PROVE  Sees(x) <=> Sees(x)'
  BY DEF Sees, Uncounted, gpio, Way

\* A step that leaves the wire and the counts alone.
LEMMA IdleGoes ==
  ASSUME PrintInv, Passing, UNCHANGED <<hpc, gpio>>, NEW k \in Idle, Is(k),
         NEW p \in Seq(IdleStep), todo' = Rest \/ todo' = p \o Rest \/ todo' = p
  PROVE  Passing'
<1>1. PICK x, y, z : Sees(x) /\ Does(Head(todo), x, y) /\ PassesTo(Rest, y, z)
  BY HeadDoes
<1>2. Head(todo)[1] = k /\ Rest \in Seq(Step)
  BY Goes DEF Chained
<1>3. y = x
  BY <1>1, <1>2 DEF Does, Idle
<1>4. Sees(x)'
  BY <1>1, SeesSame
<1>5. p \in Seq(Step) /\ PassesTo(p, x, x)
  BY PassesIdle DEF IdleStep
<1>6. PassesTo(p \o Rest, x, z)
  BY <1>1, <1>2, <1>3, <1>5, PassesConcat
<1>7. \E w : PassesTo(todo', x, w)
  <2>1. CASE todo' = Rest
    BY <1>1, <1>3, <2>1
  <2>2. CASE todo' = p \o Rest
    BY <1>6, <2>2
  <2>3. CASE todo' = p
    BY <1>5, <2>3
  <2> QED BY <2>1, <2>2, <2>3
<1> QED BY <1>4, <1>7 DEF Passing

\* The text that a puts has yet to print tells of no failure.
LEMMA PutcGoes ==
  ASSUME PrintInv, Passing, Putc, Panic \notin Range(printed)
  PROVE  Passing' /\ Panic \notin Range(printed')
<1>1. Is("puts") /\ UNCHANGED <<hpc, gpio>> /\ "puts" \in Idle
  BY DEF Putc, Idle
<1>2. PICK x, y, z : Sees(x) /\ Does(Head(todo), x, y) /\ PassesTo(Rest, y, z)
  BY <1>1, HeadDoes
<1>3. Head(todo)[1] = "puts" /\ Head(todo) \in Step
  BY <1>1, Goes
<1>4. PICK t \in Seq(Char) : t = Arg(2)
  BY <1>3, PutsArg DEF Arg
<1>5. Panic \notin Range(t)
  BY <1>2, <1>3, <1>4 DEF Does, Harmless, Arg
<1>6. CASE t = <<>>
  <2>1. todo' = Rest /\ printed' = printed
    BY <1>4, <1>6 DEF Putc
  <2>2. <<>> \in Seq(IdleStep)
    OBVIOUS
  <2> QED BY <1>1, <2>1, <2>2, IdleGoes
<1>7. CASE t # <<>>
  <2>1. printed' = Append(printed, Head(t)) /\ todo' = puts(Tail(t)) \o Rest
    BY <1>4, <1>7 DEF Putc
  <2>2. Tail(t) \in Seq(Char) /\ Panic \notin Range(Tail(t)) /\ Head(t) # Panic
    <3>1. Head(t) = t[1] /\ 1 \in DOMAIN t /\ Tail(t) \in Seq(Char)
          /\ \A i \in DOMAIN Tail(t) : i + 1 \in DOMAIN t /\ Tail(t)[i] = t[i + 1]
      BY <1>7
    <3> QED BY <1>5, <3>1 DEF Range
  <2>3. puts(Tail(t)) \in Seq(IdleStep)
    BY <2>2, IdlePieces
  <2>4. Passing'
    BY <1>1, <2>1, <2>3, IdleGoes
  <2>5. Panic \notin Range(printed')
    <3>1. PICK q \in Seq(Char) : q = printed
      BY DEF PrintInv, PrintTypes
    <3>2. PICK c \in Char : c = Head(t)
      BY <1>7
    <3>3. PICK r \in Seq(Char) : r = Append(q, c)
      <4>1. Append(q, c) \in Seq(Char)
        OBVIOUS
      <4> QED BY <4>1
    <3>4. \A i \in DOMAIN r : r[i] = c \/ (i \in DOMAIN q /\ r[i] = q[i])
      BY <3>3
    <3>5. Panic \notin Range(q)
      BY <3>1
    <3>6. Panic \notin Range(r)
      BY <2>2, <3>2, <3>4, <3>5 DEF Range
    <3> QED BY <2>1, <3>1, <3>2, <3>3, <3>6
  <2> QED BY <2>4, <2>5
<1> QED BY <1>6, <1>7

\* A step of the gpio test, what the test knew before it, and what it knows after.
TestStep(k, x, y) ==
  /\ Is(k) /\ Sees(x) /\ Head(todo) \in Step /\ Head(todo)[1] = k /\ Does(Head(todo), x, y)
  /\ \E z : PassesTo(Rest, y, z)

LEMMA TestSteps ==
  ASSUME PrintInv, NEW k, Is(k), Passing
  PROVE  \E x, y : TestStep(k, x, y)
<1>1. PICK x, y, z : Sees(x) /\ Does(Head(todo), x, y) /\ PassesTo(Rest, y, z)
  BY HeadDoes
<1> QED BY <1>1, Goes DEF TestStep

LEMMA TestGoes ==
  ASSUME NEW k, NEW x, NEW y, TestStep(k, x, y), Sees(y)', todo' = Rest
  PROVE  Passing'
  BY DEF TestStep, Passing

\* Once all is quiet, what is counted is what the test expects.
LEMMA QuietCounts ==
  ASSUME NEW x, Sees(x), x.quiet = 1, PassInv
  PROVE  ~event /\ \A w \in Ways : n_edge[w] = Of(x, w) /\ n_edge[w] \in Nat
<1>1. ~event
  BY DEF Sees
<1>2. ASSUME NEW w \in Ways PROVE n_edge[w] = Of(x, w) /\ n_edge[w] \in Nat
  <2>1. n_edge[w] \in Nat /\ Uncounted(w) = 0
    BY <1>1 DEF PassInv, Uncounted
  <2>2. n_edge[w] + Uncounted(w) = Of(x, w)
    BY DEF Sees
  <2> QED BY <2>1, <2>2
<1> QED BY <1>1, <1>2

LEMMA DetectGoes ==
  ASSUME PrintInv, Passing, Detect
  PROVE  Passing'
<1>1. Is("detect") /\ todo' = Rest
  BY DEF Detect
<1>2. PICK x, y : TestStep("detect", x, y)
  BY <1>1, TestSteps
<1>3. y.detect = 1 /\ SameBut(x, y, {"detect"})
  BY <1>2 DEF TestStep, Does, Harmless, Idle
<1>4. detect' = TRUE /\ UNCHANGED <<hpc, level, event, n_edge, before>>
  BY DEF Detect
<1>5. \A w \in Ways : Of(y, w) = Of(x, w) /\ Uncounted(w)' = Uncounted(w)
  BY <1>3, <1>4 DEF SameBut, Of, Uncounted, Way
<1>6. Sees(y)'
  BY <1>2, <1>3, <1>4, <1>5 DEF TestStep, Sees, SameBut
<1> QED BY <1>1, <1>2, <1>6, TestGoes

LEMMA WriteGoes ==
  ASSUME PrintInv, EdgesInv, PassInv, Passing, GpioWrite
  PROVE  Passing' /\ level' \in {0, 1}
<1>1. Is("write") /\ todo' = Rest /\ Drive(Arg(2)) /\ UNCHANGED <<hpc, detect, n_edge, before>>
  BY DEF GpioWrite
<1>2. PICK x, y : TestStep("write", x, y)
  BY <1>1, TestSteps
<1>3. PICK v \in {0, 1} : v = Arg(2) /\ v = Head(todo)[2]
  BY <1>2 DEF TestStep, Arg, Step
<1>4. /\ x.quiet = 1 /\ x.detect = 1 /\ v # x.level
      /\ y.level = v /\ y.quiet = 0 /\ Of(y, Way(v)) = Of(x, Way(v)) + 1
      /\ SameBut(x, y, {"level", "quiet", Way(v)})
  BY <1>2, <1>3 DEF TestStep, Does, Harmless, Idle
<1>5. Sees(x)
  BY <1>2 DEF TestStep
<1>6. ~event /\ detect /\ level # v /\ \A w \in Ways : n_edge[w] = Of(x, w) /\ n_edge[w] \in Nat
  BY <1>4, <1>5, QuietCounts DEF Sees
<1>7. level' = v /\ event' = TRUE
  BY <1>1, <1>3, <1>6 DEF Drive
<1>8. hpc' = "out"
  BY <1>1 DEF Is
<1>9. ASSUME NEW w \in Ways PROVE n_edge'[w] + Uncounted(w)' = Of(y, w)
  <2>1. Uncounted(w)' = IF Way(v) = w THEN 1 ELSE 0
    BY <1>7, <1>8 DEF Uncounted, Way
  <2>2. CASE Way(v) = w
    BY <1>1, <1>4, <1>6, <2>1, <2>2
  <2>3. CASE Way(v) # w
    <3>1. Of(y, w) = Of(x, w)
      BY <1>4, <2>3 DEF SameBut, Of, Ways, Way
    <3> QED BY <1>1, <1>6, <2>1, <2>3, <3>1
  <2> QED BY <2>2, <2>3
<1>10. y.detect = 1 /\ y.before = x.before
  BY <1>4 DEF SameBut, Way
<1>11. Sees(y)'
  BY <1>1, <1>4, <1>5, <1>6, <1>7, <1>9, <1>10 DEF Sees
<1> QED BY <1>1, <1>2, <1>7, <1>11, TestGoes

LEMMA DelayGoes ==
  ASSUME PrintInv, Passing, Delay
  PROVE  Passing'
<1>1. Is("delay") /\ todo' = Rest /\ ~event /\ UNCHANGED <<hpc, gpio>>
  BY DEF Delay
<1>2. PICK x, y : TestStep("delay", x, y)
  BY <1>1, TestSteps
<1>3. y.quiet = 1 /\ SameBut(x, y, {"quiet"})
  BY <1>2 DEF TestStep, Does, Harmless, Idle
<1>4. \A w \in Ways : Of(y, w) = Of(x, w)
  BY <1>3 DEF SameBut, Of
<1>5. Sees(y)
  BY <1>1, <1>2, <1>3, <1>4 DEF TestStep, Sees, SameBut
<1>6. Sees(y)'
  BY <1>1, <1>5, SeesSame
<1> QED BY <1>1, <1>2, <1>6, TestGoes

LEMMA AssertGoes ==
  ASSUME PrintInv, PassInv, Passing, TestAssert
  PROVE  Passing'
<1>1. UNCHANGED <<hpc, gpio>>
  BY DEF TestAssert
<1>2. CASE Is("assert") /\ Asserts(n_edge[Arg(2)] = Arg(3))
  <2>1. PICK x, y : TestStep("assert", x, y)
    BY <1>2, TestSteps
  <2>2. PICK w \in Ways : w = Arg(2) /\ w = Head(todo)[2]
    BY <2>1 DEF TestStep, Arg, Step
  <2>3. x.quiet = 1 /\ Of(x, w) = Arg(3) /\ y = x /\ Sees(x)
    BY <2>1, <2>2 DEF TestStep, Does, Harmless, Idle, Arg
  <2>4. n_edge[w] = Of(x, w)
    BY <2>3, QuietCounts
  <2>5. todo' = Rest
    BY <1>2, <2>2, <2>3, <2>4 DEF Asserts
  <2>6. Sees(y)'
    BY <1>1, <2>3, SeesSame
  <2> QED BY <2>1, <2>5, <2>6, TestGoes
<1>3. CASE Is("more") /\ Asserts(before + 1 = n_edge[Arg(2)])
  <2>1. PICK x, y : TestStep("more", x, y)
    BY <1>3, TestSteps
  <2>2. PICK w \in Ways : w = Arg(2) /\ w = Head(todo)[2]
    BY <2>1 DEF TestStep, Arg, Step
  <2>3. x.quiet = 1 /\ x.before + 1 = Of(x, w) /\ y = x /\ Sees(x)
    BY <2>1, <2>2 DEF TestStep, Does, Harmless, Idle
  <2>4. n_edge[w] = Of(x, w) /\ before = x.before
    BY <2>3, QuietCounts DEF Sees
  <2>5. todo' = Rest
    BY <1>3, <2>2, <2>3, <2>4 DEF Asserts
  <2>6. Sees(y)'
    BY <1>1, <2>3, SeesSame
  <2> QED BY <2>1, <2>5, <2>6, TestGoes
<1> QED BY <1>2, <1>3 DEF TestAssert

LEMMA AssignGoes ==
  ASSUME PrintInv, PassInv, Passing, Assign
  PROVE  Passing'
<1>1. todo' = Rest /\ UNCHANGED <<hpc, level, event, detect>>
  BY DEF Assign
<1>2. CASE Is("zero") /\ n_edge' = [n_edge EXCEPT ![Arg(2)] = 0] /\ UNCHANGED before
  <2>1. PICK x, y : TestStep("zero", x, y)
    BY <1>2, TestSteps
  <2>2. PICK w \in Ways : w = Arg(2) /\ w = Head(todo)[2]
    BY <2>1 DEF TestStep, Arg, Step
  <2>3. x.quiet = 1 /\ Of(y, w) = 0 /\ SameBut(x, y, {w}) /\ Sees(x)
    BY <2>1, <2>2 DEF TestStep, Does, Harmless, Idle
  <2>4. ~event /\ \A u \in Ways : n_edge[u] = Of(x, u) /\ n_edge[u] \in Nat
    BY <2>3, QuietCounts
  <2>5. ASSUME NEW u \in Ways PROVE n_edge'[u] + Uncounted(u)' = Of(y, u)
    <3>1. Uncounted(u)' = 0
      BY <1>1, <2>4 DEF Uncounted
    <3>2. CASE u = w
      <4>1. n_edge'[u] = 0
        BY <1>2, <2>2, <3>2 DEF PassInv
      <4> QED BY <2>3, <3>1, <3>2, <4>1
    <3>3. CASE u # w
      <4>1. Of(y, u) = Of(x, u)
        BY <2>3, <3>3 DEF SameBut, Of, Ways
      <4>2. n_edge'[u] = n_edge[u]
        BY <1>2, <2>2, <3>3 DEF PassInv
      <4> QED BY <2>4, <3>1, <4>1, <4>2
    <3> QED BY <3>2, <3>3
  <2>6. y.level = x.level /\ y.detect = x.detect /\ y.before = x.before
    BY <2>2, <2>3 DEF SameBut, Ways
  <2>7. Sees(y)'
    BY <1>1, <1>2, <2>3, <2>4, <2>5, <2>6 DEF Sees
  <2> QED BY <1>1, <2>1, <2>7, TestGoes
<1>3. CASE Is("save") /\ before' = n_edge[Arg(2)] /\ UNCHANGED n_edge
  <2>1. PICK x, y : TestStep("save", x, y)
    BY <1>3, TestSteps
  <2>2. PICK w \in Ways : w = Arg(2) /\ w = Head(todo)[2]
    BY <2>1 DEF TestStep, Arg, Step
  <2>3. x.quiet = 1 /\ y.before = Of(x, w) /\ SameBut(x, y, {"before"}) /\ Sees(x)
    BY <2>1, <2>2 DEF TestStep, Does, Harmless, Idle
  <2>4. ~event /\ n_edge[w] = Of(x, w)
    BY <2>3, QuietCounts
  <2>5. \A u \in Ways : Of(y, u) = Of(x, u) /\ Uncounted(u)' = Uncounted(u)
    BY <1>1, <2>3 DEF SameBut, Of, Uncounted, Way
  <2>6. Sees(y)'
    BY <1>1, <1>3, <2>2, <2>3, <2>4, <2>5 DEF Sees, SameBut
  <2> QED BY <1>1, <2>1, <2>6, TestGoes
<1> QED BY <1>2, <1>3 DEF Assign

\* The handler counts what it was about to count.
LEMMA HandlerGoes ==
  ASSUME EdgesInv, PassInv, GpioHandler
  PROVE  n_edge' \in [Ways -> Nat] /\ (Passing => Passing')
<1>1. hpc' = After(hpc) /\ UNCHANGED <<todo, level, detect, before>>
  BY DEF GpioHandler
<1>2. Way(level) \in Ways /\ Way(level)' = Way(level)
  BY <1>1 DEF Way, Ways
<1>3. n_edge' \in [Ways -> Nat]
  BY <1>2 DEF GpioHandler, PassInv
<1>4. \A w \in Ways : n_edge'[w] + Uncounted(w)' = n_edge[w] + Uncounted(w)
  <2> TAKE w \in Ways
  <2>0. n_edge[w] \in Nat
    BY DEF PassInv
  <2>1. CASE hpc = "out" /\ UNCHANGED <<n_edge, event>>
    BY <1>1, <1>2, <2>1, AfterStep DEF Uncounted
  <2>2. CASE hpc = "level" /\ n_edge' = [n_edge EXCEPT ![Way(level)] = @ + 1] /\ UNCHANGED event
    <3>1. hpc' = "clear" /\ event
      BY <1>1, <2>2, AfterStep DEF EdgesInv
    <3>2. Uncounted(w)' = 0 /\ Uncounted(w) = IF Way(level) = w THEN 1 ELSE 0
      BY <2>2, <3>1 DEF Uncounted
    <3>3. n_edge'[w] = IF Way(level) = w THEN n_edge[w] + 1 ELSE n_edge[w]
      BY <1>2, <2>2 DEF PassInv
    <3> QED BY <2>0, <3>2, <3>3
  <2>3. CASE hpc = "clear" /\ event' = FALSE /\ UNCHANGED n_edge
    BY <2>3 DEF Uncounted
  <2> QED BY <2>1, <2>2, <2>3 DEF GpioHandler
<1>5. ~event => ~event'
  BY DEF GpioHandler
<1>6. ASSUME NEW x, Sees(x) PROVE Sees(x)'
  BY <1>1, <1>4, <1>5, <1>6 DEF Sees
<1> QED BY <1>1, <1>3, <1>6 DEF Passing

LEMMA PassProgram ==
  ASSUME PrintInv, EdgesInv, PassInv, Passing, Panic \notin Range(printed), Program
  PROVE  Passing' /\ Panic \notin Range(printed')
<1>1. CASE Putc
  BY <1>1, PutcGoes
<1>2. CASE Detect \/ GpioWrite \/ Delay \/ TestAssert \/ Assign
  <2>1. printed' = printed
    BY <1>2 DEF Detect, GpioWrite, Delay, TestAssert, Assign
  <2> QED BY <1>2, <2>1, DetectGoes, WriteGoes, DelayGoes, AssertGoes, AssignGoes
<1>3. CASE UartInit \/ Flush \/ EnableInterrupts \/ TimerInit \/ Reboot
  <2>1. PICK k \in Idle : Is(k)
    BY <1>3 DEF UartInit, Flush, EnableInterrupts, TimerInit, Reboot, Idle
  <2>2. PICK p : p = <<>>
    OBVIOUS
  <2>3. p \in Seq(IdleStep)
    BY <2>2
  <2>4. printed' = printed /\ UNCHANGED <<hpc, gpio>> /\ (todo' = Rest \/ todo' = p)
    BY <1>3, <2>2 DEF UartInit, Flush, EnableInterrupts, TimerInit, Reboot
  <2> QED BY <2>1, <2>3, <2>4, IdleGoes
<1>4. CASE GprofInit \/ DumpOne
  <2>1. PICK k \in Idle : Is(k)
    BY <1>4 DEF GprofInit, DumpOne, Idle
  <2>2. PICK p \in {printk, <<>>} : todo' = p \o Rest
    BY <1>4 DEF GprofInit, DumpOne
  <2>3. <<>> \in Seq(IdleStep)
    OBVIOUS
  <2>4. p \in Seq(IdleStep)
    BY <2>2, <2>3, IdlePieces
  <2>5. printed' = printed /\ UNCHANGED <<hpc, gpio>>
    BY <1>4 DEF GprofInit, DumpOne
  <2> QED BY <2>1, <2>2, <2>4, <2>5, IdleGoes
<1>5. CASE Loop
  <2>1. Is("loop") /\ "loop" \in Idle /\ printed' = printed /\ UNCHANGED <<hpc, gpio>>
    BY <1>5 DEF Loop, Idle
  <2>2. Head(todo) \in Step /\ Head(todo)[1] = "loop"
    BY <2>1, Goes
  <2>3. PICK n \in Nat : n = Arg(2) + 1
    BY <2>2 DEF Step, Arg
  <2>4. PICK p : p = todo'
    OBVIOUS
  <2>5. p \in Seq(IdleStep)
    <3>1. CASE cnt >= Samples
      BY <1>5, <2>4, <3>1, IdlePieces DEF Loop
    <3>2. CASE ~(cnt >= Samples)
      <4>1. PICK d \in {Dump, <<>>} : d = IF n % Every = 0 THEN Dump ELSE <<>>
        OBVIOUS
      <4>2. PICK l : l = << <<"loop", n>> >>
        OBVIOUS
      <4>3. p = (printk \o d) \o l
        BY <1>5, <2>3, <2>4, <3>2, <4>1, <4>2, Zenon DEF Loop
      <4>4. <<>> \in Seq(IdleStep)
        OBVIOUS
      <4>5. d \in Seq(IdleStep)
        BY <4>1, <4>4, IdlePrograms
      <4>6. l \in Seq(IdleStep)
        BY <4>2, IdlePieces
      <4> QED BY <4>3, <4>5, <4>6, IdlePieces
    <3> QED BY <3>1, <3>2
  <2> QED BY <2>1, <2>4, <2>5, IdleGoes
<1> QED BY <1>1, <1>2, <1>3, <1>4, <1>5 DEF Program

\* A step of Labs, without a fault.
LEMMA PassStep ==
  ASSUME PrintInv, EdgesInv, PassInv, Passing, Panic \notin Range(printed), Next, UNCHANGED faults,
         faults \in Nat
  PROVE  Passing' /\ Panic \notin Range(printed')
<1>1. CASE Program
  BY <1>1, PassProgram
<1>2. CASE GpioHandler
  BY <1>2, HandlerGoes DEF GpioHandler
<1>3. CASE GprofHandler \/ Tick \/ Transmit \/ Echo
  <2>1. UNCHANGED <<todo, hpc, gpio, printed>>
    BY <1>3 DEF GprofHandler, Tick, Transmit, Echo
  <2> QED BY <2>1, SeesSame DEF Passing
<1>4. ~(Bounce \/ Unplug)
  BY DEF Bounce, Unplug
<1> QED BY <1>1, <1>2, <1>3, <1>4 DEF Next, Handler

LEMMA TestTypes ==
  ASSUME PrintInv, EdgesInv, PassInv, Next
  PROVE  n_edge' \in [Ways -> Nat] /\ level' \in {0, 1}
<1>1. CASE GpioHandler
  BY <1>1, HandlerGoes DEF GpioHandler, PassInv
<1>2. CASE GpioWrite
  <2>1. Is("write") /\ Drive(Arg(2)) /\ UNCHANGED n_edge
    BY <1>2 DEF GpioWrite
  <2>2. Arg(2) \in {0, 1}
    BY <2>1, Goes DEF Step, Arg
  <2> QED BY <2>1, <2>2 DEF Drive, PassInv
<1>3. CASE Bounce
  BY <1>3 DEF Bounce, Drive, PassInv
<1>4. CASE Assign
  BY <1>4 DEF Assign, PassInv
<1>5. CASE \/ Putc \/ UartInit \/ Flush \/ Reboot \/ EnableInterrupts \/ Detect \/ Delay \/ TestAssert
           \/ TimerInit \/ GprofInit \/ Loop \/ DumpOne \/ GprofHandler
           \/ Tick \/ Transmit \/ Echo \/ Unplug
  BY <1>5 DEF Putc, UartInit, Flush, Reboot, EnableInterrupts, Detect, Delay, TestAssert,
       TimerInit, GprofInit, Loop, DumpOne, GprofHandler, Tick, Transmit, Echo, Unplug, gpio, PassInv
<1> QED BY <1>1, <1>2, <1>3, <1>4, <1>5 DEF Next, Program, Handler

LEMMA SessionPassNext ==
  PrintInv /\ Silent /\ EdgesInv /\ DebugInv /\ PassInv /\ [SessionNext]_svars => PassInv'
<1> SUFFICES ASSUME PrintInv, Silent, EdgesInv, DebugInv, PassInv, [SessionNext]_svars PROVE PassInv'
  OBVIOUS
<1>0. faults \in Nat
  BY DEF DebugInv, D!TypeOK
<1>1. CASE Next /\ UNCHANGED dvars
  <2>1. faults' = faults \/ faults' = faults + 1
    BY <1>1 DEF Next, Program, Handler, Putc, UartInit, Flush, Reboot, EnableInterrupts, Detect,
           GpioWrite, Delay, TestAssert, Assign, TimerInit, GprofInit, Loop, DumpOne, GpioHandler,
           GprofHandler, Tick, Bounce, Transmit, Echo, Unplug
  <2>2. stray' = stray
    BY <1>1 DEF dvars
  <2>3. CASE faults' = 0
    <3>1. faults = 0 /\ UNCHANGED faults
      BY <1>0, <2>1, <2>3
    <3>2. Passing' /\ Panic \notin Range(printed')
      BY <1>0, <1>1, <3>1, PassStep DEF PassInv
    <3> QED BY <1>0, <1>1, <2>2, <3>1, <3>2, TestTypes DEF PassInv
  <2>4. CASE faults' # 0
    <3>1. faults' > 0
      BY <1>0, <2>1, <2>4
    <3> QED BY <1>1, <2>4, <3>1, TestTypes DEF PassInv
  <2> QED BY <2>3, <2>4
<1>2. CASE Finish
  <2>1. /\ UNCHANGED <<hpc, gpio, printed, faults>> /\ ~stray'
        /\ at \in {"exit", "panic"}
    BY <1>2 DEF Finish, D!Reboot
  <2>2. n_edge' \in [Ways -> Nat] /\ level' \in {0, 1}
    BY <2>1 DEF PassInv, gpio
  <2>3. ASSUME faults = 0 PROVE Passing'
    <3>1. at # "panic"
      BY <2>3 DEF DebugInv, D!PanicsIffStray, PassInv
    <3>2. PICK p \in {printk, SysExit \o EquivPrint, SysExit} : todo' = p \o CleanReboot
      BY <1>2, <3>1, Zenon DEF Finish
    <3>3. p \in Seq(IdleStep)
      <4>1. SysExit \in Seq(IdleStep) /\ EquivPrint \in Seq(IdleStep)
        BY IdlePieces DEF SysExit, EquivPrint
      <4>2. SysExit \o EquivPrint \in Seq(IdleStep)
        BY <4>1
      <4> QED BY <3>2, <4>1, <4>2, IdlePieces
    <3>4. todo' \in Seq(IdleStep)
      BY <3>2, <3>3, IdlePieces
    <3>5. PICK x : Sees(x)
      BY <2>3 DEF PassInv, Passing
    <3>6. Sees(x)'
      BY <2>1, <3>5, SeesSame
    <3> QED BY <3>4, <3>6, PassesIdle DEF Passing
  <2> QED BY <2>1, <2>2, <2>3 DEF PassInv
<1>3. CASE DebugStep \/ (D!StrayAbort /\ UNCHANGED lvars) \/ UNCHANGED svars
  <2>1. UNCHANGED <<todo, hpc, gpio, printed>>
    BY <1>3, DebugStepFrame DEF lvars, svars, vars
  <2>2. n_edge' \in [Ways -> Nat] /\ level' \in {0, 1}
    BY <2>1 DEF PassInv, gpio
  <2>3. Passing => Passing'
    BY <2>1, SeesSame DEF Passing
  <2>4. CASE D!StrayAbort
    <3>1. faults' > 0 /\ faults' # 0
      BY <1>0, <2>4 DEF D!StrayAbort
    <3> QED BY <2>2, <3>1 DEF PassInv
  <2>5. CASE DebugStep \/ UNCHANGED svars
    <3>1. faults' = faults /\ stray' = stray
      BY <2>5 DEF svars, vars, dvars, DebugStep, D!Processor, D!DebugFaultInit, D!Client,
             D!DebugFault, D!Return, D!RunUser, D!Step, D!Execute
    <3> QED BY <2>1, <2>2, <2>3, <3>1 DEF PassInv
  <2> QED BY <1>3, <2>4, <2>5
<1> QED BY <1>1, <1>2, <1>3 DEF SessionNext

LEMMA SessionPassInit == SessionInit => PassInv
<1> SUFFICES ASSUME SessionInit PROVE PassInv
  OBVIOUS
<1>1. Reset /\ ~stray
  BY DEF SessionInit, Init, D!Off, D!Reset, D!Init
<1>2. /\ level = 0 /\ event = FALSE /\ detect = FALSE /\ n_edge = [w \in Ways |-> 0] /\ before = 0
      /\ printed = <<>> /\ faults = 0
  BY <1>1 DEF Reset, Zeros
<1>3. Sees(Start)
  BY <1>2 DEF Sees, Start, State, Of, Uncounted, Ways
<1>4. n_edge \in [Ways -> Nat] /\ level \in {0, 1} /\ Panic \notin Range(printed)
  BY <1>2 DEF Range
<1>5. \/ todo \in {GpioTest \o CleanReboot, Gprof, <<>>}
      \/ \E t \in Texts : todo = puts(t) \o CleanReboot
  BY Zenon DEF SessionInit, Init
<1>6. CASE todo = GpioTest \o CleanReboot
  <2>1. PICK z : PassesTo(GpioTest, Start, z) /\ GpioTest \in Seq(Step)
    BY GpioTestPasses
  <2>2. PassesTo(GpioTest \o CleanReboot, Start, z)
    BY <2>1, IdlePieces, PassesThen
  <2> QED BY <1>1, <1>3, <1>4, <1>6, <2>2 DEF PassInv, Passing
<1>7. CASE todo # GpioTest \o CleanReboot
  <2>1. todo \in Seq(IdleStep)
    <3>1. CASE todo = Gprof
      BY <3>1, IdlePrograms
    <3>2. CASE todo = <<>>
      BY <3>2
    <3>3. ASSUME NEW t \in Texts, todo = puts(t) \o CleanReboot PROVE todo \in Seq(IdleStep)
      BY <3>3, IdlePieces
    <3> QED BY <1>5, <1>7, <3>1, <3>2, <3>3
  <2>2. PassesTo(todo, Start, Start)
    BY <2>1, PassesIdle
  <2> QED BY <1>1, <1>3, <1>4, <2>2 DEF PassInv, Passing
<1> QED BY <1>6, <1>7

-----------------------------------------------------------------------------
(* The samples of a profile.                                               *)

\* What a fold takes from a set.
AnyOf(x) == CHOOSE y \in x : TRUE

\* f adds up the values of s.
SumFold(f, s) ==
  f = [x \in SUBSET DOMAIN s |-> IF x = {} THEN 0 ELSE s[AnyOf(x)] + f[x \ {AnyOf(x)}]]

Total(s) == FoldFunction(+, 0, s)

\* What it has added up on each set.
Sums(f, S, s) ==
  /\ f \in [SUBSET S -> Nat] /\ f[{}] = 0
  /\ \A x \in SUBSET S : x # {} => AnyOf(x) \in x /\ f[x] = s[AnyOf(x)] + f[x \ {AnyOf(x)}]

\* A smallest set of some subsets of a finite set.
LEMMA SmallestSubset ==
  ASSUME NEW S, IsFiniteSet(S), NEW B \in SUBSET SUBSET S, B # {}
  PROVE  \E x \in B : IsFiniteSet(x) /\ \A y \in x : x \ {y} \notin B
<1>1. \A x \in B : IsFiniteSet(x) /\ Cardinality(x) \in Nat
  BY FS_Subset, FS_CardinalityType
<1> DEFINE N == {Cardinality(x) : x \in B}
<1>2. N \in SUBSET Nat /\ N # {}
  BY <1>1
<1>3. PICK m \in N : \A i \in N : m <= i
  BY <1>2, NatLeast
<1>4. PICK x \in B : m = Cardinality(x)
  OBVIOUS
<1>5. ASSUME NEW y \in x, x \ {y} \in B PROVE FALSE
  <2>1. Cardinality(x \ {y}) = Cardinality(x) - 1
    BY <1>1, FS_RemoveElement
  <2>2. m <= Cardinality(x \ {y})
    BY <1>3, <1>5
  <2> QED BY <1>1, <1>4, <2>1, <2>2
<1> QED BY <1>1, <1>5

LEMMA SumExists ==
  ASSUME NEW S, IsFiniteSet(S), NEW s \in [S -> Nat]
  PROVE  \E f : SumFold(f, s) /\ f \in [SUBSET S -> Nat]
<1>1. PICK c : c = [x \in SUBSET S |-> AnyOf(x)]
  OBVIOUS
<1>2. PICK g : g = [x \in SUBSET S |-> [v \in Nat |-> IF x = {} THEN 0 ELSE s[c[x]] + v]]
  OBVIOUS
<1>3. Chooses(c, S)
  <2> SUFFICES ASSUME NEW x \in SUBSET S, x # {} PROVE c[x] \in x
    BY DEF Chooses
  <2>1. AnyOf(x) \in x
    BY Zenon DEF AnyOf
  <2> QED BY <1>1, <2>1
<1>4. Turns(g, S, Nat)
  <2> SUFFICES ASSUME NEW x \in SUBSET S, NEW v \in Nat PROVE g[x][v] \in Nat
    BY DEF Turns
  <2>1. g[x][v] = IF x = {} THEN 0 ELSE s[c[x]] + v
    BY <1>2
  <2>2. x # {} => s[c[x]] \in Nat
    BY <1>3 DEF Chooses
  <2> QED BY <2>1, <2>2
<1>5. PICK f \in [SUBSET S -> Nat] : Recurs(f, SUBSET S, 0, c, g)
  <2>1. 0 \in Nat
    OBVIOUS
  <2> QED BY <1>3, <1>4, <2>1, RecursExists, Zenon
<1>6. f = [x \in SUBSET S |-> IF x = {} THEN 0 ELSE g[x][f[x \ {c[x]}]]]
  BY <1>5 DEF Recurs
<1>7. ASSUME NEW x \in SUBSET S
      PROVE  (IF x = {} THEN 0 ELSE g[x][f[x \ {c[x]}]])
             = IF x = {} THEN 0 ELSE s[AnyOf(x)] + f[x \ {AnyOf(x)}]
  <2>1. f[x \ {c[x]}] \in Nat
    <3>1. x \ {c[x]} \in SUBSET S
      OBVIOUS
    <3> QED BY <3>1
  <2>2. c[x] = AnyOf(x)
    BY <1>1
  <2>3. x # {} => g[x][f[x \ {c[x]}]] = s[c[x]] + f[x \ {c[x]}]
    BY <1>2, <2>1
  <2> QED BY <2>2, <2>3, Zenon
<1>8. f = [x \in SUBSET S |-> IF x = {} THEN 0 ELSE s[AnyOf(x)] + f[x \ {AnyOf(x)}]]
  BY <1>6, <1>7, Zenon
<1>9. SUBSET S = SUBSET DOMAIN s
  OBVIOUS
<1> QED BY <1>8, <1>9, Zenon DEF SumFold

LEMMA TotalIs ==
  ASSUME NEW S, IsFiniteSet(S), NEW s \in [S -> Nat]
  PROVE  \E f : Sums(f, S, s) /\ Total(s) = f[S]
<1>1. PICK f : f = CHOOSE h : SumFold(h, s)
  OBVIOUS
<1>2. SumFold(f, s)
  BY <1>1, SumExists, Zenon
<1>3. Total(s) = f[DOMAIN s]
  BY <1>1, Zenon DEF Total, FoldFunction, FoldFunctionOnSet, MapThenFoldSet, SumFold, AnyOf
<1>4. DOMAIN s = S
  OBVIOUS
<1>5. f = [x \in SUBSET S |-> IF x = {} THEN 0 ELSE s[AnyOf(x)] + f[x \ {AnyOf(x)}]]
  BY <1>2, <1>4, Zenon DEF SumFold
<1>6. f[{}] = 0 /\ \A x \in SUBSET S : x # {} => f[x] = s[AnyOf(x)] + f[x \ {AnyOf(x)}]
  BY <1>5, Zenon
<1>7. ASSUME NEW x \in SUBSET S, x # {} PROVE AnyOf(x) \in x
  BY <1>7, Zenon DEF AnyOf
<1>8. \A x \in SUBSET S : f[x] \in Nat
  <2> DEFINE B == {x \in SUBSET S : f[x] \notin Nat}
  <2>1. SUFFICES ASSUME B # {} PROVE FALSE
    OBVIOUS
  <2>2. PICK x \in B : \A y \in x : x \ {y} \notin B
    <3>1. B \in SUBSET SUBSET S
      OBVIOUS
    <3> HIDE DEF B
    <3> QED BY <2>1, <3>1, SmallestSubset
  <2>3. x \in SUBSET S /\ f[x] \notin Nat
    OBVIOUS
  <2>4. x # {}
    <3>1. SUFFICES ASSUME x = {} PROVE FALSE
      OBVIOUS
    <3>2. f[x] = 0
      BY <1>6, <3>1, Zenon
    <3>3. 0 \in Nat
      OBVIOUS
    <3> HIDE DEF B
    <3> QED BY <2>3, <3>2, <3>3
  <2>5. PICK a \in x : a = AnyOf(x)
    BY <1>7, <2>3, <2>4
  <2>6. f[x \ {a}] \in Nat /\ s[a] \in Nat
    BY <2>2, <2>3
  <2>7. f[x] = s[a] + f[x \ {a}]
    BY <1>6, <2>3, <2>4, <2>5
  <2> QED BY <2>3, <2>6, <2>7
<1>9. f \in [SUBSET S -> Nat]
  BY <1>5, <1>8
<1> QED BY <1>3, <1>4, <1>6, <1>7, <1>9 DEF Sums

LEMMA TotalZeros ==
  ASSUME NEW S, IsFiniteSet(S)
  PROVE  Total(Zeros(S)) = 0
<1>1. PICK s \in [S -> Nat] : s = Zeros(S) /\ \A k \in S : s[k] = 0
  <2>1. Zeros(S) \in [S -> Nat] /\ \A k \in S : Zeros(S)[k] = 0
    BY DEF Zeros
  <2> QED BY <2>1
<1>2. PICK f : Sums(f, S, s) /\ Total(s) = f[S]
  BY TotalIs
<1> DEFINE B == {x \in SUBSET S : f[x] # 0}
<1>3. B = {}
  <2>1. SUFFICES ASSUME B # {} PROVE FALSE
    OBVIOUS
  <2>2. PICK x \in B : \A y \in x : x \ {y} \notin B
    <3>1. B \in SUBSET SUBSET S
      OBVIOUS
    <3> HIDE DEF B
    <3> QED BY <2>1, <3>1, SmallestSubset
  <2>3. x \in SUBSET S /\ f[x] # 0
    OBVIOUS
  <2>4. x # {}
    BY <1>2, <2>3 DEF Sums
  <2>5. PICK a \in x : a = AnyOf(x)
    BY <1>2, <2>3, <2>4 DEF Sums
  <2>6. f[x] = s[a] + f[x \ {a}]
    BY <1>2, <2>3, <2>4, <2>5 DEF Sums
  <2>7. f[x \ {a}] = 0 /\ s[a] = 0
    BY <1>1, <2>2, <2>3
  <2> QED BY <2>3, <2>6, <2>7
<1>4. f[S] = 0
  BY <1>3
<1> QED BY <1>1, <1>2, <1>4

\* One sample more.
LEMMA TotalMore ==
  ASSUME NEW S, IsFiniteSet(S), NEW s \in [S -> Nat], NEW k \in S
  PROVE  Total([s EXCEPT ![k] = @ + 1]) = Total(s) + 1 /\ Total(s) \in Nat
<1>1. PICK t \in [S -> Nat] : /\ t = [s EXCEPT ![k] = @ + 1]
                              /\ \A i \in S : t[i] = IF i = k THEN s[i] + 1 ELSE s[i]
  <2>1. [s EXCEPT ![k] = @ + 1] \in [S -> Nat]
    OBVIOUS
  <2> QED BY <2>1
<1>2. PICK f : Sums(f, S, s) /\ Total(s) = f[S]
  BY TotalIs
<1>3. PICK h : Sums(h, S, t) /\ Total(t) = h[S]
  BY TotalIs
<1> DEFINE B == {x \in SUBSET S : h[x] # f[x] + (IF k \in x THEN 1 ELSE 0)}
<1>4. B = {}
  <2>1. SUFFICES ASSUME B # {} PROVE FALSE
    OBVIOUS
  <2>2. PICK x \in B : \A y \in x : x \ {y} \notin B
    <3>1. B \in SUBSET SUBSET S
      OBVIOUS
    <3> HIDE DEF B
    <3> QED BY <2>1, <3>1, SmallestSubset
  <2>a. x \in SUBSET S /\ h[x] # f[x] + (IF k \in x THEN 1 ELSE 0)
    OBVIOUS
  <2>3. x # {}
    <3>1. SUFFICES ASSUME x = {} PROVE FALSE
      OBVIOUS
    <3>2. f[x] = 0 /\ h[x] = 0 /\ k \notin x
      BY <1>2, <1>3, <3>1, Zenon DEF Sums
    <3> HIDE DEF B
    <3> QED BY <2>a, <3>2
  <2>4. PICK a \in x : a = AnyOf(x)
    BY <1>2, <2>3, <2>a DEF Sums
  <2>5. PICK y \in SUBSET S : y = x \ {a}
    OBVIOUS
  <2>6. f[x] = s[a] + f[y] /\ h[x] = t[a] + h[y]
    BY <1>2, <1>3, <2>3, <2>4, <2>5, <2>a DEF Sums
  <2>7. h[y] = f[y] + (IF k \in y THEN 1 ELSE 0)
    BY <2>2, <2>5
  <2>8. /\ t[a] = IF a = k THEN s[a] + 1 ELSE s[a]
        /\ s[a] \in Nat /\ f[y] \in Nat /\ h[y] \in Nat
    BY <1>1, <1>2, <1>3, <2>4, <2>5, <2>a DEF Sums
  <2>9. h[x] = f[x] + (IF k \in x THEN 1 ELSE 0)
    <3>1. CASE a = k
      BY <2>5, <2>6, <2>7, <2>8, <3>1
    <3>2. CASE a # k
      BY <2>5, <2>6, <2>7, <2>8, <3>2
    <3> QED BY <3>1, <3>2
  <2> QED BY <2>9, <2>a
<1>5. h[S] = f[S] + 1 /\ f[S] \in Nat
  BY <1>2, <1>4 DEF Sums
<1> QED BY <1>1, <1>2, <1>3, <1>5

-----------------------------------------------------------------------------
(* The profiler's table, and what the program has yet to do to it.         *)

Untimed == {s \in Step : s[1] \notin {"timer", "gprof_init"}}
Begun   == {s \in Step : s[1] # "gprof_init"}
Dull    == {s \in Step : s[1] \notin {"irqs", "timer", "gprof_init"}}

\* Interrupts are let in behind gprof_init, which stands there once at most.
InOrder(t) ==
  /\ t \in Seq(Step)
  /\ \A i \in 1 .. Len(t) : t[i][1] = "irqs" => \E j \in 1 .. i - 1 : t[j][1] = "gprof_init"
  /\ \A i, j \in 1 .. Len(t) : t[i][1] = "gprof_init" /\ t[j][1] = "gprof_init" => i = j

\* Once the table is there all timer interrupts are in it, and until then there
\* are none: the timer has not been started and will not be, or they are not let in.
ProfInv ==
  /\ sample \in [Code -> Nat] /\ cnt \in 0 .. MaxTick /\ (pending => cnt < MaxTick)
  /\ ready => todo \in Seq(Begun) /\ Total(sample) = cnt
  /\ ~ready => /\ cnt = 0 /\ sample = Zeros(Code)
               /\ \/ ~ticking /\ ~pending /\ todo \in Seq(Untimed)
                  \/ ~irqs /\ InOrder(todo)

LEMMA DullPieces ==
  /\ \A t \in Seq(Char) : puts(t) \in Seq(Dull)
  /\ printk \in Seq(Dull) /\ CleanReboot \in Seq(Dull)
  /\ \A n \in Nat : << <<"loop", n>> >> \in Seq(Dull)
<1>1. \A t \in Seq(Char) : <<"puts", t>> \in Dull
  BY StepFacts DEF Dull
<1>2. ASSUME NEW t \in Seq(Char) PROVE puts(t) \in Seq(Dull)
  <2>1. PICK s \in Dull : s = <<"puts", t>>
    BY <1>1
  <2>2. <<s>> \in Seq(Dull)
    OBVIOUS
  <2> QED BY <2>1, <2>2 DEF puts
<1>3. printk \in Seq(Dull) /\ puts(ExitString) \in Seq(Dull)
  BY <1>2, CharFacts DEF printk
<1>4. <<"flush">> \in Dull /\ <<"settle">> \in Dull /\ <<"reboot">> \in Dull
  BY StepFacts DEF Dull
<1>5. << <<"flush">>, <<"settle">>, <<"reboot">> >> \in Seq(Dull)
  BY <1>4
<1>6. CleanReboot \in Seq(Dull)
  BY <1>3, <1>5 DEF CleanReboot
<1>7. ASSUME NEW n \in Nat PROVE << <<"loop", n>> >> \in Seq(Dull)
  <2>1. <<"loop", n>> \in Dull
    BY StepFacts DEF Dull
  <2> QED BY <2>1
<1> QED BY <1>2, <1>3, <1>6, <1>7

LEMMA DumpDull == Dump \in Seq(Dull)
<1>1. PICK n \in Nat : n = Cardinality(Code)
  BY LabsAssumption, FS_CardinalityType
<1>2. ASSUME NEW i \in 1 .. n
      PROVE  << <<"dump", i - 1>> >> \in Seq(Dull)
  <2>1. i - 1 \in Nat
    OBVIOUS
  <2>2. <<"dump", i - 1>> \in Dull
    BY <2>1, StepFacts DEF Dull
  <2> QED BY <2>2
<1>3. PICK d : d = [i \in 1 .. n |-> << <<"dump", i - 1>> >>]
  OBVIOUS
<1>4. d \in Seq(Seq(Dull))
  <2>1. d \in [1 .. n -> Seq(Dull)]
    BY <1>2, <1>3
  <2> QED BY <2>1
<1>5. FlattenSeq(d) \in Seq(Dull)
  BY <1>4, FlattenType
<1> QED BY <1>1, <1>3, <1>5, Zenon DEF Dump

\* The gpio test has no timer.
LEMMA GpioTestUntimed == GpioTest \in Seq(Untimed)
<1>1. Seq(Dull) \subseteq Seq(Untimed)
  BY DEF Dull, Untimed
<1>2. printk \in Seq(Untimed)
  BY <1>1, DullPieces
<1>3. /\ \A k \in {"uart_init", "detect", "irqs", "delay"} : <<k>> \in Untimed
      /\ \A v \in {0, 1} : <<"write", v>> \in Untimed
      /\ \A k \in {"zero", "save", "more"}, w \in Ways : <<k, w>> \in Untimed
      /\ \A w \in Ways, n \in Nat : <<"assert", w, n>> \in Untimed
  BY StepFacts DEF Untimed
<1>4. ASSUME NEW v \in {0, 1} PROVE Write(v) \in Seq(Untimed)
  <2>1. <<"write", v>> \in Untimed /\ <<"delay">> \in Untimed
    BY <1>3
  <2> QED BY <2>1 DEF Write
<1>5. ASSUME NEW w \in Ways, NEW v \in {0, 1}
      PROVE  Simple(w, v) \in Seq(Untimed) /\ Edge(w, v) \in Seq(Untimed)
  <2>1. << <<"assert", w, 0>> >> \in Seq(Untimed) /\ << <<"assert", w, 1>>, <<"zero", w>> >> \in Seq(Untimed)
    BY <1>3
  <2>2. << <<"save", w>> >> \in Seq(Untimed) /\ << <<"more", w>> >> \in Seq(Untimed)
    BY <1>3
  <2>3. Simple(w, v) \in Seq(Untimed)
    BY <1>2, <1>4, <2>1 DEF Simple
  <2>4. Edge(w, v) \in Seq(Untimed)
    BY <1>2, <1>4, <2>2 DEF Edge
  <2> QED BY <2>3, <2>4
<1>6. /\ Simple("rise", 1) \in Seq(Untimed) /\ Simple("fall", 0) \in Seq(Untimed)
      /\ Edge("rise", 1) \in Seq(Untimed) /\ Edge("fall", 0) \in Seq(Untimed)
  BY <1>5 DEF Ways
<1>7. PICK n \in Nat : n = Rounds
  BY LabsAssumption
<1>8. PICK r : r = [i \in 1 .. n |-> Edge("rise", 1) \o Edge("fall", 0)]
  OBVIOUS
<1>9. FlattenSeq(r) \in Seq(Untimed)
  <2>1. Edge("rise", 1) \o Edge("fall", 0) \in Seq(Untimed)
    BY <1>6
  <2>2. r \in [1 .. n -> Seq(Untimed)]
    BY <1>8, <2>1
  <2>3. r \in Seq(Seq(Untimed))
    BY <2>2
  <2> QED BY <2>3, FlattenType
<1>10. /\ << <<"uart_init">> >> \in Seq(Untimed) /\ << <<"detect">>, <<"irqs">> >> \in Seq(Untimed)
       /\ << <<"assert", "fall", 0>>, <<"assert", "rise", 0>> >> \in Seq(Untimed)
       /\ << <<"assert", "rise", n>>, <<"assert", "fall", n>> >> \in Seq(Untimed)
  BY <1>3 DEF Ways
<1>11. PICK g1 \in Seq(Untimed) : g1 = << <<"uart_init">> >> \o printk \o << <<"detect">>, <<"irqs">> >>
                                         \o Simple("rise", 1) \o Simple("fall", 0)
  <2>1. << <<"uart_init">> >> \o printk \o << <<"detect">>, <<"irqs">> >>
        \o Simple("rise", 1) \o Simple("fall", 0) \in Seq(Untimed)
    BY <1>2, <1>6, <1>10
  <2> QED BY <2>1
<1>12. PICK g2 \in Seq(Untimed) : g2 = g1 \o << <<"assert", "fall", 0>>, <<"assert", "rise", 0>> >>
                                          \o FlattenSeq(r)
  <2>1. g1 \o << <<"assert", "fall", 0>>, <<"assert", "rise", 0>> >> \o FlattenSeq(r) \in Seq(Untimed)
    BY <1>9, <1>10
  <2> QED BY <2>1
<1>13. PICK g3 \in Seq(Untimed) : g3 = g2 \o << <<"assert", "rise", n>>, <<"assert", "fall", n>> >> \o printk
  <2>1. g2 \o << <<"assert", "rise", n>>, <<"assert", "fall", n>> >> \o printk \in Seq(Untimed)
    BY <1>2, <1>10
  <2> QED BY <2>1
<1>14. GpioTest = g3
  BY <1>7, <1>8, <1>11, <1>12, <1>13, Zenon DEF GpioTest
<1> QED BY <1>14

\* The profiled program starts the timer, makes the table and then lets interrupts in.
LEMMA GprofInOrder == InOrder(Gprof)
<1>1. PICK p \in Seq(Step) : p = printk /\ Len(p) = 1 /\ p[1][1] = "puts"
  <2>1. PICK s \in Step : s = <<"puts", <<"x">> >> /\ s[1] = "puts"
    BY StepFacts, CharFacts
  <2> QED BY <2>1, Single DEF printk, puts
<1>2. PICK a \in Step, b \in Step, c \in Step, d \in Step :
        /\ a = <<"timer">> /\ b = <<"gprof_init">> /\ c = <<"irqs">> /\ d = <<"loop", 0>>
        /\ a[1] = "timer" /\ b[1] = "gprof_init" /\ c[1] = "irqs" /\ d[1] = "loop"
  <2>1. <<"timer">> \in Step /\ <<"gprof_init">> \in Step /\ <<"irqs">> \in Step /\ <<"loop", 0>> \in Step
    BY StepFacts
  <2> QED BY <2>1
<1>3. PICK q \in Seq(Step) : /\ q = <<a, b, c, d>> /\ Len(q) = 4
                             /\ q[1] = a /\ q[2] = b /\ q[3] = c /\ q[4] = d
  <2>1. /\ <<a, b, c, d>> \in Seq(Step) /\ Len(<<a, b, c, d>>) = 4 /\ <<a, b, c, d>>[1] = a
        /\ <<a, b, c, d>>[2] = b /\ <<a, b, c, d>>[3] = c /\ <<a, b, c, d>>[4] = d
    OBVIOUS
  <2> QED BY <2>1
<1>4. PICK g \in Seq(Step) : g = p \o q /\ g = Gprof
  <2>1. p \o q \in Seq(Step)
    OBVIOUS
  <2>2. p \o q = Gprof
    BY <1>1, <1>2, <1>3, Zenon DEF Gprof
  <2> QED BY <2>1, <2>2
<1>5. Len(g) = 5 /\ g[1] = p[1] /\ g[2] = a /\ g[3] = b /\ g[4] = c /\ g[5] = d
  <2>1. /\ Len(p \o q) = Len(p) + Len(q) /\ \A i \in 1 .. Len(p) : (p \o q)[i] = p[i]
        /\ \A i \in 1 .. Len(q) : (p \o q)[Len(p) + i] = q[i]
    BY Joined
  <2>2. /\ Len(g) = 1 + 4 /\ \A i \in 1 .. 1 : g[i] = p[i]
        /\ \A i \in 1 .. 4 : g[1 + i] = q[i]
    BY <1>1, <1>3, <1>4, <2>1, Zenon
  <2> QED BY <1>3, <2>2
<1>6. /\ g[1][1] = "puts" /\ g[2][1] = "timer" /\ g[3][1] = "gprof_init" /\ g[4][1] = "irqs"
      /\ g[5][1] = "loop"
  BY <1>1, <1>2, <1>5
<1>7. \A i \in 1 .. 5 : (g[i][1] = "irqs" => i = 4) /\ (g[i][1] = "gprof_init" <=> i = 3)
  <2> TAKE i \in 1 .. 5
  <2>1. i = 1 \/ i = 2 \/ i = 3 \/ i = 4 \/ i = 5
    OBVIOUS
  <2> QED BY <1>6, <2>1
<1>8. 3 \in 1 .. 4 - 1 /\ 3 \in 1 .. 5
  OBVIOUS
<1>9. InOrder(g)
  BY <1>5, <1>7, <1>8 DEF InOrder
<1> QED BY <1>4, <1>9

\* What stands behind the first step, before dull steps, and dull steps alone.
LEMMA RestOrder ==
  ASSUME NEW t \in Seq(Step), t # <<>>
  PROVE  /\ t \in Seq(Untimed) => Tail(t) \in Seq(Untimed) /\ Head(t) \in Untimed
         /\ t \in Seq(Begun) => Tail(t) \in Seq(Begun) /\ Head(t) \in Begun
         /\ InOrder(t) => /\ Head(t)[1] # "irqs"
                          /\ IF Head(t)[1] = "gprof_init" THEN Tail(t) \in Seq(Begun)
                             ELSE InOrder(Tail(t))
<1>1. PICK n \in Nat : Len(t) = n + 1
  <2>1. Len(t) - 1 \in Nat /\ Len(t) = (Len(t) - 1) + 1
    OBVIOUS
  <2> QED BY <2>1
<1>2. PICK r \in Seq(Step) : r = Tail(t)
  <2>1. Tail(t) \in Seq(Step)
    OBVIOUS
  <2> QED BY <2>1
<1>3. Len(r) = n /\ Head(t) = t[1] /\ (\A i \in 1 .. n : r[i] = t[i + 1] /\ i + 1 \in 1 .. n + 1)
  BY <1>1, <1>2
<1>4. ASSUME InOrder(t)
      PROVE  /\ Head(t)[1] # "irqs"
             /\ IF Head(t)[1] = "gprof_init" THEN r \in Seq(Begun) ELSE InOrder(r)
  <2>1. /\ \A i \in 1 .. n + 1 : t[i][1] = "irqs" => \E j \in 1 .. i - 1 : t[j][1] = "gprof_init"
        /\ \A i, j \in 1 .. n + 1 : t[i][1] = "gprof_init" /\ t[j][1] = "gprof_init" => i = j
    BY <1>1, <1>4 DEF InOrder
  <2>2. Head(t)[1] # "irqs"
    <3>1. 1 \in 1 .. n + 1 /\ 1 .. 1 - 1 = {}
      OBVIOUS
    <3> QED BY <1>3, <2>1, <3>1
  <2>3. CASE Head(t)[1] = "gprof_init"
    <3>1. 1 \in 1 .. n + 1 /\ \A i \in 1 .. n : i + 1 # 1
      OBVIOUS
    <3>2. \A i \in 1 .. n : r[i][1] # "gprof_init" /\ r[i] \in Step
      BY <1>3, <2>1, <2>3, <3>1
    <3>3. \A i \in 1 .. n : r[i] \in Begun
      BY <3>2 DEF Begun
    <3>4. r \in Seq(Begun)
      BY <1>3, <3>3
    <3> QED BY <2>2, <2>3, <3>4
  <2>4. CASE Head(t)[1] # "gprof_init"
    <3>1. ASSUME NEW i \in 1 .. n, r[i][1] = "irqs"
          PROVE  \E j \in 1 .. i - 1 : r[j][1] = "gprof_init"
      <4>1. PICK j \in 1 .. (i + 1) - 1 : t[j][1] = "gprof_init"
        BY <1>3, <2>1, <3>1
      <4>2. j # 1
        BY <1>3, <2>4, <4>1
      <4>3. j - 1 \in 1 .. i - 1 /\ j - 1 \in 1 .. n /\ (j - 1) + 1 = j
        BY <4>2
      <4>4. r[j - 1] = t[j]
        BY <1>3, <4>3
      <4> QED BY <4>1, <4>3, <4>4
    <3>2. ASSUME NEW i \in 1 .. n, NEW j \in 1 .. n, r[i][1] = "gprof_init", r[j][1] = "gprof_init"
          PROVE  i = j
      <4>1. i + 1 = j + 1
        BY <1>3, <2>1, <3>2, ZenonT(60)
      <4> QED BY <4>1
    <3>3. InOrder(r)
      BY <1>3, <3>1, <3>2 DEF InOrder
    <3> QED BY <2>2, <2>4, <3>3
  <2> QED BY <2>3, <2>4
<1> QED BY <1>2, <1>4

LEMMA DullOrder ==
  ASSUME NEW p \in Seq(Dull)
  PROVE  /\ p \in Seq(Untimed) /\ p \in Seq(Begun) /\ InOrder(p)
         /\ \A q \in Seq(Untimed) : p \o q \in Seq(Untimed)
         /\ \A q \in Seq(Begun) : p \o q \in Seq(Begun)
         /\ \A q : InOrder(q) => InOrder(p \o q)
<1>1. p \in Seq(Untimed) /\ p \in Seq(Begun) /\ p \in Seq(Step)
  BY DEF Dull, Untimed, Begun
<1>2. \A i \in 1 .. Len(p) : p[i][1] \notin {"irqs", "gprof_init"}
  BY DEF Dull
<1>3. InOrder(p)
  BY <1>1, <1>2 DEF InOrder
<1>4. ASSUME NEW q, InOrder(q) PROVE InOrder(p \o q)
  <2>1. q \in Seq(Step)
    BY <1>4 DEF InOrder
  <2>2. PICK m \in Nat, n \in Nat : m = Len(p) /\ n = Len(q)
    BY <1>1, <2>1
  <2>3. PICK r \in Seq(Step) : r = p \o q
    <3>1. p \o q \in Seq(Step)
      BY <1>1, <2>1
    <3> QED BY <3>1
  <2>4. Len(r) = m + n /\ (\A i \in 1 .. m : r[i] = p[i]) /\ (\A i \in 1 .. n : r[m + i] = q[i])
    <3>1. /\ Len(p \o q) = Len(p) + Len(q) /\ (\A i \in 1 .. Len(p) : (p \o q)[i] = p[i])
          /\ \A i \in 1 .. Len(q) : (p \o q)[Len(p) + i] = q[i]
      BY <1>1, <2>1, Joined
    <3> QED BY <2>2, <2>3, <3>1, Zenon
  <2>5. ASSUME NEW i \in 1 .. m + n, r[i][1] \in {"irqs", "gprof_init"}
        PROVE  \E k \in 1 .. n : i = m + k /\ r[i] = q[k]
    <3>1. i \notin 1 .. m
      BY <1>2, <2>2, <2>4, <2>5
    <3>2. i - m \in 1 .. n /\ i = m + (i - m)
      BY <3>1
    <3> QED BY <2>4, <3>2
  <2>6. ASSUME NEW i \in 1 .. m + n, r[i][1] = "irqs"
        PROVE  \E j \in 1 .. i - 1 : r[j][1] = "gprof_init"
    <3>1. PICK k \in 1 .. n : i = m + k /\ r[i] = q[k]
      BY <2>5, <2>6
    <3>2. PICK j \in 1 .. k - 1 : q[j][1] = "gprof_init"
      BY <1>4, <2>2, <2>6, <3>1 DEF InOrder
    <3>3. m + j \in 1 .. i - 1 /\ j \in 1 .. n
      BY <3>1
    <3> QED BY <2>4, <3>2, <3>3
  <2>7. ASSUME NEW i \in 1 .. m + n, NEW j \in 1 .. m + n, r[i][1] = "gprof_init", r[j][1] = "gprof_init"
        PROVE  i = j
    <3>1. PICK k \in 1 .. n : i = m + k /\ r[i] = q[k]
      BY <2>5, <2>7
    <3>2. PICK l \in 1 .. n : j = m + l /\ r[j] = q[l]
      BY <2>5, <2>7
    <3>3. k = l
      BY <1>4, <2>2, <2>7, <3>1, <3>2 DEF InOrder
    <3> QED BY <3>1, <3>2, <3>3
  <2> QED BY <2>3, <2>4, <2>6, <2>7 DEF InOrder
<1>5. \A q \in Seq(Untimed) : p \o q \in Seq(Untimed)
  BY <1>1
<1>6. \A q \in Seq(Begun) : p \o q \in Seq(Begun)
  BY <1>1
<1> QED BY <1>1, <1>3, <1>4, <1>5, <1>6

\* Steps of the program that leave the timer and the table alone.
LEMMA ProfRests ==
  ASSUME PrintInv, ProfInv, NEW k, Is(k), k \notin {"timer", "gprof_init"}, UNCHANGED gprof,
         irqs' = irqs \/ irqs' = FALSE \/ k = "irqs",
         NEW p \in Seq(Dull), todo' = Rest \/ todo' = p \o Rest \/ todo' = p
  PROVE  ProfInv'
<1>1. todo \in Seq(Step) /\ todo # <<>> /\ Head(todo)[1] = k
  BY Goes DEF Chained
<1>2. UNCHANGED <<ticking, pending, cnt, sample, ready>>
  BY DEF gprof
<1>3. todo \in Seq(Untimed) => todo' \in Seq(Untimed)
  BY <1>1, RestOrder, DullOrder DEF Rest
<1>4. todo \in Seq(Begun) => todo' \in Seq(Begun)
  BY <1>1, RestOrder, DullOrder DEF Rest
<1>5. InOrder(todo) => InOrder(todo') /\ k # "irqs"
  BY <1>1, RestOrder, DullOrder DEF Rest
<1>6. CASE ready
  BY <1>2, <1>4, <1>6 DEF ProfInv
<1>7. CASE ~ready
  <2>1. CASE ~ticking /\ ~pending /\ todo \in Seq(Untimed)
    BY <1>2, <1>3, <1>7, <2>1 DEF ProfInv
  <2>2. CASE ~irqs /\ InOrder(todo)
    BY <1>2, <1>5, <1>7, <2>2 DEF ProfInv
  <2> QED BY <1>7, <2>1, <2>2 DEF ProfInv
<1> QED BY <1>6, <1>7

LEMMA ProfTimer == PrintInv /\ ProfInv /\ TimerInit => ProfInv'
<1> SUFFICES ASSUME PrintInv, ProfInv, TimerInit PROVE ProfInv'
  OBVIOUS
<1>1. Is("timer") /\ todo' = Rest /\ UNCHANGED <<irqs, pending, cnt, sample, ready>>
  BY DEF TimerInit
<1>2. todo \in Seq(Step) /\ todo # <<>> /\ Head(todo)[1] = "timer"
  BY <1>1, Goes DEF Chained
<1>3. CASE ready
  BY <1>1, <1>2, <1>3, RestOrder DEF ProfInv, Rest
<1>4. CASE ~ready
  <2>1. todo \notin Seq(Untimed)
    BY <1>2, RestOrder DEF Untimed
  <2>2. ~irqs /\ InOrder(todo)
    BY <1>4, <2>1 DEF ProfInv
  <2>3. InOrder(Rest)
    BY <1>2, <2>2, RestOrder DEF Rest
  <2> QED BY <1>1, <1>4, <2>2, <2>3 DEF ProfInv
<1> QED BY <1>3, <1>4

LEMMA ProfStart == PrintInv /\ ProfInv /\ GprofInit => ProfInv'
<1> SUFFICES ASSUME PrintInv, ProfInv, GprofInit PROVE ProfInv'
  OBVIOUS
<1>1. /\ Is("gprof_init") /\ ready' = TRUE /\ sample' = Zeros(Code) /\ todo' = printk \o Rest
      /\ UNCHANGED <<irqs, pending, cnt>>
  BY DEF GprofInit
<1>2. todo \in Seq(Step) /\ todo # <<>> /\ Head(todo)[1] = "gprof_init"
  BY <1>1, Goes DEF Chained
<1>3. todo \notin Seq(Untimed) /\ todo \notin Seq(Begun)
  BY <1>2, RestOrder DEF Untimed, Begun
<1>4. ~ready /\ cnt = 0 /\ InOrder(todo)
  BY <1>3 DEF ProfInv
<1>5. Rest \in Seq(Begun)
  BY <1>2, <1>4, RestOrder DEF Rest
<1>6. todo' \in Seq(Begun)
  BY <1>1, <1>5, DullPieces, DullOrder
<1>7. Total(sample') = 0 /\ sample' \in [Code -> Nat]
  BY <1>1, LabsAssumption, TotalZeros DEF Zeros
<1>8. cnt' = 0
  BY <1>1, <1>4
<1> QED BY <1>1, <1>6, <1>7, <1>8 DEF ProfInv

\* The handler's sample, and the timer's interrupt.
LEMMA ProfSample == ProfInv /\ GprofHandler => ProfInv'
<1> SUFFICES ASSUME ProfInv, GprofHandler PROVE ProfInv'
  OBVIOUS
<1>1. irqs /\ pending /\ pending' = FALSE /\ cnt' = cnt + 1 /\ UNCHANGED <<todo, irqs, ticking, ready>>
  BY DEF GprofHandler
<1>2. ready
  BY <1>1 DEF ProfInv
<1>3. PICK pc \in Code : sample' = [sample EXCEPT ![pc] = @ + 1]
  BY <1>2 DEF GprofHandler
<1>4. sample \in [Code -> Nat] /\ IsFiniteSet(Code) /\ cnt \in 0 .. MaxTick /\ cnt < MaxTick
      /\ todo \in Seq(Begun) /\ Total(sample) = cnt
  BY <1>1, <1>2, LabsAssumption DEF ProfInv
<1>5. sample' \in [Code -> Nat]
  BY <1>3, <1>4
<1>6. Total(sample') = Total(sample) + 1
  BY <1>3, <1>4, TotalMore
<1>7. cnt' \in 0 .. MaxTick
  BY <1>1, <1>4, LabsAssumption
<1> QED BY <1>1, <1>2, <1>4, <1>5, <1>6, <1>7 DEF ProfInv

LEMMA ProfNext == PrintInv /\ ProfInv /\ Next => ProfInv'
<1> SUFFICES ASSUME PrintInv, ProfInv, Next PROVE ProfInv'
  OBVIOUS
<1>0. <<>> \in Seq(Dull)
  OBVIOUS
<1>1. CASE Putc
  <2>1. Is("puts") /\ UNCHANGED <<irqs, gprof>>
    BY <1>1 DEF Putc
  <2>2. Head(todo) \in Step /\ Head(todo)[1] = "puts"
    BY <2>1, Goes
  <2>3. Arg(2) \in Seq(Char)
    BY <2>2, PutsArg DEF Arg
  <2>4. CASE Arg(2) = <<>>
    BY <1>0, <1>1, <2>1, <2>4, ProfRests DEF Putc
  <2>5. CASE Arg(2) # <<>>
    <3>1. Tail(Arg(2)) \in Seq(Char)
      BY <2>3, <2>5
    <3>2. puts(Tail(Arg(2))) \in Seq(Dull) /\ todo' = puts(Tail(Arg(2))) \o Rest
      BY <1>1, <2>5, <3>1, DullPieces DEF Putc
    <3> QED BY <2>1, <3>2, ProfRests
  <2> QED BY <2>4, <2>5
<1>2. CASE UartInit \/ Flush \/ Reboot \/ EnableInterrupts \/ Detect \/ GpioWrite \/ Delay \/ Assign
  <2>1. PICK k : Is(k) /\ k \notin {"timer", "gprof_init"} /\ (irqs' = irqs \/ irqs' = FALSE \/ k = "irqs")
    BY <1>2 DEF UartInit, Flush, Reboot, EnableInterrupts, Detect, GpioWrite, Delay, Assign
  <2>2. PICK p : p = <<>>
    OBVIOUS
  <2>3. UNCHANGED gprof /\ (todo' = Rest \/ todo' = p)
    BY <1>2, <2>2 DEF UartInit, Flush, Reboot, EnableInterrupts, Detect, GpioWrite, Delay, Assign
  <2> QED BY <1>0, <2>1, <2>2, <2>3, ProfRests
<1>3. CASE TestAssert
  <2>1. PICK k \in {"assert", "more"} : Is(k)
    BY <1>3 DEF TestAssert
  <2>2. PICK p : p = puts(<<Panic>>) \o CleanReboot
    OBVIOUS
  <2>3. p \in Seq(Dull)
    <3>1. puts(<<Panic>>) \in Seq(Dull) /\ CleanReboot \in Seq(Dull)
      BY CharFacts, DullPieces
    <3> QED BY <2>2, <3>1
  <2>4. UNCHANGED <<irqs, gprof>> /\ (todo' = Rest \/ todo' = p)
    BY <1>3, <2>2 DEF TestAssert, Asserts
  <2> QED BY <2>1, <2>3, <2>4, ProfRests
<1>4. CASE DumpOne
  <2>1. Is("dump") /\ UNCHANGED <<irqs, gprof>> /\ \E p \in {printk, <<>>} : todo' = p \o Rest
    BY <1>4 DEF DumpOne
  <2>2. \A p \in {printk, <<>>} : p \in Seq(Dull)
    BY <1>0, DullPieces
  <2> QED BY <2>1, <2>2, ProfRests
<1>5. CASE Loop
  <2>1. Is("loop") /\ UNCHANGED <<irqs, gprof>>
    BY <1>5 DEF Loop
  <2>2. Head(todo) \in Step /\ Head(todo)[1] = "loop"
    BY <2>1, Goes
  <2>3. PICK n \in Nat : n = Arg(2) + 1
    BY <2>2 DEF Step, Arg
  <2>4. PICK p : p = todo'
    OBVIOUS
  <2>5. p \in Seq(Dull)
    <3>1. CASE cnt >= Samples
      BY <1>5, <2>4, <3>1, DullPieces DEF Loop
    <3>2. CASE ~(cnt >= Samples)
      <4>1. PICK d \in {Dump, <<>>} : d = IF n % Every = 0 THEN Dump ELSE <<>>
        OBVIOUS
      <4>2. PICK l : l = << <<"loop", n>> >>
        OBVIOUS
      <4>3. p = (printk \o d) \o l
        BY <1>5, <2>3, <2>4, <3>2, <4>1, <4>2, Zenon DEF Loop
      <4>4. d \in Seq(Dull)
        BY <1>0, <4>1, DumpDull
      <4>5. l \in Seq(Dull)
        BY <4>2, DullPieces
      <4> QED BY <4>3, <4>4, <4>5, DullPieces
    <3> QED BY <3>1, <3>2
  <2> QED BY <2>1, <2>4, <2>5, ProfRests
<1>6. CASE TimerInit \/ GprofInit \/ GprofHandler
  BY <1>6, ProfTimer, ProfStart, ProfSample
<1>7. CASE Tick
  BY <1>7 DEF Tick, ProfInv, InOrder
<1>8. CASE GpioHandler \/ Bounce \/ Transmit \/ Echo \/ Unplug
  <2>1. UNCHANGED <<todo, irqs, ticking, pending, cnt, sample, ready>>
    BY <1>8 DEF GpioHandler, Bounce, Transmit, Echo, Unplug, gprof
  <2> QED BY <2>1 DEF ProfInv, InOrder
<1> QED BY <1>1, <1>2, <1>3, <1>4, <1>5, <1>6, <1>7, <1>8 DEF Next, Program, Handler

LEMMA InitTodo ==
  SessionInit => /\ Reset
                 /\ \/ todo \in {GpioTest \o CleanReboot, Gprof, <<>>}
                    \/ \E t \in Texts : todo = puts(t) \o CleanReboot
BY Zenon DEF SessionInit, Init

LEMMA SessionProfInit == SessionInit => ProfInv
<1> SUFFICES ASSUME SessionInit PROVE ProfInv
  OBVIOUS
<1>1. irqs = FALSE /\ ticking = FALSE /\ pending = FALSE /\ cnt = 0 /\ sample = Zeros(Code) /\ ready = FALSE
  BY InitTodo DEF Reset
<1>2. sample \in [Code -> Nat] /\ cnt \in 0 .. MaxTick
  BY <1>1, LabsAssumption DEF Zeros
<1>3. todo \in Seq(Untimed) \/ InOrder(todo)
  <2>1. CASE todo = GpioTest \o CleanReboot
    <3>1. CleanReboot \in Seq(Untimed)
      BY DullPieces, DullOrder
    <3> QED BY <2>1, <3>1, GpioTestUntimed
  <2>2. CASE todo = Gprof
    BY <2>2, GprofInOrder
  <2>3. CASE todo = <<>>
    BY <2>3
  <2>4. ASSUME NEW t \in Texts, todo = puts(t) \o CleanReboot PROVE todo \in Seq(Untimed)
    <3>1. puts(t) \in Seq(Dull) /\ CleanReboot \in Seq(Untimed)
      <4>1. t \in Seq(Char)
        BY CharFacts
      <4> QED BY <4>1, DullPieces, DullOrder
    <3> QED BY <2>4, <3>1, DullOrder
  <2> QED BY InitTodo, <2>1, <2>2, <2>3, <2>4
<1> QED BY <1>1, <1>2, <1>3 DEF ProfInv

LEMMA SessionProfNext == PrintInv /\ Silent /\ ProfInv /\ [SessionNext]_svars => ProfInv'
<1> SUFFICES ASSUME PrintInv, Silent, ProfInv, [SessionNext]_svars PROVE ProfInv'
  OBVIOUS
<1>1. CASE Next
  BY <1>1, ProfNext
<1>2. CASE Finish
  <2>1. UNCHANGED <<irqs, ticking, pending, cnt, sample, ready>>
    BY <1>2 DEF Finish, gprof
  <2>2. PICK p \in {puts(<<Panic>>), printk, SysExit \o EquivPrint, SysExit} : todo' = p \o CleanReboot
    BY <1>2, Zenon DEF Finish
  <2>3. p \in Seq(Dull)
    <3>1. SysExit \in Seq(Dull) /\ EquivPrint \in Seq(Dull) /\ puts(<<Panic>>) \in Seq(Dull)
      <4>1. SysExit \in Seq(Dull)
        BY DullPieces DEF SysExit
      <4>2. EquivPrint \in Seq(Dull)
        BY DullPieces DEF EquivPrint
      <4>3. <<Panic>> \in Seq(Char)
        BY CharFacts
      <4> QED BY <4>1, <4>2, <4>3, DullPieces
    <3>2. SysExit \o EquivPrint \in Seq(Dull) /\ printk \in Seq(Dull)
      BY <3>1, DullPieces
    <3> QED BY <2>2, <3>1, <3>2
  <2>4. todo' \in Seq(Dull)
    BY <2>2, <2>3, DullPieces
  <2>5. todo' \in Seq(Untimed) /\ todo' \in Seq(Begun) /\ InOrder(todo')
    BY <2>4, DullOrder
  <2> QED BY <2>1, <2>5 DEF ProfInv
<1>3. CASE UNCHANGED lvars \/ UNCHANGED svars
  <2>1. UNCHANGED <<todo, irqs, ticking, pending, cnt, sample, ready>>
    BY <1>3 DEF lvars, svars, vars, gprof
  <2> QED BY <2>1 DEF ProfInv, InOrder
<1> QED BY <1>1, <1>2, <1>3, DebugStepFrame DEF SessionNext

LEMMA SessionEdgesInit == SessionInit => EdgesInv
<1> SUFFICES ASSUME SessionInit PROVE EdgesInv
  OBVIOUS
<1>1. /\ event = FALSE /\ detect = FALSE /\ hpc = "out"
      /\ counted = [w \in Ways |-> 0] /\ edges = [w \in Ways |-> 0]
  BY InitTodo DEF Reset, Zeros
<1>2. \A w \in Ways : counted[w] = 0 /\ edges[w] = 0
  BY <1>1
<1>3. counted \in [Ways -> Nat] /\ edges \in [Ways -> Nat] /\ NeverOvercounts
  BY <1>1, <1>2 DEF NeverOvercounts
<1> QED BY <1>1, <1>3 DEF EdgesInv

LEMMA SessionEdgesNext == EdgesInv /\ [SessionNext]_svars => EdgesInv'
<1> SUFFICES ASSUME EdgesInv, [SessionNext]_svars PROVE EdgesInv'
  OBVIOUS
<1>1. CASE Next
  BY <1>1, EdgesNext
<1>2. CASE Finish \/ UNCHANGED lvars \/ UNCHANGED svars
  <2>1. UNCHANGED <<hpc, gpio>>
    BY <1>2 DEF Finish, lvars, svars, vars
  <2> QED BY <2>1 DEF gpio, EdgesInv, NeverOvercounts, Way
<1> QED BY <1>1, <1>2, DebugStepFrame DEF SessionNext

\* uart_putc waits for room.
FifoInv == Len(fifo) <= TxSize

LEMMA SessionFifoNext == PrintInv /\ FifoInv /\ [SessionNext]_svars => FifoInv'
<1> SUFFICES ASSUME PrintInv, FifoInv, [SessionNext]_svars PROVE FifoInv'
  OBVIOUS
<1>1. fifo \in Seq(Char) /\ Len(fifo) \in Nat /\ TxSize \in Nat
  BY LabsAssumption DEF PrintInv, PrintTypes
<1>2. CASE Putc
  <2>1. fifo' = fifo \/ fifo' = Append(fifo, Head(Arg(2)))
    BY <1>2 DEF Putc
  <2>2. Len(fifo) < TxSize
    BY <1>2 DEF Putc, CanPutc
  <2>3. Len(fifo') <= Len(fifo) + 1
    BY <1>1, <2>1
  <2>4. Len(fifo') \in Nat
    BY <1>1, <2>1
  <2> QED BY <1>1, <2>2, <2>3, <2>4 DEF FifoInv
<1>3. CASE UartInit \/ Reboot
  BY <1>1, <1>3 DEF UartInit, Reboot, FifoInv
<1>4. CASE Transmit
  <2>1. fifo' = fifo \/ (fifo # <<>> /\ fifo' = Tail(fifo))
    BY <1>4 DEF Transmit
  <2> QED BY <1>1, <2>1 DEF FifoInv
<1>5. CASE \/ Flush \/ EnableInterrupts \/ Detect \/ GpioWrite \/ Delay \/ TestAssert \/ Assign
           \/ TimerInit \/ GprofInit \/ Loop \/ DumpOne \/ Handler
           \/ Tick \/ Bounce \/ Echo \/ Unplug \/ Finish \/ UNCHANGED lvars \/ UNCHANGED svars
  <2>1. fifo' = fifo
    BY <1>5 DEF Flush, EnableInterrupts, Detect, GpioWrite, Delay, TestAssert, Assign,
         TimerInit, GprofInit, Loop, DumpOne, Handler, GpioHandler, GprofHandler, Tick, Bounce, Echo,
         Unplug, Finish, lvars, svars, vars, uart
  <2> QED BY <2>1 DEF FifoInv
<1> QED BY <1>2, <1>3, <1>4, <1>5, DebugStepFrame DEF SessionNext, Next, Program

CountInv == /\ PrintInv /\ Silent /\ DebugInv /\ EchoInv /\ EdgesInv /\ PassInv /\ ProfInv /\ FifoInv

LEMMA CountInit == SessionInit => CountInv
<1>1. SessionInit => FifoInv
  BY InitTodo, LabsAssumption DEF Reset, FifoInv
<1> QED BY <1>1, SessionPrintInit, SilentInit, SessionDebugInit, SessionEchoInit, SessionEdgesInit,
           SessionPassInit, SessionProfInit DEF CountInv

LEMMA CountNext == CountInv /\ [SessionNext]_svars => CountInv'
BY SessionPrintNext, SilentNext, SessionDebugNext, SessionEchoNext, SessionEdgesNext,
   SessionPassNext, SessionProfNext, SessionFifoNext DEF CountInv

LEMMA CountHonest == CountInv => CountsHonest
<1> SUFFICES ASSUME CountInv PROVE CountsHonest
  OBVIOUS
<1>1. faults \in 0 .. MaxFault
  BY DEF CountInv, DebugInv, D!TypeOK
<1>2. TypeOK
  BY <1>1 DEF CountInv, TypeOK, EdgesInv, PassInv, EchoInv, ProfInv, FifoInv
<1>3. NeverOvercounts
  BY DEF CountInv, EdgesInv
<1>4. TestsFailOnlyWhen
  <2>1. faults \in Nat
    BY <1>1
  <2> QED BY <2>1 DEF CountInv, PassInv, TestsFailOnlyWhen
<1>5. SamplesAccounted
  <2>1. Total(sample) = cnt
    <3>1. CASE ready
      BY <3>1 DEF CountInv, ProfInv
    <3>2. CASE ~ready
      <4>1. cnt = 0 /\ sample = Zeros(Code)
        BY <3>2 DEF CountInv, ProfInv
      <4> QED BY <4>1, LabsAssumption, TotalZeros
    <3> QED BY <3>1, <3>2
  <2> QED BY <2>1, Zenon DEF Total, SamplesAccounted
<1> QED BY <1>2, <1>3, <1>4, <1>5 DEF CountsHonest

\* The counts of both handlers are true: the gpio test's assertions, on what its
\* handler counted between any two of its steps, fail only after a bounce of the
\* wire; the samples of a profile add up to the timer's interrupts, none of which
\* comes before the table is there.
THEOREM CountsAreHonest == SessionSpec => []CountsHonest
BY CountInit, CountNext, CountHonest, PTL DEF SessionSpec
=============================================================================
