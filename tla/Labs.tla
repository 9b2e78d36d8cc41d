-------------------------------- MODULE Labs --------------------------------
(***************************************************************************)
(* A lab session: a program on the pi (the gpio interrupt test, the        *)
(* profiler, or one that only prints), its interrupt handler, the uart it  *)
(* prints through, clean_reboot, and pi_echo on the laptop.                *)
(*                                                                         *)
(* A program is the list of what it has yet to do; the handler runs        *)
(* between any two of its steps.  A printk is one character, but for the   *)
(* texts that matter to pi_done; Nul is a character that cannot be printed.*)
(***************************************************************************)
EXTENDS Integers, Sequences, SequencesExt, Functions

CONSTANTS
  Programs,  \* those of {"gpio", "gprof", "text"} that are run
  Texts,     \* what the last of them prints
  TxSize,    \* characters the uart's TX FIFO holds
  Rounds,    \* n of test3_full_test
  Code,      \* the instructions, by number: 0 .. code_len - 1
  Samples, Every, MinVal, \* the profiler's 200, 10 and 2
  MaxTurn, MaxTick, \* bounds on its loop without an end in sight, on timer ticks
  MaxFault   \* bound on bounces of the wire and unplugging

ASSUME LabsAssumption ==
  /\ TxSize \in Nat \ {0} /\ Rounds \in Nat /\ Every \in Nat \ {0}
  /\ IsFiniteSet(Code) /\ Code = 0 .. Cardinality(Code) - 1
  /\ Samples \in Nat /\ MaxTick \in Nat /\ Samples <= MaxTick /\ MaxFault \in Nat

VARIABLES
  todo, irqs, hpc,    \* the program; whether the CPSR lets interrupts in; the handler
  level, event, detect, \* the wire from pin 21 to pin 20; EDS; whether its edges set it
  n_edge, before,     \* n_rising_edge and n_falling_edge; test3's b
  ticking, pending, cnt, sample, ready, \* the timer; the profiler: ready once its table is
  fifo, shift, line, rebooted, \* the uart, the cable and the laptop's tty; whether the pi has
  pos, echo,          \* pi_done's pos; pi_echo
  printed, got, edges, counted, faults \* history: text; edges, and those ever counted

gpio  == <<level, event, detect, n_edge, before, edges, counted>>
gprof == <<ticking, pending, cnt, sample, ready>>
uart  == <<fifo, shift, line, rebooted>>
laptop == <<pos, echo, got>>
vars  == <<todo, irqs, hpc, gpio, gprof, uart, laptop, printed, faults>>

None == ""
Nul == "0"
Panic == "P"
ExitString == <<"D", "O", "N", "E", "!", "!", "!", "nl">>
\* None is no character, and Panic is what a failing assert prints, and nothing else
ASSUME TextAssumption == \A t \in Texts : t \in Seq(Range(t) \ {None, Panic})
Ways == {"rise", "fall"}
Zeros(S) == [x \in S |-> 0]

-----------------------------------------------------------------------------
(* The programs.                                                           *)

puts(text) == << <<"puts", text>> >>
printk == puts(<<"x">>)

BugCleanReboot == puts(ExitString) \o << <<"settle">>, <<"reboot">> >>
CleanReboot == puts(ExitString) \o << <<"flush">>, <<"settle">>, <<"reboot">> >>

Write(v) == << <<"write", v>>, <<"delay">> >>
\* test1_simple_rise and test2_simple_fall
Simple(w, v) == << <<"assert", w, 0>> >> \o printk \o Write(v)
                \o << <<"assert", w, 1>>, <<"zero", w>> >> \o printk
\* one edge of test3_full_test
Edge(w, v) == << <<"save", w>> >> \o printk \o Write(v) \o printk \o << <<"more", w>> >>

GpioTest ==
  << <<"uart_init">> >> \o printk \o << <<"detect">>, <<"irqs">> >>
  \o Simple("rise", 1) \o Simple("fall", 0)
  \o << <<"assert", "fall", 0>>, <<"assert", "rise", 0>> >>
  \o FlattenSeq([i \in 1 .. Rounds |-> Edge("rise", 1) \o Edge("fall", 0)])
  \o << <<"assert", "rise", Rounds>>, <<"assert", "fall", Rounds>> >> \o printk

Gprof == printk \o << <<"timer">>, <<"gprof_init">>, <<"irqs">>, <<"loop", 0>> >>

\* everything but the program
Reset ==
  /\ irqs = FALSE /\ hpc = "out"
  /\ level = 0 /\ event = FALSE /\ detect = FALSE /\ n_edge = Zeros(Ways) /\ before = 0
  /\ ticking = FALSE /\ pending = FALSE /\ cnt = 0 /\ sample = Zeros(Code) /\ ready = FALSE
  /\ fifo = <<>> /\ shift = None /\ line = <<>> /\ rebooted = FALSE
  /\ pos = 0 /\ echo = "reading"
  /\ printed = <<>> /\ got = <<>> /\ edges = Zeros(Ways) /\ counted = Zeros(Ways) /\ faults = 0

Init ==
  /\ todo \in {IF p = "gpio" THEN GpioTest \o CleanReboot ELSE Gprof
                 : p \in Programs \ {"text"}}
              \union {puts(t) \o CleanReboot : t \in IF "text" \in Programs THEN Texts ELSE {}}
  /\ Reset

\* the program's next step is `what`, and no handler runs
Is(what) == hpc = "out" /\ todo # <<>> /\ Head(todo)[1] = what
Arg(i) == Head(todo)[i]
Rest == Tail(todo)

\* uart_can_putc: there is room
CanPutc == Len(fifo) < TxSize

\* uart_putc, for one character after the other
Putc ==
  /\ Is("puts") /\ CanPutc
  /\ IF Arg(2) = <<>> THEN todo' = Rest /\ UNCHANGED <<fifo, printed>>
     ELSE /\ fifo' = Append(fifo, Head(Arg(2))) /\ printed' = Append(printed, Head(Arg(2)))
          /\ todo' = puts(Tail(Arg(2))) \o Rest
  /\ UNCHANGED <<irqs, hpc, gpio, gprof, shift, line, rebooted, laptop, faults>>

UartInit ==
  /\ Is("uart_init") /\ todo' = Rest /\ fifo' = <<>>
  /\ UNCHANGED <<irqs, hpc, gpio, gprof, shift, line, rebooted, laptop, printed, faults>>

\* uart_flush_tx: the FIFO, not the character being sent; delay_ms(10) is longer
\* than a character takes
Flush ==
  /\ \/ Is("flush") /\ fifo = <<>>
     \/ Is("settle") /\ (fifo # <<>> \/ shift = None)
  /\ todo' = Rest
  /\ UNCHANGED <<irqs, hpc, gpio, gprof, uart, laptop, printed, faults>>

Reboot ==
  /\ Is("reboot") /\ todo' = <<>> /\ rebooted' = TRUE /\ irqs' = FALSE
  /\ fifo' = <<>> /\ shift' = None
  /\ UNCHANGED <<hpc, gpio, gprof, line, laptop, printed, faults>>

\* system_enable_interrupts
EnableInterrupts ==
  /\ Is("irqs") /\ irqs' = TRUE /\ todo' = Rest
  /\ UNCHANGED <<hpc, gpio, gprof, uart, laptop, printed, faults>>

-----------------------------------------------------------------------------
(* The gpio test, and its handler.                                         *)

Way(v) == IF v = 1 THEN "rise" ELSE "fall"
\* the wire goes to v
Drive(v) ==
  /\ level' = v
  /\ IF v = level THEN UNCHANGED <<event, edges>>
     ELSE event' = (event \/ detect) /\ edges' = [edges EXCEPT ![Way(v)] = @ + 1]

\* gpio_int_rising_edge and gpio_int_falling_edge
Detect ==
  /\ Is("detect") /\ detect' = TRUE /\ todo' = Rest
  /\ UNCHANGED <<irqs, hpc, level, event, n_edge, before, edges, counted, gprof, uart, laptop,
                 printed, faults>>

GpioWrite ==
  /\ Is("write") /\ Drive(Arg(2)) /\ todo' = Rest
  /\ UNCHANGED <<irqs, hpc, detect, n_edge, before, counted, gprof, uart, laptop, printed, faults>>

\* delay_us(t): half a second, longer than it takes to handle what is pending
Delay ==
  /\ Is("delay") /\ ~event /\ todo' = Rest
  /\ UNCHANGED <<irqs, hpc, gpio, gprof, uart, laptop, printed, faults>>

\* assert panics: it prints and reboots
Asserts(ok) == todo' = IF ok THEN Rest ELSE puts(<<Panic>>) \o CleanReboot
TestAssert ==
  /\ \/ Is("assert") /\ Asserts(n_edge[Arg(2)] = Arg(3))
     \/ Is("more") /\ Asserts(before + 1 = n_edge[Arg(2)])
  /\ UNCHANGED <<irqs, hpc, gpio, gprof, uart, laptop, printed, faults>>

Assign ==
  /\ \/ Is("zero") /\ n_edge' = [n_edge EXCEPT ![Arg(2)] = 0] /\ UNCHANGED before
     \/ Is("save") /\ before' = n_edge[Arg(2)] /\ UNCHANGED n_edge
  /\ todo' = Rest
  /\ UNCHANGED <<irqs, hpc, level, event, detect, edges, counted, gprof, uart, laptop, printed,
                 faults>>

BugOrder == <<"out", "clear", "level">>
\* interrupt_vector: the event is read, then the level, and then the event cleared
Order == <<"out", "level", "clear">>
After(h) == Order[((CHOOSE i \in 1 .. 3 : Order[i] = h) % 3) + 1]
GpioHandler ==
  /\ hpc' = After(hpc)
  /\ \/ hpc = "out" /\ irqs /\ event /\ UNCHANGED <<n_edge, counted, event>>
     \/ /\ hpc = "level" /\ n_edge' = [n_edge EXCEPT ![Way(level)] = @ + 1]
        /\ counted' = [counted EXCEPT ![Way(level)] = @ + 1] /\ UNCHANGED event
     \/ hpc = "clear" /\ event' = FALSE /\ UNCHANGED <<n_edge, counted>>
  /\ UNCHANGED <<todo, irqs, level, detect, before, edges, gprof, uart, laptop, printed, faults>>

-----------------------------------------------------------------------------
(* The profiler, and its handler.                                          *)

TimerInit ==
  /\ Is("timer") /\ ticking' = TRUE /\ todo' = Rest
  /\ UNCHANGED <<irqs, hpc, gpio, pending, cnt, sample, ready, uart, laptop, printed, faults>>

\* kmalloc, and the loop that zeroes the table
GprofInit ==
  /\ Is("gprof_init") /\ ready' = TRUE /\ sample' = Zeros(Code) /\ todo' = printk \o Rest
  /\ UNCHANGED <<irqs, hpc, gpio, ticking, pending, cnt, uart, laptop, printed, faults>>

Dump == FlattenSeq([i \in 1 .. Cardinality(Code) |-> << <<"dump", i - 1>> >>])
\* while(cnt < 200); the bound: no more than MaxTurn turns
Loop ==
  /\ Is("loop") /\ (cnt < Samples => Arg(2) < MaxTurn)
  /\ todo' = IF cnt >= Samples THEN CleanReboot
             ELSE printk \o (IF (Arg(2) + 1) % Every = 0 THEN Dump ELSE <<>>)
                  \o << <<"loop", Arg(2) + 1>> >>
  /\ UNCHANGED <<irqs, hpc, gpio, gprof, uart, laptop, printed, faults>>
\* gprof_dump
DumpOne ==
  /\ Is("dump") /\ todo' = (IF sample[Arg(2)] > MinVal THEN printk ELSE <<>>) \o Rest
  /\ UNCHANGED <<irqs, hpc, gpio, gprof, uart, laptop, printed, faults>>

\* interrupt_vector and gprof_inc, between any two instructions: before the table
\* is there, the increment goes elsewhere
GprofHandler ==
  /\ irqs /\ pending /\ pending' = FALSE /\ cnt' = cnt + 1
  /\ \E pc \in Code : sample' = IF ready THEN [sample EXCEPT ![pc] = @ + 1] ELSE sample
  /\ UNCHANGED <<todo, irqs, hpc, gpio, ticking, ready, uart, laptop, printed, faults>>

Program == \/ Putc \/ UartInit \/ Flush \/ Reboot \/ EnableInterrupts
           \/ Detect \/ GpioWrite \/ Delay \/ TestAssert \/ Assign
           \/ TimerInit \/ GprofInit \/ Loop \/ DumpOne
Handler == GpioHandler \/ GprofHandler

-----------------------------------------------------------------------------
(* The hardware.                                                           *)

\* the timer, while it is left running
Tick ==
  /\ ticking /\ ~pending /\ ~rebooted /\ cnt < MaxTick /\ pending' = TRUE
  /\ UNCHANGED <<todo, irqs, hpc, gpio, ticking, cnt, sample, ready, uart, laptop, printed, faults>>

\* a bad contact: an edge that nobody wrote
Bounce ==
  /\ detect /\ ~rebooted /\ faults < MaxFault /\ faults' = faults + 1 /\ Drive(1 - level)
  /\ UNCHANGED <<todo, irqs, hpc, detect, n_edge, before, counted, gprof, uart, laptop, printed>>

Transmit ==
  /\ \/ shift = None /\ fifo # <<>> /\ shift' = Head(fifo) /\ fifo' = Tail(fifo) /\ line' = line
     \/ shift # None /\ line' = Append(line, shift) /\ shift' = None /\ fifo' = fifo
  /\ UNCHANGED <<todo, irqs, hpc, gpio, gprof, rebooted, laptop, printed, faults>>

-----------------------------------------------------------------------------
(* pi_echo; pi_cat is the same loop.                                       *)

\* remove_nonprint
Printable(buf) == [i \in DOMAIN buf |-> IF buf[i] = Nul THEN " " ELSE buf[i]]

\* pi_done looks at the characters before a NUL
Visible(s) == IF Nul \in Range(s) THEN SubSeq(s, 1, SelectInSeq(s, LAMBDA c : c = Nul) - 1) ELSE s
BugMatch(p, c) == IF c = ExitString[p + 1] THEN p + 1 ELSE p
\* the loop's body: a mismatch starts again after the character that did not match
Match(p, c) == IF c = ExitString[p + 1] THEN p + 1 ELSE 0
BugPos(s) == FoldLeft(LAMBDA p, c : IF p = 8 THEN p ELSE Match(p, c), 0, Visible(s))
\* static unsigned pos, after pi_done(s)
Pos(s) == FoldLeft(LAMBDA p, c : IF p = 8 THEN p ELSE Match(p, c), pos, Visible(s))

\* read gives any number of the characters that have come
Echo ==
  /\ echo = "reading" /\ line # <<>>
  /\ \E n \in 1 .. Len(line) :
       LET buf == SubSeq(line, 1, n) IN
       /\ line' = SubSeq(line, n + 1, Len(line)) /\ got' = got \o buf
       /\ pos' = Pos(Printable(buf))
       /\ echo' = IF pos' = 8 THEN "done" ELSE "reading"
  /\ UNCHANGED <<todo, irqs, hpc, gpio, gprof, fifo, shift, rebooted, printed, faults>>

\* the tty is gone: read gives nothing
Unplug ==
  /\ echo = "reading" /\ faults < MaxFault /\ faults' = faults + 1 /\ echo' = "gone"
  /\ UNCHANGED <<todo, irqs, hpc, gpio, gprof, uart, pos, got, printed>>

Next == Program \/ Handler \/ Tick \/ Bounce \/ Transmit \/ Echo \/ Unplug

\* The processor, the uart and the timer run, and the laptop schedules pi_echo.
Spec == /\ Init /\ [][Next]_vars
        /\ WF_vars(Program) /\ WF_vars(Handler) /\ WF_vars(Tick) /\ WF_vars(Transmit)
        /\ WF_vars(Echo)

-----------------------------------------------------------------------------

\* One value of every variable's type.
TypeOK ==
  /\ hpc \in {"out", "level", "clear"} /\ level \in {0, 1} /\ pos \in 0 .. 8
  /\ n_edge \in [Ways -> Nat] /\ sample \in [Code -> Nat] /\ cnt \in 0 .. MaxTick
  /\ Len(fifo) <= TxSize /\ echo \in {"reading", "done", "gone"} /\ faults \in 0 .. MaxFault

\* Whatever a program prints is on the laptop's side when clean_reboot reboots,
\* also from a panic between two edges: uart_init, uart_putc and uart_flush_tx
\* neither drop nor cut it.
NothingLost == rebooted => got \o line = printed

\* pi_echo ends well only when it has read the whole exit string, wherever
\* the reads cut it (pi_done's static pos).
ExitMeansDone == echo = "done" => \E i \in DOMAIN got : IsPrefix(ExitString, SubSeq(got, i, Len(got)))

\* No edge is counted twice, nor one way for the other: the handler counts at
\* most the edges of each way there have been, however they fall between its
\* reads of the event and of the level and its clearing of the event.
NeverOvercounts == \A w \in Ways : counted[w] <= edges[w]

\* A program's assertions fail only after a fault: the gpio test's when the wire
\* bounced.
TestsFailOnlyWhen == Panic \in Range(printed) => faults > 0

\* Every timer interrupt is in the profile: none came before the table was
\* there and zeroed (the order of notmain's calls).
SamplesAccounted == FoldFunction(+, 0, sample) = cnt

\* What the handlers count and the tests assert is true of the interrupts there were.
CountsHonest == TypeOK /\ NeverOvercounts /\ TestsFailOnlyWhen /\ SamplesAccounted

\* pi_done does not see DDONE!!!: what was printed before the message ends like a
\* beginning of it.
Unlucky == LET text == SubSeq(printed, 1, Len(printed) - Len(ExitString))
           IN \E k \in 1 .. 7 : IsSuffix(SubSeq(ExitString, 1, k), text)

\* Every session ends: the program reboots, and pi_echo sees it, unless what was
\* printed before the exit string is unlucky.
SessionEnds == <>(rebooted /\ (echo # "reading" \/ Unlucky))
=============================================================================
