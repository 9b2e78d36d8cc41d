# TLA+ models of rpi_system

Models of the runtime, tools and drivers of this repository (a CS140E style
system for the Raspberry Pi), model-checked with TLC, and theorems about them
proved with TLAPS. Every definition is translated from the source; PROJECT.json
("map") names the lines.

Contents: 1 inventory - 2 plan - 3 the models and their runs - 4 the proofs -
5 where code and documentation disagree - 6 other observations - 7 what is not
modelled.

To run: `tlc -config <run>.cfg <module>` for a run of PROJECT.json;
`tlapm <module>.tla` for the proofs: CircularQueueProofs, KernelProofs,
BootloaderProofs, Fat32Proofs, NrfProofs, EspProofs, SdProofs and LabsProofs.
EspProofs takes a quarter of an hour, the others a few minutes each.

## 1 Inventory

The repository is a set of labs (`src/labs`) over a small library for the pi
(`src/libpi`), one for the laptop (`src/libunix`) and a fake pi
(`src/libpi-fake`). One processor, no preemption other than interrupts, no
virtual memory in the code that is complete. Parts that are called "staff" are
binaries or given code; many lab functions are `unimplemented()`.

| component | state | operations | interacts with | hard behaviour | what makes it correct | module |
|---|---|---|---|---|---|---|
| circular queue (`libpi/libc/circular.h`) | `buf, head, tail` | `cq_push(_n)`, `cq_pop(_n)(_noblk)`, `cq_peek(_n)` | interrupt handlers push, the main loop pops | a handler runs between any two instructions of the consumer; full queue; wrap of `head - tail` | no element lost, invented, reordered or torn; the panics called impossible are; a counted pop never blocks | CircularQueue, Fifo |
| linked queue (`libpi/libc/Q.h`) | `head, tail, cnt`, `next` in the elements | `Q_append, Q_pop, Q_start, Q_next` | two queues of threads share the `next` field | stale links when an element moves | both queues stay proper lists | LinkedQueue |
| threads (`labs/8-threads`) | `runq, freeq, cur_thread, scheduler_thread, tid`, saved stacks | `rpi_fork, rpi_thread_start, rpi_yield, rpi_exit`, `rpi_cswitch` | kernel heap, linked queue | an exiting thread frees the stack it is on; a switch resumes what another saved | no stack has two owners, no thread is lost, a switch resumes a saved context, round robin, start returns | RpiThread, RoundRobin, Kernel |
| bootloader (`labs/3-bootloader`, `labs/4-uart/2-bootloader`) | the position of each end in the protocol, bytes in flight, the pi's memory | `get_code`, `notmain`, `simple_boot`, `get_op` | UART, tty, user | lost and garbled bytes, stale bytes of an earlier session, repeated requests, restarts of either end | success means loaded, only intact code runs, the laptop comes to an end | Bootloader |
| kernel heap (`libpi/src/kmalloc.c`) | `alloc_start, alloc_top, max_bytes, init_p` | `kmalloc(_aligned)`, `kmalloc_init(_set_start)`, `kfree_all` | nearly every lab | odd sizes mixed with large alignments; reuse after `kfree_all` | blocks aligned and disjoint | Kmalloc, Allocator, Kernel |
| fat32 (`labs/15-fat32`) | FAT in memory, `fat32_fs_t`, heap blocks with results | `fat32_mk, fat32_readdir, fat32_stat, fat32_read` | SD card, kernel heap | scattered chains, directories of several clusters, reads past a block | the valid entries of listings exact and stable, the table intact, calls end | Fat32 |
| SD card driver (`labs/15-fat32/code/external-code`, `pi-sd.c`) | `sd_scr, sd_err, sd_rca`, the controller's registers | `sd_init, sd_readblock, sd_writeblock` | controller and card | late, lost and stale flags; a card that keeps its state over a restart | what is reported read or written is; driver, controller and card agree; calls return | Sd |
| uart (`libpi/src/uart.c`) | two hardware FIFOs | `uart_init, get8, put8, flush` | bootloader, printk, clean_reboot | overrun, disabling or rebooting while sending | nothing printed is lost | Labs (sending), Bootloader (receiving) |
| gpio and its interrupts (`libpi/src/gpio.c`, `labs/7-device-interrupts/1-gpio-int`) | pin modes, event bits | set, read, detect, clear | interrupt handler | an edge between reading and clearing | no edge counted twice or as the other kind | Labs |
| timers and timeouts (`libpi/include/timeout.h`, `labs/6-interrupts`) | accumulated time, last reading | `timeout_start, timeout_get_usec` | radio | the 32-bit counter wraps | elapsed time right across wraps | Timeout |
| profiler (`labs/6-interrupts/2-gprof`) | table of counts | init, `gprof_inc`, dump | timer interrupt, kernel heap | interrupts before the table is there, and beside the dump | every sample lands in the table | Labs |
| debug hardware (`labs/9-debug-hardware`) | breakpoint and watchpoint registers, fault status | `brkpt_set0, watchpt_set0`, enable, abort vectors | exceptions | status registers keep what earlier faults left; a handler disarms what raised it | each fault the one armed for, once; other aborts stop the program | Debug |
| user processes, single stepping (`labs/11-user-process`) | mismatch register, count, hash of pcs | `user_mode_run_fn`, `*_run_fn`, abort handlers, `do_syscall` | debug hardware, system calls, clean_reboot | the handler rearms what raised it; the kernel's own user-mode instructions | each instruction of the program counted once, none of the kernel's | Debug |
| esp8266 (`labs/16-esp8266`) | lexer buffer, connections, command in progress | AT commands, `esp_send, esp_is_recv`, reset | serial line to the module | answers interleaved with unsolicited lines, input that trickles in, restarts | each command takes its own answer, messages whole | Esp |
| nrf24l01+ (`labs/17-nrf24l01p`) | chip registers, receive FIFO, a queue for each pipe | `nrf_get_pkts`, sends, reads with timeouts | circular queue, timeouts, SPI | packets arrive while the interrupt is cleared; lost acknowledgements | every packet reaches its pipe, in order, once | Nrf |
| laptop tools (`libunix`) | position in `DONE!!!`, tty settings | `pi_echo, read_exact, ...` | the pi's output | output cut into reads at any byte | the end is found whatever the cut | Labs, Bootloader |
| the rest | | | | | listed with reasons in section 7 and in PROJECT.json | |

Interactions that carry state: interrupt handler and main loop through a
circular queue; laptop and pi through the UART; two programs through two radios
or two esps; threads through two lists of one kind of block; everything through
the one bump allocator, whose blocks are adjacent, so that a write past one lands
in the next; every program's last words through uart and clean_reboot to pi_echo.

"hazards" in PROJECT.json lists, line by line, what can go wrong and which
properties would show it.

## 2 Plan

Done, in this order: `CircularQueue` with `Fifo`; `LinkedQueue` and `RpiThread`
with `RoundRobin`; `Bootloader`; `Kmalloc` with `Allocator`; `Kernel`, which
composes threads and heap; `Fat32`, which
composes with `Kmalloc`; `Timeout` and `Nrf`, which composes with it; `Esp`;
`Sd`; `Labs` (gpio interrupts, profiler, uart, reboot and pi_echo); `Debug` and
`Sessions`, which composes it with `Labs`. Proofs, for every component, of the
invariants its runs check, but for two (section 4).

Left, the most important first:

1. Theorems: `Esp` ResetRecovers, whose invariant has to say what a session
   that was cut off anywhere has left in lexer, wire and module.
2. `Fat32` over `Sd` instead of over a card that always answers: the file
   system never looks at the result of a read, so what FAT32 promises is what Sd
   promises, and the composition is far larger than either.
3. `Nrf` with the bytewise steps of `CircularQueue` in place of its sequence:
   only useful once a handler, and not the main loop, drains the chip.

## 3 The models and their runs

Several invariants that only make sense together are checked as one, whose
definition names its parts; the type invariants are among the parts. Definitions
named `Bug...` are mutated forms of the definition below them; they
take no part in the models and are there to show that a property can fail.

### Circular queue: CircularQueue, Fifo, MCCircularQueue

Each memory access that the other side can see is one action: for the producer
`PushCall, PushCheck, PushWrite, PushPublish`, for the consumer `PopCall,
CheckNElem, CheckEmpty, Read, Advance, PeekRestore, PeekAssert`. `cpc` and
`ppc` say where each side is, the locals of the C functions are variables.
`intr` says whether interrupts are on: the client turns them off and on between
its calls (`MaskInt`), and while they are off the producer is called between
two of its calls. With them on the two sides interleave freely, which includes a
handler that preempts the consumer at any point and runs to its end. `PushCheck`
joins the two reads of tail in cq_push (cq_full's and the assertion's): between
them the other side can only make more space. `pushed`
and `popped` are history. `Fifo` is the atomic bounded queue.

- **CQ_lockfree** (32,490 states; 4 slots, words of 16, records of two elements,
  6 pushes, every operation, cq_peek_n with interrupts off). Conserved
  (nothing lost, invented or reordered); NoImpossiblePanic; NoblkNeverBlocks;
  ResultsExact (a full queue drops whole records, peeks return what comes next,
  a masked cq_peek_n does not panic); Delivered; ImplementsFifo (PROPERTY
  `F!Spec`). TypeOK is proved. Four slots
  give every relation of head and tail, and six pushes take both past the wrap.
  Only relations modulo N matter, and the word of 16 is a multiple of N as 2^32
  is.
- **CQ_peek_race** finds `cq_peek_n`'s own assertion failing beside a handler.

Fairness: both sides finish a call they began (an interrupt handler runs to its
end, and the code it interrupts goes on), weak; and strong fairness of
`PopCall("pop", 1)` for Delivered, which is a client that comes back to
`cq_pop` whatever else it calls. Weak fairness would not do, because
`PopCall` is disabled during each other call.

### Threads: LinkedQueue, RpiThread, RoundRobin, Kernel

A thread block is a number; the `next` fields of all blocks are one function, as
both queues use the same field. A context switch saves into one block and resumes
what another has saved; `ctx` says in which call each block was saved, and `on`
whose stack the processor is on. Because nothing preempts a thread, each call up
to its switch is one action: `Fork, Start, Yield, Exit`. A thread whose code
returns reaches rpi_exit through rpi_init_trampoline, so it is `Exit` too.

`Kernel` puts the threads on the heap: a fork or start that finds no block on the
free queue is one step with the `kmalloc_aligned(sizeof *t, 8)` of th_alloc
(`ThreadBlock`), and others call the heap between all of these. They do not
reset it under running threads: no program of the repository does.

- **Kernel_mc** (89,505 states; up to 6 thread ids, thread blocks of 5 bytes,
  others' blocks of 1, 5 and 6 aligned to 2, 8 and 16). Of the threads:
  BlocksInPlace (QueuesWellFormed, OneOwner, NoThreadLost, ResumableContexts,
  BlocksRecycled), ImplementsRoundRobin (PROPERTY `R!Spec`), ReadyRuns,
  StartReturns. Of the heap: Disjoint, ImplementsAllocator (PROPERTY `A!Spec`).
  Six ids allow three threads beside a second rpi_thread_start and reuse of
  blocks from the free queue in either order. The sizes leave each remainder
  modulo 4 that matters, the alignments lie below, at and above the heap's own.
  Before the first thread others fill the heap up to ClientEnd, in any order and
  with resets between, where the heap's own questions are asked; beside threads
  one block more (MaxOthers) is enough to put any remainder between two thread
  blocks.

Fairness: `WF(Yield \/ Exit)`, the cooperation the package rests on: a thread
that neither yields nor exits starves the rest by design. StartReturns assumes
besides that threads exit.

### Bootloader: Bootloader, MCBootloader

A byte is `<<kind, value, index>>`, its word and its place in it; a reader that
takes the four bytes of a word in order gets the word, else `Junk`. So losing a
byte shifts everything after it, as on the wire. The pi's actions are the steps
of `get_code` and `notmain`; the laptop's those of `simple_boot`, with `get_op`
eating PRINT_STRINGs at each read. The pi's UART holds `FifoSize` bytes and may
lose those beyond. Faults: `Lose, Corrupt, Relaunch` (my-install run again on a
tty that holds stale answers), `PowerCycle`. Each is counted and bounded.
`Intact` stands for the checksum: it is assumed free of collisions. Addresses
wrap at `AddrSpace`. On a mismatch `ck_eq32` does not stop: it echoes what the tty
gives (`UnixEcho`) until a read comes back with nothing, and only then panics.
(Lab 5's copy of simple-boot.h has this loop under `#if 0`; lab 3's, which is
modelled, runs it.)

- **Boot_mc** (248,001 states). Two kinds of session, told apart by `quiet` (MCBootloader).
  Without faults, with nine kinds of garbage in the tty: BootCompletes, and of
  TransferSound the part StaysAligned. With at most one fault of each
  kind, up to three of the four in a session: TransferSound (SuccessMeansLoaded, RunsOnlyIntactCode) and
  UnixEnds. Both kinds are checked for all of them; BootCompletes and
  StaysAligned speak of behaviours without a fault. The pi repeats its request
  for as long as it likes; only a tty that nobody reads is bounded (MaxUnread).
  UnixEnds excepts the power cycle: a laptop past step 1 under which the pi
  starts anew drains or echoes its requests, which come every 300 ms, for
  ever. The comment on ck_eq32, "drains the tty and echos ... and then dies", is
  true only of a pi that falls silent.
- **Boot_collide**: section 5.

One fault of each kind is enough for a byte to shift a message, for a stale
answer to meet a restarted laptop and for both at once; several losses in one
message shift it by at most a word, which the nine kinds of garbage cover on the
laptop's side. Programs have 2 bytes, so that the bytes of the code are loaded,
lost or garbled separately.

Fairness: `WF(PiStep)` and `WF(UnixStep)`: each end goes on when it can.
`ReadGivesUp` is the timeout of a read, read_exact's as ck_eq32's. It is 8 s,
longer than the pi's 300 ms, and so comes only when the pi waits for bytes that
are not there or has left the bootloader, never while it repeats its request;
hence the ENABLED.

### Kernel heap: Kmalloc, Allocator

`alloc_top` is bumped, `kfree_all` puts it back. A failing assertion or demand
stops the program, so it is a guard. `blocks` is history: what was handed out
since the last `kfree_all`. `MemEnd` bounds the model. What the blocks hold is
left out: rpi.h promises zeros, but nothing in the code makes the heap zero at
boot, and after kfree_all it is not (section 6). The heap is checked in
Kernel_mc, with the threads; TypeOK and StartsAgain are proved.

### FAT32: Fat32, MCFat32

One action for each turn of each loop. `pc` runs through `mbr_read` and
`fat32_mk` (`MbrRead, MkInfo, MkFat`), then for a call through
`get_cluster_chain_length, get_dirents, read_cluster_chain` and the two scans
(`ChainLength, AllocDirents, ReadChain, Scan, AllocArray, Convert`), `Lookup`,
and for fat32_read `ChainLength, ReadFile, FileStruct`. Each allocation is
`Kmalloc!Bump`, so blocks lie side by side as on the machine. Memory is the
sequence of writes to it (`wrote`): a byte holds what the last write over it put
there. All reads of the program go through it, so a table, listing or file
that a later write ran over shows. Sizes of structures are those of the code;
sectors are 64 bytes (two directory entries, 16 FAT entries) and FAT entries
have 5 bits below the top ones. `Chain` and `Entries` say, without the driver,
what the card holds.

- **Fat32_mc** (52,094 states). 22 cards: root chains of one and three
  scattered clusters, clusters of one and two sectors, deleted entries, long
  names, a volume label that reads like a file, an empty file, a subdirectory
  of two clusters that run backwards, end marks with the top bits set, and two
  cards that fail the checks. Any three calls. MemoryIntact
  (FatIntact, StaysInBlock), ResultsExact (ListingsExact, StatFindsFirst),
  StopsOnlyWhen, CallsReturn. Listings are claimed to be right only in their
  `Valid` entries: each file and directory is listed once, in order, at its
  place among the entries in use; long names and labels take up the places
  between them, which Fat32_list reports. Three calls let a
  listing be returned, a file be read past its block and another directory be
  read over what it left.
- **Fat32_read**, **Fat32_list**: section 5.

A name that is not found gives index -1: `NotFound` is what the code then takes
for an entry. Its fields lie at offsets 32 to 43 of a pi_dirent_t, over
the bytes 20 to 31 of the last raw entry in front of the array. On the cards of
the model a directory's last entry is its end mark (`SoundDirectory`), and its
bytes are taken to be zero, as formatting leaves them. fat32_read goes on with these fields;
no property calls that right.

Fairness: `WF(Step)`: a call that was begun is carried on; nothing is assumed of
the client. The cards that pass the checks of mounting are sound
(`SoundCard`, which Fat32Assumption states and TLC evaluates): every chain ends
inside the table, every directory has an end mark, an entry leads to a chain, no
name asked for is a directory's, no file lies in a directory's clusters. Section 6
says what happens on others.

### Radio: Timeout, Nrf

The tests' program drives two chips from one pi. Each access to a chip that can
see what the air does is a step: reading the FIFO's state, a packet, clearing
RX_DR, entering TX mode, polling TX_DS and MAX_RT. A packet is `<<sender,
number>>`, a byte `<<packet, index>>`. `Transmit` is one attempt of a sending
chip, in which packet or acknowledgement may be lost; the peer's chip drops a
repeat it has heard. `Stray` is a packet of somebody else's, `Reboot` a restart
of the pi over chips that keep power. Several bodies are `unimplemented()` in this repository and are
modelled by their comments and by what the code around them expects: nrf_rx_mode,
nrf_tx_mode and do_tx; in both sends the setting of the addresses
(nrf-driver.c:368, 436); in nrf_tx_send_noack the whole wait for the packet to
leave (378, of which only the comment at 374-377 is there); in nrf_tx_send_ack
the clearing of the TX interrupt (463). What AckedExactlyOnce and CallsEnd say of
sends is therefore as much about the chip and these comments as about code. A pipe's queue is CircularQueue's abstract FIFO, read and written by one
thread here. `Timeout` is the 64-bit sum of differences of a 32-bit counter.

- **Nrf_mc** (895,623 states; messages of 2 bytes, reads of 3, queues of 5,
  three sends, two faults among strangers, losses and restarts; a counter that
  wraps at 3, read every 2). BytesConserved, NoLostInterrupt, AckedExactlyOnce,
  StopsOnlyWhen, TimeoutsHonest, CallsEnd. Reads of a size that is not the
  message's leave parts of packets in the queue; two faults let a packet arrive
  while the interrupt is cleared and another before TX mode, or a message be
  delivered whose acknowledgement is lost and the pi restart; the wait of 4 is
  longer than the counter.

Fairness: `WF(Driver)`, the program runs, and `WF(Transmit)`, a chip that has
something to send sends it. Clients call what they like and stop when they like.

### Esp8266: Esp, MCEsp

A program is the sequence of its library calls, each a sequence of operations
(`esp_main`); `call` and `at` say where in it the program is. A token is a line
without its end, an end of line, the prompt, a message's head, or
a byte of data. `Readin` moves any number of tokens from the wire into the
lexer's buffer; a `Step` is one operation, possible when there is enough in the
buffer, since every matcher restores its input and reads on when it runs out.
The esp (`EspTake, EspBusy, EspDone, EspData, EspBoot`) is external: it echoes,
works, answers, sends what it is given on to the peer, says "busy" in between,
and restarts on AT+RST. It is busy only when a command comes while it works on
another, which no program does unless it was restarted.

The drain at the start of esp_hard_reset (`Eat`) looks at the serial line only:
each time it finds something there it takes one character, from the lexer's
buffer if there is one and from a read of up to the whole line's contents if not.
So it ends when the line is quiet, with all but one character of a burst
still in the lexer, in front of the echo of AT+RST. Whole lines do no harm there,
as cmd_ack skips them; bytes of a message do.

- **Esp_mc** (1,373,653 states; two messages, one of whose bytes are an end
  of line; one busy answer; one restart at any of seven operations). InStep
  (which says too that nobody panics), PingPong, NoDeadlock, ResetRecovers. The first three
  speak of sessions without a restart, ResetRecovers of those with one, unless
  a message lay unread on the line or the esp was about to take one
  (`disturbed`, section 6). The seven
  operations are in a reset, in the set-up, before and after the bytes of a
  message and between messages, that is every state the esp can be in when its
  program disappears.

No fairness: the program ends or everybody waits for everybody (`Stuck`), and
NoDeadlock and ResetRecovers say in which states that can be.

### SD card: Sd

A call is the list of what it has yet to do (`todo`): a command, a wait for the
data line, a block, a check of sd_err. A polling loop with its counter is one
step: it goes on when what it polls for has come, and gives up when it cannot
come any more (the controller is dead) or as a counted fault. `Status` is one
call of sd_status; in sd_writeblock that waits for SR_DAT_INHIBIT and
SR_WRITE_AVAILABLE together, and `dat` stands for whichever is still set. Controller and card
are external: `inflight` is a command on its way, `intr` the INTERRUPT register
with what nobody cleared, `card` the card's state, which a restart leaves alone.

- **Sd_mc** (428,824 states; 3 sectors, calls for 0, 1 and 2 blocks, all eight
  kinds of card, up to three answers "not yet", one fault: a late or lost answer,
  a dead controller or a restart; three calls). ReadIsWhole, WriteIsWhole,
  WritesInPlace (BlocksExact is the three), InitAgrees, FailsOnlyWhen, CallsReturn. Three calls let a
  call meet what a failed one left, one fault puts each loop through each of its
  ends; FailsOnlyWhen says no second fault is needed for a failure.

Fairness: `WF(Driver)`, `WF(Device)`: the program runs, and controller and card
do what they have been told unless they died.

### Lab sessions: Labs, Debug, Sessions, MCLabs

`Labs`: a program is the list of what it has yet to do: characters to print,
writes to a pin, assertions, "flush", "reboot". `GpioHandler` and `GprofHandler`
run between any two steps, `Tick` and `Bounce` are the timer and a bad contact,
`Transmit` moves characters from FIFO to shift register to cable, and `Echo` is
pi_echo reading any number of the characters that have come. Every program ends
in `CleanReboot`: DONE!!!, uart_flush_tx, delay, reboot. A panic does too.

`Debug`: the processor executes `path`, an instruction at a time, unless the
breakpoint (`BrkptFires`) or watchpoint (`WatchptFires`) registers say it faults;
then the handler runs and the instruction is executed again. Status registers
keep what the last fault of their kind left. The client of `debug-fault.c` sets,
enables, calls and accesses in any order, and may meet an abort that is no
debug fault (`StrayAbort`). A user program is the addresses it executes, run
directly, in user mode, or stepped with mismatch breakpoints; `Switch` are the
kernel's last instructions, already in user mode. `Sessions` runs a program of
Labs or one of Debug and ends the latter in the same CleanReboot.

- **Labs_mc** (249,908 states; FIFO of 2, one round of test3_full_test, two
  instructions profiled over up to 4 ticks, two bounces or unpluggings or stray
  aborts, seven texts that meet the exit string, five client calls, four user
  programs, stepped and not). NothingLost, ExitMeansDone, CountsHonest
  (NeverOvercounts, TestsFailOnlyWhen, SamplesAccounted), FaultsSorted
  (FaultsExact, PanicsIffStray), EachStepOnce, SessionEnds. Five calls set a breakpoint, call, set a watchpoint, access and
  access again, so that every status register is stale in turn; the user programs
  exit at once, call the system, loop, and stay at one instruction.

Fairness, all weak: the processor runs program and handlers, the timer ticks
(within its bound), the uart sends, the laptop schedules pi_echo.

## 4 The proofs

All theorems are for every value of the constants that satisfies the
assumptions named in the modules; TLC evaluates these on each run of those modules. Where a
theorem needs more than the module assumes, it is said here. The invariants were
checked with TLC on the run's instance before they were proved.

**CircularQueueProofs**, for every N >= 2, every word size that is a multiple of
N, all values and batches, and interrupts turned on and off at will, for a
client that turns them off around cq_peek_n or does not use it (PeeksMasked;
CQ_peek_race is what happens otherwise):
LockFreeQueueTypeOK, LockFreeQueueConserves, LockFreeQueueNoPanic,
LockFreeQueueNoblk, LockFreeQueueResultsExact, LockFreeQueueImplementsFifo.
Conserved is not inductive: that a push does not overwrite an unread slot needs
what the producer knows between its test and its write. The invariant is
`IInv == TypeOK /\ Data /\ ProducerInv /\ ConsumerInv /\ PeekInv /\ NoBadFault`:
the contents of the slots; between `check` and `publish` the producer's local
head is head and there is still space, which only grows; between `empty` and
`advance` the consumer's local tail is tail and the queue not empty, which only
the producer changes, in its favour; a masked cq_peek_n has the queue to itself,
and the queue begins where it will put tail back. ResultsExact needs two more:
GotInv, what has been read so far is the next, or was the last, of the stream;
and RecInv, for batches of one size n, that record borders lie at multiples of n
and the producer, inside a record, writes the rest of it. The lemmas NElemIsCount
and Next1Wraps turn `%` at two moduli into a case split; the first is where the
word size must be a multiple of N, the condition that circular.h leaves to its user.

**KernelProofs** is about threads and heap. RpiThread, for any number of threads:
EveryBlockInPlace and RunsRoundRobin. A queue is a walk along the next fields, a recursive function;
what it computes is settled by the least counterexample (NatLeast), then
one lemma for each operation of Q.h says what it does to the walk. The
invariant is `IInv == TypeOK /\ QueuesWellFormed /\ Apart /\ Known /\ Tids /\
Counted /\ Resumable`: OneOwner and NoThreadLost are not inductive without the
counts (every block is in one of the queues, runs, or is a former
scheduler_thread) nor without the ids (two blocks never hold the same thread).
The refinement maps a walk to the sequence of its threads; each call is one step of
RoundRobin or a stutter.

Kmalloc, for every heap start, limit, set of sizes and of alignments
that are powers of two: HeapTypeCorrect, BlocksNeverOverlap, HeapStartsAgain,
KmallocImplementsAllocator. The invariant is HeapOK, an
untouched heap before initialisation, pointers on word boundaries with start <=
top, each block between the two, and Disjoint. HandOutKeeps is the step of both
allocators; RoundupFacts shows that the masking of `roundup` is the next
multiple. StartsAgain and Disjoint need the blocks to be below the top, which
neither of them says.

ThreadsShareHeap, for Kernel: `KernelSpec => Spec /\ HeapSpec`. Every step of the
composition is a step or a stutter of each part, and the fairness is the
threads' own, so all of the above holds of the two together.

**BootloaderProofs**, for every word size, program, address space, UART depth and
number of faults: BootRunsOnlyIntactCode, BootSuccessMeansLoaded and
BootTransferIsSound, which is TransferSound. The first rests on IntactInv:
get_code's result is 0 until PiVerify has seen the whole program, and nothing
writes to memory after that but a power cycle, which forgets the result. The
second is about both ends and what is between them: until the program is loaded,
no byte of a BOOT_SUCCESS is on the line, in either direction (the pi echoes the
checksum it was sent), and a loaded program is at an address notmain branches to
(MemInv: there is no memory at the others). StaysAligned is about the bytes on
the line: without a fault each is followed by the next of its message
(LinkedFrom), from the word on which simple_boot left step 0. The last two
assume CleanStart: in what the tty holds at first, a GET_PROG_INFO is followed
by whole messages and by no BOOT_SUCCESS, which simple_boot could not tell from
the pi's own; the program is not linked at 0 and no garbled word is read as 0,
for which get_code's result is that of a failure. MCBootloader's ASSUME lets
TLC evaluate it on the garbage of Boot_mc.

**Fat32Proofs**, for every set of cards, with any sizes of sectors, clusters,
entries and table, any chains and directories as long as a card that mounts is
sound, any names and number of calls: MemoryStays, ResultsStay (of valid entries) and StopsFor.
The invariant is `IInv == TypeOK /\ CardInv /\ FsInv /\ GivenInv /\ OpInv /\
WalkInv /\ ScanInv /\ ArrayInv /\ FileInv /\ StaysInBlock /\ StopsOnlyWhen`. Memory is
the list of writes to it, so "the table is intact" is a statement about the last
write over each of its words (TableIn), "the listing is" one about each of its
entries (EntryAt), and what is proved of them is that they are not touched:
all that has to stay lies below `Low`, the top of the heap or, while a directory is
read into the block that was just allocated for it, the start of that block; all
writes go at or above it (Grows). This is how ResultsExact survives
fat32_read, whose write runs past its buffer: it runs upwards, over nothing that
a call has returned. WalkInv, ScanInv, ArrayInv and FileInv say for each loop how
far it is along the chain, the raw entries, the result: the chain is a recursive
function (Walk) whose end is settled by the least counterexample, as is the fact that the two walks, which mask
the entries in their own ways, visit the same clusters; that the clusters of a
directory, read one by one, give its entries in order is arithmetic on quotients
(DivMod, EntrySplit), and the count of the first scan is the number of
entries that the second converts because both drop the same ones (KeptOf).

**NrfProofs**, for every message size, queue, set of reads, limits and number
of sends and faults: RadioLosesNoInterrupt (IntrInv: a packet in the FIFO that
nrf_get_pkts is not about to look at has RX_DR set, and inside its loop the
driver has either not cleared it or not yet looked), TimedReadsAreHonest
(TimeInv: the sum of the differences is the time that has passed, through any
number of wraps as long as two readings are less than one wrap apart; SmallMod is
the arithmetic), RadioStopsOnlyWhen (StopInv: types, what a chip in each mode
may hold, where nrf_get_pkts returns to, what a send in progress has done),
RadioConservesBytes (ByteInv: what a chip accepted is what was read, then what
the queue holds, then the packet in the driver's hand, then the FIFO; the
lemmas say what flattening a sequence of packets does at either end) and
RadioDeliversExactlyOnce (AckInv: the packets of the other radio that have
entered a FIFO are those whose sends have returned, and the one under way if a
copy of it has arrived, of which the chip drops the second).

**EspProofs**, about sessions without a restart, for every number of messages of
any length and bytes, and however the characters arrive: StaysInStep, MessagesArrive and NeverStuck. The other half of what
TypeOK says comes with them. None of the three is inductive: that a matcher finds
its line depends on every character between the esp's answer and the program's
position in its command. The invariant IInv is TypeOK and, while no program has been
restarted, Core: Types; for each program Own, which
says how much of the answer to the command under way the esp has printed
(Printed), how much of it the program has read (Reading), and that the program's
input is what lies between the two (Staged, LineUp: the lines of the answer
stand at the places f, in order; ends of lines, and for the server the line of the
connection, are all there is beside them), followed by the message that waits;
Turns, that of the four counts of messages sent and had each follows the one
before by at most one; Counts, at which call a program with so many messages is;
Received, that what was had is a beginning of Messages; Linking, who knows
of the connection where. A matcher that skips, eats ends of lines or takes one
line too many moves the places (Shifted, FirstItem); an esp that prints adds one
(SaysLine, SaysLines); then there is one lemma for each operation of the programs and each
step of the esps. NeverStuck: if neither program can go on, each
waits for a line that its esp has yet to print or for the peer's message, an
esp that has nothing to do has printed everything, and by Turns the two programs are not
both waiting for a message; what is left is the server that waits for the
connection (LinkedRuns), whose line it has or has skipped (missed).

**SdProofs**, for cards of every kind and size, calls of any length, and any
number of answers "not yet", of faults, restarts and calls: SdBlocksExact and
SdInitAgrees. The invariant `SdInv == Base /\ InitInv /\ TransferInv` has
three parts. Base holds wherever the driver is: types; where the block in the FIFO
comes from and where it may go (FifoInv, with WritesInPlace); what driver and
card know of each other (KnownInv). InitInv says for each position inside
sd_init what has been brought about there: which command may still be on its way,
in which state the card then is, that no data transfer is left from before the
restart. TransferInv does so for sd_readblock and sd_writeblock: after block k
the first k blocks are in memory or on the card, one more may be in the FIFO, and the
card's position and the controller's count agree with k, or an error flag is up
and the call is going to fail. "On its way" matters because an answer that is
late is given up on and arrives at a later position (Awaits, Answered). A
position is the list `todo`, so the proof begins with those lists: that the
concatenations and the FlattenSeq over the blocks are the chain of positions
the invariant names (InitPrograms, TransferProgram). Then controller and
card (DeviceKeeps), the driver's steps (DriverKeeps), the calls, death and restart.
WriteIsWhole's exception is seen in the proof: for several
blocks on a card addressed in bytes the DONE of the block before is not excluded.

**LabsProofs**, about Labs and Debug in the sessions of Sessions, for every
program, text without the two markers, FIFO size, number of rounds, of
instructions profiled, of ticks and of faults: HandlerNeverOvercounts (EdgesInv: an
event not yet counted stands for an edge not yet counted, to the level that the
handler is going to read), NothingPrintedIsLost (PrintInv: all that was printed
is read, on the cable, in the shift register or in the FIFO, in this order; the
program is so chained that a reset of the uart comes first, and a reboot last,
behind a flush and a delay), ExitStringMeansDone (EchoInv: pi_echo's position is
the length of the longest start of DONE!!! that it has just read; the folds over a
read are unrolled by the least counterexample), CountsAreHonest (PassInv: as long
as the wire has not bounced, what is left of the gpio test leads from the counts
there are, through the handler's part that is still to come, to the counts its
assertions want; ProfInv: the table's sum is the number of interrupts, none
before the table is there).

The same module is about Debug, alone (D!Spec) and in a session, for every set of
addresses and user programs and all bounds: DebugSortsFaults and
SessionSortsFaults (DebugInv: the breakpoint and watchpoint registers are on when,
and only when, the client has armed them, for the byte it armed last; what was
due is what was counted and the fault that the call under way has yet to see);
DebugCountsEachStepOnce and SessionCountsEachStepOnce (StepInv: of the kernel's
instructions followed by the program's, k are executed, and the last to be stepped
is the k-th or, when the next has raised its fault already, the one after it; the
mismatch register holds that one's address, and count and hash are those of the
instructions up to it, those that jump to themselves taken once: Collapse).
BrkptFiresWhenArmed and WatchptFiresWhenArmed tie the comparators' word address
and byte mask to the byte watched. What a session adds leaves Debug's variables
alone. Assumed is what the kernel's layout gives: user programs lie above
HeapStart, the kernel's code below.

Induction. The library's induction theorems take an operator as a parameter,
which the provers here cannot instantiate. For a particular recursive function or
fold the same is done by hand: the set of its counterexamples has a least element
(NatLeast, from the well-foundedness of finite subsets), which the
step refutes. Each module that needs NatLeast proves it.

Only model-checked: liveness and what rests on ENABLED (Delivered, ReadyRuns,
StartReturns, BootCompletes, UnixEnds, CallsReturn, CallsEnd, SessionEnds;
Sd's FailsOnlyWhen, because a polling loop gives up when the device can do
nothing more, which is `~ENABLED Device`); and, not for such a reason but because
no invariant has been found and proved yet, Esp's ResetRecovers, the one
property of sessions with a restart.

## 5 Where code and documentation disagree

Each is a run whose property is what the documentation says and which TLC
refutes; PROJECT.json quotes the lines.

- **CQ_peek_race**: `cq_peek_n` pops and then puts `tail` back; a handler that
  pushes meanwhile makes its assertion fail, and the slots it had freed may be
  overwritten. The header calls it non-destructive and the queue lock-free.
- **Boot_collide**: the collision check compares with 0xFFFF0000 while the
  bootloader's own code starts at 0x200000: a large program is copied over it.
- **Fat32_read**: fat32_read allocates as many bytes as the file has clusters,
  reads as many sectors, and puts the pi_file_t inside what it read.
- **Fat32_list**: fat32_readdir lists all but the deleted entries, long names
  and volume labels among them; the comment above its loop says "Don't include
  empty dirents, LFNs, or Volume IDs".

## 6 Other observations

Seen while modelling; no run is spent on them.

- Bootloader: get_code's error paths return 0 and notmain takes only negative
  values for errors, so the pi branches to address 0 where the README says it
  reboots. No check covers the address word; a garbled one loads and verifies
  the program where it is not linked (RunsOnlyIntactCode speaks of the code, not
  of the place). A program whose crc32 is the PRINT_STRING opcode would be taken
  for one.
- The laptop and a power-cycled pi can keep each other busy for ever
  (UnixEnds), where ck_eq32's comment says that it dies.
- Heap: kmalloc never clears what it hands out, where rpi.h says "0-filled"
  and a test asserts it. Before the first kfree_all that is so if the memory is
  zero at boot, which no code establishes; after it, it is not. The limit is compared with each request, not with their sum; its
  comment says 2 MB, the code 4. `kmalloc_heap_ptr` returns `alloc_start` where
  its comment promises the first free byte.
- Threads: each rpi_thread_start allocates a block it never returns, as
  BlocksRecycled counts.
- FAT32: an empty directory makes readdir call kmalloc(0), which asserts; ".." of
  a first-level directory has cluster 0 and stops the program; reading an empty
  file does too, although the comment excludes it; a name that is not found
  gives a pointer in front of the array, where the comment in fat32_stat says
  "Return NULL if no such dirent exists", so the tests' `if(!d)` cannot fire; a
  label can hide a file of that name. StopsOnlyWhen has the cases among these that
  stop the program. On other cards: a directory without an end mark is scanned past
  its buffer, a used FAT entry with top bits set indexes outside the table
  (get_cluster_chain_length does not mask), a chain through free or bad
  clusters is followed; the root is taken to be cluster 2.
- SD card: a request for 0 blocks moves one, and the wrapper, which compares the
  result with the request, takes that for a failure; `num << 16` drops block
  counts of 65,536 and more; an answer to IF_COND that does not match is ignored;
  sd_cmd compares its code with CMD_SEND_OP_COND after taking a bit out of it,
  so that branch is never taken; the loop that reads the SCR never counts its
  counter (the exception of CallsReturn); completion at the last ACMD41 is
  reported as a timeout (FailsOnlyWhen); on a card addressed in bytes the end
  of a write may be that of the block before (WriteIsWhole).
- Esp8266: bytes of a message that lie unread when a program is restarted, or
  arrive during its drain, stay in the lexer, are glued to the echo of AT+RST
  there, and the reset waits for ever; in the middle of a
  message's bytes, or when it is about to ask for them, the esp takes AT+RST for
  data; all are `disturbed`, which
  ResetRecovers excludes. A client that connects while the server still sets up
  has its line skipped, and both wait for ever (`missed`). client.c terminates
  its buffer one past the end; `cmd_ack` passes the command as a format string.
- Labs: gprof allocates code_len bytes and uses them as words; pi_done does not
  see DDONE!!! (`Unlucky`); pi_echo terminates a full 4096-byte read one past
  its buffer; two edges before the handler reads the event are one, which is
  why NeverOvercounts bounds the counts from above only.
- Debugging: part 4 of lab 11, the one that `part` selects, stores the registers
  upwards from STACK_ADDR2, calls C on the stack above them, which overwrites
  them, and loads from above: the program never resumes, and no register hash is
  computed. `print_first_n` is tested before it is decremented, so n + 1
  instructions are printed. prefetch_abort_single_step does not ask whether the
  abort is a breakpoint: a program that jumps nowhere steps in place for ever.
  cp14_disable computes the new DSCR, never writes it, and so fails its own
  assertion. debug_fault_init asserts twice that the breakpoint is off and never
  that the watchpoint is. 3-debug-byte-access.c does not reset its counts, so
  after the first address its checks cannot fail.
- `read-file.c` pads its size by `size % 4`; VTIME is computed from a timeout cast
  to int, so fractions of a second vanish.

Hazards of PROJECT.json that no property covers, because the code goes wrong
there and what it does is left out of the properties by name: kfree_all under
blocks in use; a name not found in fat32_stat; a stranger's packet before TX mode
(StopsOnlyWhen); the client that connects too early (NoDeadlock); the end of a
write on a card addressed in bytes (WriteIsWhole); the SCR loop of sd_init
(CallsReturn). In part: chains whose links have their top bits set (SoundCard),
DDONE!!! (SessionEnds), a power cycle under the laptop (UnixEnds).

## 7 Not modelled

Of modelled components: registers' layout, pins, clock and baud rates, voltages;
names, passwords and numbers in AT commands; msg2.h's cursors and the radio's
configuration checks; FAT32's writing half (`unimplemented()`); part 4 of lab 11;
what pi_echo sends from the keyboard; uart_disable; Q_push and Q_insert_after,
which have no caller.

Whole components, with the reason: the software uart, replay and virtual memory
labs (their functions are `unimplemented()` or binaries, what is left wraps
calls); the logic analyzer (its handler is left to be written); the mailbox and
boot tags, startup code and laptop wrappers (I/O without protocol); the fake pi
and tracing (a log and a map); libpi's libc (formatting and hashing without
state); register save and restore in the vectors; exercises that run once and
print. Formatting, printing and delays are left out everywhere.

The map covers about a tenth of the repository's lines: much of the rest are
headers of register names, tests that print, several copies of the same library
file (`libpi`, `libpi.small`, `libpi-fake`, the copies in each lab), and the
functions above.
