----------------------------- MODULE Bootloader -----------------------------
(***************************************************************************)
(* The two ends of the bootloader: get_code and notmain on the pi          *)
(* (labs/3-bootloader/pi-side) and simple_boot on the laptop               *)
(* (labs/3-bootloader/unix-side), talking through the UART.                *)
(*                                                                         *)
(* A byte is <<kind, value, index>>: byte `index` of the W-byte word       *)
(* <<kind, value>>, or a byte of code or text.  The reader of a word gets  *)
(* that word if it takes its W bytes in order, and the word Junk if it     *)
(* takes anything else, so a lost or stray byte shifts every later word.   *)
(* Checksums are assumed free of collisions.  There is memory only below   *)
(* half of the address space; a store elsewhere keeps nothing.             *)
(***************************************************************************)
EXTENDS Naturals, Sequences, FiniteSets

CONSTANTS
  W,             \* bytes of a uint32
  FifoSize,      \* bytes the pi's UART holds before it drops any
  AddrSpace,     \* 2^32: addresses and lengths wrap here
  ArmBase,       \* ARMBASE, where the program is linked
  BootCode,      \* where the bootloader's own code starts
  BootStart,     \* BOOT_START
  ProgLen,       \* length of the program
  Garbage,       \* what may be left in the tty when simple_boot starts
  JunkNumbers,   \* numbers a garbled word may be read as
  MaxUnread,     \* bound: the pi repeats itself to a tty that holds fewer bytes
  MaxLoss, MaxCorrupt, MaxKill, MaxPower \* bounds on faults

ASSUME BootAssumption ==
  /\ W \in Nat \ {0} /\ FifoSize \in Nat /\ ProgLen \in Nat \ {0}
  /\ AddrSpace \in Nat /\ BootStart \in 0 .. AddrSpace - 1
  /\ ArmBase \in Nat /\ ArmBase + ProgLen <= BootStart
  /\ BootCode \in 0 .. BootStart
  /\ {MaxUnread, MaxLoss, MaxCorrupt, MaxKill, MaxPower} \subseteq Nat

VARIABLES
  toPi, toUnix,          \* bytes in flight: in the pi's UART, in the laptop's tty
  ppc, addr, nbytes, cksum, index, ret, \* the pi
  mem,                   \* its memory: the program byte at an address, 0 for others
  upc,                   \* the laptop
  losses, corruptions, kills, powers \* what happened so far

pi     == <<ppc, addr, nbytes, cksum, index, ret, mem>>
counts == <<losses, corruptions, kills, powers>>
vars   == <<toPi, toUnix, ppc, addr, nbytes, cksum, index, ret, mem, upc,
            losses, corruptions, kills, powers>>

-----------------------------------------------------------------------------
(* Words and messages.                                                     *)

Op(kind) == <<kind, 0>>
Junk     == Op("junk")
CrcWord  == Op("crc")         \* not the value of PRINT_STRING
JunkByte == <<"junk", 0, 0>>

\* put_uint32 / boot_put32: least significant byte first
Bytes(w) == [i \in 1 .. W |-> <<w[1], w[2], i>>]
\* get_uint32 / boot_get32
WordOf(bs) == IF \E w \in {<<bs[1][1], bs[1][2]>>} : SubSeq(bs, 1, W) = Bytes(w)
                THEN <<bs[1][1], bs[1][2]>> ELSE Junk
After(bs, n) == SubSeq(bs, n + 1, Len(bs))

\* boot_putk: PRINT_STRING, the length and the text (one byte stands for it)
Putk == Bytes(Op("PRINT_STRING")) \o Bytes(<<"num", 1>>) \o <<<<"text", 0, 0>>>>

Header == Bytes(Op("PUT_PROG_INFO")) \o Bytes(<<"num", ArmBase>>)
            \o Bytes(<<"num", ProgLen>>) \o Bytes(CrcWord)
Code   == [i \in 1 .. ProgLen |-> <<"code", i, 1>>]

\* What a word is taken for where a number is expected.
Numbers(w) == IF w[1] = "num" THEN {w[2]} ELSE JunkNumbers

\* simple_boot starts on a tty that holds `tty`
InitWith(tty) ==
  /\ toPi = <<>> /\ toUnix = tty
  /\ ppc = "ask" /\ addr = 0 /\ nbytes = 0 /\ cksum = Junk /\ index = 0 /\ ret = 0
  /\ mem = [a \in 0 .. AddrSpace - 1 |-> 0]
  /\ upc = "sync"
  /\ losses = 0 /\ corruptions = 0 /\ kills = 0 /\ powers = 0

Init == \E tty \in Garbage : InitWith(tty)

-----------------------------------------------------------------------------
(* The pi.                                                                 *)

Waits == ppc = "wait" /\ toPi = <<>>

\* wait_for_data: GET_PROG_INFO, again after each 300ms without data.
PiAsk ==
  /\ ppc = "ask" \/ (Waits /\ Len(toUnix) < MaxUnread)
  /\ toUnix' = toUnix \o Bytes(Op("GET_PROG_INFO"))
  /\ ppc' = "wait"
  /\ UNCHANGED <<toPi, addr, nbytes, cksum, index, ret, mem, upc, counts>>

\* every error path of get_code: print, send what it sends, and return 0
GiveUp(reply) ==
  /\ toUnix' = toUnix \o Putk \o reply
  /\ ppc' = "return" /\ ret' = 0

\* step 2: the opcode
PiGetOp ==
  /\ ppc = "wait" /\ Len(toPi) >= W
  /\ toPi' = After(toPi, W)
  /\ IF WordOf(toPi) # Op("PUT_PROG_INFO")
       THEN GiveUp(<<>>)
       ELSE ppc' = "header" /\ UNCHANGED <<toUnix, ret>>
  /\ UNCHANGED <<addr, nbytes, cksum, index, mem, upc, counts>>

\* step 3: the test that the program does not run into the bootloader
Collides(a, n) == (a + n) % AddrSpace > BootStart

\* steps 2 to 4: address, size and checksum, checked and answered
PiGetHeader ==
  /\ ppc = "header" /\ Len(toPi) >= 3 * W
  /\ toPi' = After(toPi, 3 * W)
  /\ \E a \in Numbers(WordOf(toPi)), n \in Numbers(WordOf(After(toPi, W))) :
       /\ addr' = a /\ nbytes' = n /\ cksum' = WordOf(After(toPi, 2 * W))
       /\ IF Collides(a, n)
            THEN GiveUp(Bytes(Op("BAD_CODE_ADDR")))
            ELSE /\ toUnix' = toUnix \o Bytes(Op("GET_CODE")) \o Bytes(cksum')
                 /\ ppc' = "putcode" /\ ret' = ret
  /\ UNCHANGED <<index, mem, upc, counts>>

\* step 5: PUT_CODE ...
PiGetPutCode ==
  /\ ppc = "putcode" /\ Len(toPi) >= W
  /\ toPi' = After(toPi, W)
  /\ IF WordOf(toPi) # Op("PUT_CODE")
       THEN GiveUp(<<>>) /\ index' = index
       ELSE ppc' = "copy" /\ index' = 0 /\ UNCHANGED <<toUnix, ret>>
  /\ UNCHANGED <<addr, nbytes, cksum, mem, upc, counts>>

MoreCode == index < nbytes
\* as a long; it is no address of memory either
Negative(a) == a >= AddrSpace \div 2
\* ... and each byte of the code, as it comes
PiCopy ==
  /\ ppc = "copy" /\ MoreCode /\ toPi # <<>>
  /\ toPi' = Tail(toPi)
  /\ mem' = [mem EXCEPT ![(addr + index) % AddrSpace] =
               IF Head(toPi)[1] = "code" /\ ~Negative((addr + index) % AddrSpace)
                 THEN Head(toPi)[2] ELSE 0]
  /\ index' = index + 1
  /\ UNCHANGED <<toUnix, ppc, addr, nbytes, cksum, ret, upc, counts>>

Intact(a) == \A i \in 1 .. ProgLen : mem[(a + i - 1) % AddrSpace] = i

BugCksumOk == nbytes = ProgLen /\ cksum = CrcWord
\* crc32(addr, nbytes) = cksum
CksumOk == nbytes = ProgLen /\ cksum = CrcWord /\ Intact(addr)

\* steps 6 and 7
PiVerify ==
  /\ ppc = "copy" /\ ~MoreCode
  /\ IF CksumOk
       THEN /\ toUnix' = toUnix \o Putk \o Bytes(Op("BOOT_SUCCESS"))
            /\ ppc' = "return" /\ ret' = addr
       ELSE GiveUp(Bytes(Op("BAD_CODE_CKSUM")))
  /\ UNCHANGED <<toPi, addr, nbytes, cksum, index, mem, upc, counts>>

\* notmain: reboot on a negative return, else BRANCHTO
PiBranch ==
  /\ ppc = "return"
  /\ ppc' = IF Negative(ret) THEN "rebooted" ELSE "branched"
  /\ UNCHANGED <<toPi, toUnix, addr, nbytes, cksum, index, ret, mem, upc, counts>>

PiStep == PiAsk \/ PiGetOp \/ PiGetHeader \/ PiGetPutCode \/ PiCopy \/ PiVerify \/ PiBranch

-----------------------------------------------------------------------------
(* The laptop.                                                             *)

UnixGoes(pc, n, reply) ==
  /\ upc' = pc /\ toUnix' = After(toUnix, n) /\ toPi' = toPi \o reply
  /\ UNCHANGED <<pi, counts>>

\* The first word of a message, by get_op: PRINT_STRINGs are handled there.
IsPrint == WordOf(toUnix) = Op("PRINT_STRING")
NextOp(op) == Len(toUnix) >= W /\ WordOf(toUnix) = op /\ ~IsPrint
OtherOp(ops) == Len(toUnix) >= W /\ WordOf(toUnix) \notin ops /\ ~IsPrint
Reading == upc \in {"sync", "drain", "crc", "await"}

\* PRINT_STRING, the length, nbytes-1 characters and the trailing newline
PrintLen(n) == 2 * W + n

\* get_op eats a whole PRINT_STRING message; a garbled length either fails
\* the demand that it is below 512 or makes it eat the wrong amount.
UnixPrint ==
  /\ Reading /\ Len(toUnix) >= 2 * W /\ IsPrint
  /\ \E n \in Numbers(WordOf(After(toUnix, W))) :
       \/ n >= 1 /\ Len(toUnix) >= PrintLen(n) /\ UnixGoes(upc, PrintLen(n), <<>>)
       \/ WordOf(After(toUnix, W))[1] # "num" /\ UnixGoes("panic", 2 * W, <<>>)

BugResync == W
\* step 0: what a mismatch throws away, the word and one byte to shift by
Resync == W + 1

UnixSync ==
  /\ upc = "sync"
  /\ \/ NextOp(Op("GET_PROG_INFO")) /\ UnixGoes("drain", W, Header)
     \/ OtherOp({Op("GET_PROG_INFO")}) /\ Len(toUnix) >= Resync
          /\ UnixGoes("sync", Resync, <<>>)

\* step 2: the opcodes the drain loop discards
Drains == {"GET_PROG_INFO"}

UnixDrain ==
  /\ upc = "drain"
  /\ \/ \E k \in Drains : NextOp(Op(k)) /\ UnixGoes("drain", W, <<>>)
     \/ NextOp(Op("GET_CODE")) /\ UnixGoes("crc", W, <<>>)
     \/ OtherOp({Op(k) : k \in Drains} \cup {Op("GET_CODE")}) /\ UnixGoes("panic", W, <<>>)

\* where ck_eq32 goes on a mismatch (fd is not TRACE_FD)
Mismatch == "echo"

\* steps 3 and 4: the echoed checksum, read with get_op although it is data
UnixCrc ==
  /\ upc = "crc"
  /\ \/ NextOp(CrcWord) /\ UnixGoes("await", W, Bytes(Op("PUT_CODE")) \o Code)
     \/ OtherOp({CrcWord}) /\ UnixGoes(Mismatch, W, <<>>)

\* step 5: the opcodes taken for success
Success == {"BOOT_SUCCESS"}

UnixAwait ==
  /\ upc = "await"
  /\ \/ \E k \in Success : NextOp(Op(k)) /\ UnixGoes("done", W, <<>>)
     \/ OtherOp({Op(k) : k \in Success}) /\ UnixGoes(Mismatch, W, <<>>)

\* ck_eq32, after a mismatch: each byte the tty gives goes to stderr.
UnixEcho == upc = "echo" /\ toUnix # <<>> /\ UnixGoes("echo", 1, <<>>)

BugReadGivesUp == FALSE
\* A read comes back with nothing when the tty gives nothing for its timeout,
\* which is longer than the pi's 300ms: when the pi waits for bytes that are
\* not there or is past the bootloader, never while it repeats its request.
ReadGivesUp == ~ENABLED PiStep /\ ~Waits

\* read_exact panics then, and so does ck_eq32.
UnixTimeout ==
  /\ Reading \/ upc = "echo"
  /\ ReadGivesUp
  /\ ~ENABLED (UnixPrint \/ UnixSync \/ UnixDrain \/ UnixCrc \/ UnixAwait \/ UnixEcho)
  /\ upc' = "panic"
  /\ UNCHANGED <<toPi, toUnix, pi, counts>>

UnixStep ==
  UnixPrint \/ UnixSync \/ UnixDrain \/ UnixCrc \/ UnixAwait \/ UnixEcho \/ UnixTimeout

-----------------------------------------------------------------------------
(* The line, the user.                                                     *)

\* A byte arrives at a UART that already holds FifoSize unread ones.
Lose ==
  /\ losses < MaxLoss /\ losses' = losses + 1
  /\ \E i \in FifoSize + 1 .. Len(toPi) :
       toPi' = SubSeq(toPi, 1, i - 1) \o SubSeq(toPi, i + 1, Len(toPi))
  /\ UNCHANGED <<toUnix, pi, upc, corruptions, kills, powers>>

\* A byte is garbled on the line, in either direction.
Corrupt ==
  /\ corruptions < MaxCorrupt /\ corruptions' = corruptions + 1
  /\ \/ toUnix' = toUnix /\ \E i \in 1 .. Len(toPi) : toPi' = [toPi EXCEPT ![i] = JunkByte]
     \/ toPi' = toPi /\ \E i \in 1 .. Len(toUnix) : toUnix' = [toUnix EXCEPT ![i] = JunkByte]
  /\ UNCHANGED <<pi, upc, losses, kills, powers>>

\* The user stops or loses my-install and runs it again; what the tty holds stays.
Relaunch ==
  /\ kills < MaxKill /\ kills' = kills + 1
  /\ upc # "done" /\ upc' = "sync"
  /\ UNCHANGED <<toPi, toUnix, pi, losses, corruptions, powers>>

\* The user power-cycles the pi: uart_init clears what its UART held, the
\* rest of what is on its way still arrives.
PowerCycle ==
  /\ powers < MaxPower /\ powers' = powers + 1
  /\ \E n \in 0 .. Len(toPi) : toPi' = After(toPi, n)
  /\ ppc' = "ask" /\ ret' = 0 /\ index' = 0
  /\ mem' = [a \in 0 .. AddrSpace - 1 |-> 0]
  /\ UNCHANGED <<toUnix, addr, nbytes, cksum, upc, losses, corruptions, kills>>

Next == PiStep \/ UnixStep \/ Lose \/ Corrupt \/ Relaunch \/ PowerCycle

Spec     == Init /\ [][Next]_vars
FairSpec == Spec /\ WF_vars(PiStep) /\ WF_vars(UnixStep)

-----------------------------------------------------------------------------
(* What the tty may hold at first, for a success to mean anything.         *)

Kinds == {"junk", "crc", "num", "text", "code", "PRINT_STRING", "GET_PROG_INFO",
          "PUT_PROG_INFO", "GET_CODE", "PUT_CODE", "BOOT_SUCCESS", "BAD_CODE_ADDR",
          "BAD_CODE_CKSUM"}
Byte == Kinds \X Nat \X Nat
\* The W bytes of a GET_PROG_INFO start at s[i].
GpiAt(s, i) ==
  i + W <= Len(s) + 1 /\ \A j \in 1 .. W : s[i + (j - 1)] = <<"GET_PROG_INFO", 0, j>>

\* No byte of s from the i-th on is one of a BOOT_SUCCESS.
PlainFrom(s, i) == \A j \in 1 .. Len(s) : i <= j => s[j][1] # "BOOT_SUCCESS"

\* What follows byte i of s when s goes on with whole messages: the rest of
\* its word, then the first byte of a word; after a PRINT_STRING, a length
\* and a byte of text.
LinkAt(s, i) ==
  /\ s[i][3] \in 0 .. W
  /\ s[i][3] \in 1 .. W - 1 =>
       i < Len(s) /\ s[i + 1] = <<s[i][1], s[i][2], s[i][3] + 1>>
  /\ s[i][1] = "PRINT_STRING" /\ s[i][3] = W =>
       /\ i + W < Len(s) /\ s[i + (W + 1)] = <<"text", 0, 0>>
       /\ \A j \in 1 .. W : s[i + j] = <<"num", 1, j>>
  /\ (s[i][3] = W /\ s[i][1] # "num") \/ s[i][3] = 0 =>
       i = Len(s) \/ s[i + 1][3] = 1

LinkedFrom(s, i) == \A j \in 1 .. Len(s) : i <= j => LinkAt(s, j)

\* What the tty may hold at first: anything, as long as a GET_PROG_INFO in it
\* is followed by whole messages, and by no BOOT_SUCCESS of an earlier session,
\* which simple_boot cannot tell from its own.
CleanTty ==
  \A tty \in Garbage :
    tty \in Seq(Byte) /\ \A i \in 1 .. Len(tty) :
      GpiAt(tty, i) => LinkedFrom(tty, i) /\ PlainFrom(tty, i)

\* And the program is not linked at 0, which get_code returns for a failure,
\* and no garbled word is read as 0.
CleanStart ==
  CleanTty /\ ArmBase # 0 /\ JunkNumbers \subseteq 1 .. AddrSpace - 1

-----------------------------------------------------------------------------
TypeOK ==
  /\ ppc \in {"ask", "wait", "header", "putcode", "copy", "return", "branched", "rebooted"}
  /\ upc \in {"sync", "drain", "crc", "await", "echo", "done", "panic"}
  /\ addr \in 0 .. AddrSpace /\ nbytes \in 0 .. AddrSpace /\ index \in 0 .. nbytes
  /\ mem \in [0 .. AddrSpace - 1 -> 0 .. ProgLen]
  /\ losses <= MaxLoss /\ corruptions <= MaxCorrupt

Loaded == ppc \in {"return", "branched"} /\ ret # 0

\* The laptop reports success only when the pi holds the whole program, byte
\* for byte, and is about to run it: whatever bytes are lost or garbled, and
\* however often my-install is restarted on a tty with stale answers in it.
SuccessMeansLoaded ==
  upc = "done" /\ powers = 0 => Loaded /\ Intact(ret)

\* If the pi branches into a loaded program, every byte of it is right.
RunsOnlyIntactCode == Loaded => Intact(ret)

\* After step 0 the laptop reads on word boundaries, whatever garbage the tty
\* held at first.
StaysAligned ==
  upc \in {"drain", "crc", "await"} /\ toUnix # <<>> /\ losses + corruptions + kills = 0
    => Head(toUnix)[3] = 1

\* The transfer is sound: the three together.
TransferSound == TypeOK /\ StaysAligned /\ RunsOnlyIntactCode /\ SuccessMeansLoaded

\* Without faults, garbage in the tty and repeated GET_PROG_INFOs do not keep
\* the program from being loaded and run where it is linked.
BootCompletes ==
  [](losses + corruptions + kills + powers = 0)
    => <>(upc = "done" /\ ppc = "branched" /\ ret = ArmBase)

\* With bytes lost and garbled, and my-install restarted, the laptop still comes
\* to an end: no read is left waiting, and ck_eq32, which is to die but first
\* echoes the pi for as long as it talks, gets to.  Not so when the pi is
\* power-cycled under a laptop past step 1: it asks for ever, and the laptop
\* drains or echoes its requests for ever.
UnixEnds == [](powers = 0) => <>(upc \in {"done", "panic"})

\* README: the pi checks that the program "does not collide with its own
\* currently running code".
NeverOverwritesItself ==
  ppc = "copy" => \A i \in 0 .. index - 1 : (addr + i) % AddrSpace < BootCode
=============================================================================
