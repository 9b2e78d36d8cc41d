--------------------------------- MODULE Sd ---------------------------------
(***************************************************************************)
(* The SD card driver (labs/15-fat32/code/external-code/bzt-sd.c) under    *)
(* the file system's wrappers in pi-sd.c: sd_init, sd_readblock and        *)
(* sd_writeblock over an EMMC controller and a card that work by           *)
(* themselves, answer late, or not at all.                                 *)
(*                                                                         *)
(* A call is the list of what it has yet to do: a command, a wait for the  *)
(* data line, a block to move, a check of sd_err.  A polling loop with its *)
(* counter is one step: it goes on when what it polls for has come, and    *)
(* gives up when nothing can come any more or as a counted fault.          *)
(***************************************************************************)
EXTENDS Integers, Sequences, SequencesExt

CONSTANTS
  Sectors,    \* blocks of the card, from 0
  BlockBytes, \* 512
  Nums,       \* block counts of the calls
  Tries,      \* 6: how often sd_init asks whether the card has started
  MaxBusy,    \* answers "not yet" of a card that starts
  MaxFault, MaxCall  \* bounds on faults and restarts, on calls

ASSUME SdAssumption ==
  /\ Sectors \in Nat \ {0} /\ BlockBytes \in Nat \ {0, 1} /\ Nums \subseteq Nat /\ Tries \in Nat
  /\ MaxBusy \in Nat /\ MaxFault \in Nat /\ MaxCall \in Nat

VARIABLES
  kind,              \* the card: [ccs, setblk, wide], as its SCR and OCR say
  disk, card, busy,  \* its blocks; its state; how often it has not yet started
  inflight, reply, intr, dat, blk, more, fifo, hostWide, dead, \* the controller
  todo, phase, err, rca, scr, started, \* the driver; sd_err; sd_scr; init_p
  call, out, ret,    \* the call, the blocks a read has stored, the result
  calls, faults, asked \* bounds; history: the <<block, value>>s writes were asked for

chip   == <<card, busy, inflight, reply, intr, dat, blk, more, fifo, hostWide, dead>>
driver == <<todo, phase, err, rca, scr, started, call, out, ret>>
vars   == <<kind, disk, chip, driver, calls, faults, asked>>

None == <<>>
Lbas == 0 .. Sectors - 1
Original(l) == <<0, l>>
SD_OK == 0
SD_TIMEOUT == -1
SD_ERROR == -2
AppCommands  == {"OP_COND", "SCR", "WIDTH"}
DataCommands == {"SCR", "READ_SINGLE", "READ_MULTI", "WRITE_SINGLE", "WRITE_MULTI"}
Open == -1  \* a transfer that ends with STOP

Card(st) == [st |-> st, app |-> FALSE, wide |-> FALSE, preset |-> Open, left |-> 0, pos |-> 0]

Init ==
  /\ kind \in [ccs : BOOLEAN, setblk : BOOLEAN, wide : BOOLEAN]
  /\ disk = [l \in Lbas |-> Original(l)] /\ card = Card("idle") /\ busy = 0
  /\ inflight = None /\ reply = "" /\ intr = {} /\ dat = FALSE /\ blk = 0 /\ more = 0 /\ fifo = None
  /\ hostWide = FALSE /\ dead = FALSE
  /\ todo = <<>> /\ phase = "issue" /\ err = SD_OK /\ rca = 0 /\ started = FALSE
  /\ scr = [ccs |-> FALSE, setblk |-> FALSE, wide |-> FALSE]
  /\ call = [op |-> "none", lba |-> 0, num |-> 0] /\ out = <<>> /\ ret = SD_OK
  /\ calls = 0 /\ faults = 0 /\ asked = {}

-----------------------------------------------------------------------------
(* The calls, as the operations <<what, ...>> they make.                   *)

TheRca == -1  \* the argument is sd_rca

\* sd_cmd; `keep`: inside another sd_cmd, which does not clear sd_err again
Cmd(code, arg) ==
  IF code \in AppCommands
  THEN << <<"cmd", "APP", TheRca, FALSE>>, <<"appck">>, <<"cmd", code, arg, TRUE>> >>
  ELSE << <<"cmd", code, arg, FALSE>> >>

\* and if(sd_err) return
Checked(code, arg) == Append(Cmd(code, arg), <<"check">>)

InitOps == << <<"reset">>, <<"clk">> >> \o Checked("GO_IDLE", 0) \o Checked("IF_COND", 0)
           \o << <<"try", Tries>> >>
CardOps == Cmd("ALL_SEND_CID", 0) \o Cmd("SEND_REL_ADDR", 0)
           \o << <<"rca">>, <<"check">>, <<"clk">> >> \o Checked("CARD_SELECT", TheRca)
           \o << <<"status">>, <<"blksize", 1>> >> \o Checked("SCR", 0)
           \o << <<"scr">>, <<"words">> >>
BugWidthOps == << <<"width">> >>
WidthOps == Append(Checked("WIDTH", 4), <<"width">>)

\* blocks or bytes
Addr(l, c) == IF scr.ccs THEN l + c ELSE (l + c) * BlockBytes

BugStopOps(n) == <<>>
StopOps(n) == IF n > 1 /\ ~scr.setblk /\ scr.ccs THEN Cmd("STOP", 0) ELSE <<>>

\* what sd_readblock and sd_writeblock share
Transfer(single, multi, move, l, n) ==
  << <<"status">> >>
  \o (IF scr.ccs /\ n > 1 /\ scr.setblk THEN Checked("BLOCKCNT", n) ELSE <<>>)
  \o << <<"blksize", IF scr.ccs THEN n ELSE 1>> >>
  \o (IF scr.ccs THEN Checked(IF n = 1 THEN single ELSE multi, Addr(l, 0)) ELSE <<>>)
  \o FlattenSeq([c \in 1 .. n |->
       (IF scr.ccs THEN <<>> ELSE Checked(single, Addr(l, c - 1))) \o << <<move, c>> >>])

AtLeastOne(num) == IF num < 1 THEN 1 ELSE num
ReadOps(l, n) == Transfer("READ_SINGLE", "READ_MULTI", "get", l, n) \o StopOps(n)
BugWriteOps(l, n) == Transfer("WRITE_SINGLE", "WRITE_MULTI", "put", l, n) \o StopOps(n)
WriteOps(l, n) == Transfer("WRITE_SINGLE", "WRITE_MULTI", "put", l, n) \o << <<"done">> >>
                  \o StopOps(n)

-----------------------------------------------------------------------------
(* The controller and the card.                                            *)

Fault == faults < MaxFault /\ faults' = faults + 1
software == <<todo, phase, err, rca, scr, started, call, out, ret, calls, asked, hostWide>>

Starts == {"", IF kind.ccs THEN "complete ccs" ELSE "complete"}
Block(a) == IF kind.ccs THEN a ELSE a \div BlockBytes
To(st) == [card EXCEPT !.st = st, !.app = FALSE]
Moves(st, a, left) == [To(st) EXCEPT !.pos = Block(a), !.left = left, !.preset = Open]

\* <<the card after command c with argument a, what it answers>>: none when it
\* does not know the command in its state
Reactions(c, a) ==
  CASE c = "GO_IDLE" -> {<<Card("idle"), "">>}
    [] c = "IF_COND" /\ card.st = "idle" -> {<<To("idle"), "">>}
    [] c = "APP" /\ card.st \in {"idle", "tran"} /\ a = (IF card.st = "idle" THEN 0 ELSE 1) ->
         {<<[card EXCEPT !.app = TRUE], "app">>}
    [] c = "OP_COND" /\ card.app /\ card.st = "idle" ->
         {<<To(IF r = "" THEN "idle" ELSE "ready"), r>> : r \in {r \in Starts : r = "" => busy < MaxBusy}}
    [] c = "ALL_SEND_CID" /\ card.st = "ready" -> {<<To("ident"), "">>}
    [] c = "SEND_REL_ADDR" /\ card.st = "ident" -> {<<To("stby"), "rca">>}
    [] c = "CARD_SELECT" /\ card.st = "stby" /\ a = 1 -> {<<To("tran"), "">>}
    [] c = "SCR" /\ card.app /\ card.st = "tran" -> {<<[Moves("data", 0, 1) EXCEPT !.pos = -1], "">>}
    [] c = "WIDTH" /\ card.app /\ card.st = "tran" -> {<<[To("tran") EXCEPT !.wide = TRUE], "">>}
    [] c = "BLOCKCNT" /\ kind.setblk /\ card.st = "tran" -> {<<[To("tran") EXCEPT !.preset = a], "">>}
    [] c = "READ_SINGLE"  /\ card.st = "tran" -> {<<Moves("data", a, 1), "">>}
    [] c = "READ_MULTI"   /\ card.st = "tran" -> {<<Moves("data", a, card.preset), "">>}
    [] c = "WRITE_SINGLE" /\ card.st = "tran" -> {<<Moves("rcv", a, 1), "">>}
    [] c = "WRITE_MULTI"  /\ card.st = "tran" -> {<<Moves("rcv", a, card.preset), "">>}
    [] c = "STOP" /\ card.st \in {"data", "rcv"} -> {<<To("tran"), "">>}
    [] OTHER -> {}

\* A command waits for the data line if it needs it; it, or its answer, may be lost.
Respond ==
  /\ ~dead /\ inflight # None /\ (inflight[1] \in DataCommands => ~dat)
  /\ inflight' = None
  /\ \E lost \in BOOLEAN :
     LET c  == inflight[1]
         rs == Reactions(c, inflight[2])
     IN /\ IF lost THEN Fault ELSE faults' = faults
        /\ \/ \E r \in rs :
                /\ card' = r[1]
                /\ busy' = busy + (IF c = "OP_COND" /\ r[2] = "" THEN 1 ELSE 0)
                /\ reply' = IF lost THEN "" ELSE r[2]
                /\ more' = IF c \in DataCommands /\ ~lost
                             THEN (IF c \in {"READ_MULTI", "WRITE_MULTI"} THEN blk ELSE 1) ELSE more
                /\ dat' = (dat \/ (c \in DataCommands /\ ~lost))
                /\ intr' = intr \union {IF lost THEN "ERR" ELSE "CMD"}
           \/ /\ rs = {} \/ lost
              /\ intr' = intr \union {"ERR"} /\ UNCHANGED <<card, busy, reply, dat, more>>
  /\ UNCHANGED <<kind, disk, blk, fifo, dead, software>>

\* widths that differ make the data unreadable
InTouch == card.wide = hostWide /\ card.pos \in Lbas \union {-1}
OneMoved(st) == [card EXCEPT !.pos = @ + 1, !.left = IF @ = Open THEN @ ELSE @ - 1,
                             !.st = IF card.left = 1 THEN st ELSE @]

Supply ==
  /\ ~dead /\ dat /\ card.st = "data" /\ more > 0 /\ fifo = None /\ InTouch
  /\ fifo' = (IF card.pos = -1 THEN <<"scr">> ELSE disk[card.pos])
  /\ intr' = intr \union {"READ"} /\ more' = more - 1 /\ card' = OneMoved("tran")
  /\ UNCHANGED <<kind, disk, busy, inflight, reply, dat, blk, dead, faults, software>>

AskForBlock ==
  /\ ~dead /\ dat /\ card.st = "rcv" /\ more > 0 /\ fifo = None /\ "WRITE" \notin intr /\ InTouch
  /\ intr' = intr \union {"WRITE"}
  /\ UNCHANGED <<kind, disk, card, busy, inflight, reply, dat, blk, more, fifo, dead, faults, software>>

Program ==
  /\ ~dead /\ dat /\ card.st = "rcv" /\ more > 0 /\ fifo # None
  /\ disk' = [disk EXCEPT ![card.pos] = fifo] /\ fifo' = None /\ more' = more - 1
  /\ card' = OneMoved("tran")
  /\ UNCHANGED <<kind, busy, inflight, reply, intr, dat, blk, dead, faults, software>>

\* all blocks moved: the data line is free
DataDone ==
  /\ ~dead /\ dat /\ more = 0 /\ fifo = None
  /\ dat' = FALSE /\ intr' = intr \union {"DONE"}
  /\ UNCHANGED <<kind, disk, card, busy, inflight, reply, blk, more, fifo, dead, faults, software>>

\* the data does not come, or the card takes none: because it is not in that
\* state, or as a fault
DataError ==
  /\ ~dead /\ dat /\ more > 0 /\ fifo = None /\ "ERR" \notin intr
  /\ IF card.st \in {"data", "rcv"} /\ InTouch THEN Fault ELSE faults' = faults
  /\ dat' = FALSE /\ intr' = intr \union {"ERR"}
  /\ UNCHANGED <<kind, disk, card, busy, inflight, reply, blk, more, fifo, dead, software>>

Device == Respond \/ Supply \/ AskForBlock \/ Program \/ DataDone \/ DataError

-----------------------------------------------------------------------------
Op        == Head(todo)
Is(what)  == todo # <<>> /\ Op[1] = what
Next_     == todo' = Tail(todo)
Ended     == todo = <<>>
\* the wrappers of pi-sd.c panic unless all of the blocks came
Wanted    == IF call.op \in {"read", "write"} THEN call.num ELSE SD_OK
Panicked  == Ended /\ call.op # "none" /\ ret # Wanted
Fails     == IF call.op = "init" THEN err ELSE 0

Return(r) == todo' = <<>> /\ phase' = "issue" /\ ret' = r

BugGivesUp(come) == Fault
\* a polling loop's counter runs out: as a fault (also when what it polls for comes
\* at its last turn), or when it has not come and nothing will
GivesUp(come) == Fault \/ (~come /\ faults' = faults /\ ~ENABLED Device)

\* the wrappers of pi-sd.c call the driver
Begin(op, l, num, ops) ==
  /\ Ended /\ ~Panicked /\ calls < MaxCall /\ calls' = calls + 1
  /\ call' = [op |-> op, lba |-> l, num |-> num] /\ todo' = Append(ops, <<"end">>)
  /\ out' = <<>> /\ phase' = "issue"
  /\ UNCHANGED <<kind, disk, chip, err, rca, scr, started, ret, faults>>

BeginInit == Begin("init", 0, 0, InitOps) /\ ~started /\ asked' = asked
BeginRead == started /\ asked' = asked /\ \E l \in Lbas, n \in Nums :
  l + AtLeastOne(n) <= Sectors /\ Begin("read", l, n, ReadOps(l, AtLeastOne(n)))
BeginWrite == started /\ \E l \in Lbas, n \in Nums :
  /\ l + AtLeastOne(n) <= Sectors /\ Begin("write", l, n, WriteOps(l, AtLeastOne(n)))
  /\ asked' = asked \union {<<l + c - 1, <<calls', c>>>> : c \in 1 .. AtLeastOne(n)}

-----------------------------------------------------------------------------
(* The driver.                                                             *)

\* sd_status and the write of the command, with the flags of the last cleared
Issue ==
  /\ Is("cmd") /\ phase = "issue"
  /\ \/ /\ inflight = None /\ "ERR" \notin intr /\ ~dead /\ phase' = "wait"
        /\ err' = IF Op[4] THEN err ELSE SD_OK
        /\ intr' = {} /\ reply' = "" /\ UNCHANGED <<todo, faults>>
        /\ inflight' = <<Op[2], IF Op[3] = TheRca THEN rca ELSE Op[3]>>
     \/ /\ ("ERR" \in intr /\ faults' = faults) \/ GivesUp(inflight = None /\ ~dead)
        /\ err' = SD_TIMEOUT /\ Next_ /\ reply' = "" /\ UNCHANGED <<inflight, intr, phase>>
  /\ UNCHANGED <<kind, disk, card, busy, dat, blk, more, fifo, hostWide, dead, rca, scr,
                 started, call, out, ret, calls, asked>>

\* sd_int(INT_CMD_DONE)
Answer ==
  /\ Is("cmd") /\ phase = "wait" /\ phase' = "issue" /\ Next_
  /\ \/ "ERR" \in intr /\ intr' = {} /\ err' \in {SD_TIMEOUT, SD_ERROR} /\ reply' = ""
        /\ faults' = faults
     \/ "ERR" \notin intr /\ "CMD" \in intr /\ intr' = intr \ {"CMD"}
        /\ UNCHANGED <<err, reply, faults>>
     \/ GivesUp(intr \intersect {"CMD", "ERR"} # {}) /\ intr' = {} /\ err' = SD_TIMEOUT
        /\ reply' = ""
  /\ UNCHANGED <<kind, disk, card, busy, inflight, dat, blk, more, fifo, hostWide, dead, rca,
                 scr, started, call, out, ret, calls, asked>>

controller == <<card, busy, inflight, intr, dat, blk, more, fifo, dead>>

\* the command is dropped when CMD_APP_CMD was not taken and the card has an address
AppCheck ==
  /\ Is("appck")
  /\ IF rca # 0 /\ reply # "app" THEN err' = SD_ERROR /\ todo' = Tail(Tail(todo)) /\ reply' = ""
                                 ELSE err' = err /\ Next_ /\ reply' = reply
  /\ UNCHANGED <<kind, disk, controller, hostWide, phase, rca, scr, started, call, out, ret,
                 calls, faults, asked>>

Check ==
  /\ Is("check")
  /\ IF err # SD_OK THEN Return(Fails) ELSE Next_ /\ UNCHANGED <<phase, ret>>
  /\ UNCHANGED <<kind, disk, chip, err, rca, scr, started, call, out, calls, faults, asked>>

\* sd_status(SR_DAT_INHIBIT); sd_init does not set sd_err.  sd_writeblock waits
\* in the same call for SR_WRITE_AVAILABLE to be clear as well: `dat` stands for
\* whichever of the two bits is still set.
Status ==
  /\ Is("status")
  /\ \/ ~dat /\ "ERR" \notin intr /\ ~dead /\ Next_ /\ UNCHANGED <<phase, ret, err, faults>>
     \/ /\ ("ERR" \in intr /\ faults' = faults) \/ GivesUp(~dat /\ ~dead)
        /\ err' = IF call.op = "init" THEN err ELSE SD_TIMEOUT
        /\ Return(IF call.op = "init" THEN SD_TIMEOUT ELSE 0)
  /\ UNCHANGED <<kind, disk, chip, rca, scr, started, call, out, calls, asked>>

\* sd_int, for anything but a command: come, or returns the error
Await(flag, Then) ==
  \/ /\ "ERR" \notin intr /\ flag \in intr /\ intr' = intr \ {flag} /\ Then
     /\ Next_ /\ UNCHANGED <<phase, ret, err, faults>>
  \/ /\ \/ "ERR" \in intr /\ err' \in {SD_TIMEOUT, SD_ERROR} /\ faults' = faults
        \/ GivesUp(intr \intersect {flag, "ERR"} # {}) /\ err' = SD_TIMEOUT
     /\ intr' = {} /\ UNCHANGED <<fifo, out>>
     /\ Return(IF call.op = "init" THEN SD_TIMEOUT ELSE 0)

\* the block counts, and the loops over 128 words
Move ==
  /\ \/ Is("get") /\ Await("READ", out' = Append(out, fifo) /\ fifo' = None)
     \/ Is("put") /\ Await("WRITE", fifo' = <<calls, Op[2]>> /\ out' = out)
     \/ Is("scr") /\ Await("READ", UNCHANGED <<fifo, out>>)
     \/ Is("done") /\ Await("DONE", UNCHANGED <<fifo, out>>)
  /\ UNCHANGED <<kind, disk, card, busy, inflight, reply, dat, blk, more, hostWide, dead, rca, scr,
                 started, call, calls, asked>>

BlkSize ==
  /\ Is("blksize") /\ blk' = Op[2] /\ Next_
  /\ UNCHANGED <<kind, disk, card, busy, inflight, reply, intr, dat, more, fifo, hostWide, dead,
                 phase, err, rca, scr, started, call, out, ret, calls, faults, asked>>

End ==
  /\ Is("end")
  /\ Return(CASE call.op = "init" -> SD_OK
              [] call.op # "init" /\ err # SD_OK -> 0
              [] OTHER -> AtLeastOne(call.num))
  /\ started' = (started \/ call.op = "init")
  /\ UNCHANGED <<kind, disk, chip, err, rca, scr, call, out, calls, faults, asked>>

-----------------------------------------------------------------------------
(* sd_init's own steps.                                                    *)

\* C1_SRST_HC; the 64-bit counter passes 0 unseen, so a controller that never
\* comes out of reset is taken for one that has.  sd_scr, sd_rca, sd_err = 0
\* comes after the clock.
Reset ==
  /\ Is("reset")
  /\ \/ Next_ /\ UNCHANGED <<phase, ret, faults>>
     \/ ~dead /\ Fault /\ Return(SD_ERROR)
  /\ IF dead THEN UNCHANGED <<inflight, intr, dat, blk, more, fifo>>
             ELSE inflight' = None /\ intr' = {} /\ dat' = FALSE /\ blk' = 0 /\ more' = 0
                  /\ fifo' = None
  /\ hostWide' = FALSE /\ reply' = ""
  /\ UNCHANGED <<kind, disk, card, busy, dead, err, rca, scr, started, call, out, calls, asked>>

\* sd_clk
Clock ==
  /\ Is("clk")
  /\ \/ inflight = None /\ ~dat /\ ~dead /\ Next_ /\ UNCHANGED <<phase, ret, faults>>
     \/ GivesUp(inflight = None /\ ~dat /\ ~dead) /\ Return(SD_ERROR)
  /\ UNCHANGED <<kind, disk, chip, err, rca, scr, started, call, out, calls, asked>>

Complete == reply \in {"complete", "complete ccs"}

\* ACMD41, until the card has started: the last try's answer is not looked at
Try ==
  /\ Is("try")
  /\ IF Op[2] = 0 THEN Return(SD_TIMEOUT)
     ELSE todo' = Cmd("OP_COND", 0) \o << <<"tried", Op[2] - 1>> >> \o Tail(todo)
          /\ UNCHANGED <<phase, ret>>
  /\ UNCHANGED <<kind, disk, chip, err, rca, scr, started, call, out, calls, faults, asked>>

Tried ==
  /\ Is("tried")
  /\ CASE err = SD_ERROR -> Return(err) /\ scr' = scr
       [] err # SD_ERROR /\ ~Complete ->
            todo' = << <<"try", Op[2]>> >> \o Tail(todo) /\ UNCHANGED <<phase, ret, scr>>
       [] err # SD_ERROR /\ Complete /\ Op[2] = 0 -> Return(SD_TIMEOUT) /\ scr' = scr
       [] OTHER -> /\ scr' = [scr EXCEPT !.ccs = (reply = "complete ccs")]
                   /\ todo' = CardOps \o Tail(todo) /\ UNCHANGED <<phase, ret>>
  /\ UNCHANGED <<kind, disk, chip, err, rca, started, call, out, calls, faults, asked>>

TakeRca ==
  /\ Is("rca") /\ rca' = (IF reply = "rca" THEN 1 ELSE 0) /\ Next_
  /\ UNCHANGED <<kind, disk, chip, phase, err, scr, started, call, out, ret, calls, faults, asked>>

\* the two words of the SCR: the loop's counter does not count, so a controller
\* that goes silent here is waited for for ever
Words ==
  /\ Is("words") /\ ~dead
  /\ scr' = [kind EXCEPT !.ccs = scr.ccs] /\ fifo' = None
  /\ todo' = (IF kind.wide THEN WidthOps ELSE <<>>) \o Tail(todo)
  /\ UNCHANGED <<kind, disk, card, busy, inflight, reply, intr, dat, blk, more, hostWide, dead, phase,
                 err, rca, started, call, out, ret, calls, faults, asked>>

Width ==
  /\ Is("width") /\ hostWide' = TRUE /\ Next_
  /\ UNCHANGED <<kind, disk, controller, reply, phase, err, rca, scr, started, call, out,
                 ret, calls, faults, asked>>

Driver == \/ Issue \/ Answer \/ AppCheck \/ Check \/ Status \/ Move \/ BlkSize \/ End
          \/ Reset \/ Clock \/ Try \/ Tried \/ TakeRca \/ Words \/ Width
Client == BeginInit \/ BeginRead \/ BeginWrite

-----------------------------------------------------------------------------

\* the card is pulled, or the controller hangs
Die ==
  /\ ~dead /\ faults < MaxFault /\ faults' = faults + 1 /\ dead' = TRUE
  /\ UNCHANGED <<kind, disk, card, busy, inflight, reply, intr, dat, blk, more, fifo, software>>

\* the pi restarts at any moment, its SD card keeps power
Restart ==
  /\ faults < MaxFault /\ faults' = faults + 1 /\ call.op # "none"
  /\ todo' = <<>> /\ phase' = "issue" /\ err' = SD_OK /\ rca' = 0 /\ started' = FALSE
  /\ scr' = [ccs |-> FALSE, setblk |-> FALSE, wide |-> FALSE]
  /\ call' = [op |-> "none", lba |-> 0, num |-> 0] /\ out' = <<>> /\ ret' = SD_OK
  /\ UNCHANGED <<kind, disk, chip, calls, asked>>

Next == Client \/ Driver \/ Device \/ Die \/ Restart

\* The program runs, its loops count down, and the card works while it lives.
Spec == Init /\ [][Next]_vars /\ WF_vars(Driver) /\ WF_vars(Device)

-----------------------------------------------------------------------------

Returned(op, r) == Ended /\ call.op = op /\ ret = r
Good == call.op # "none" /\ Ended /\ ~Panicked
Blocks == 1 .. AtLeastOne(call.num)

\* One value of every variable's type; the controller never asks for more
\* blocks than the call moves, and reads store at most as many.
TypeOK ==
  /\ err \in {SD_OK, SD_TIMEOUT, SD_ERROR} /\ phase \in {"issue", "wait"} /\ rca \in {0, 1}
  /\ intr \subseteq {"CMD", "READ", "WRITE", "DONE", "ERR"}
  /\ Len(out) <= AtLeastOne(call.num) /\ busy <= MaxBusy /\ faults <= MaxFault

\* A read that reports its blocks has stored those blocks, in order, whatever
\* was lost or late before it (sd_readblock).
ReadIsWhole ==
  (call.op = "read" /\ Ended /\ ret # 0) => out = [c \in Blocks |-> disk[call.lba + c - 1]]

\* A write that reports its blocks has got every one of them onto the card, but
\* for the last of several on a card addressed in bytes: there the wait at the
\* end may see the completion of the block before it (sd_writeblock).
WriteIsWhole ==
  (call.op = "write" /\ Ended /\ ret # 0) =>
    \A c \in Blocks : disk[call.lba + c - 1] = <<calls, c>>
                       \/ (~scr.ccs /\ c > 1 /\ c = call.num)

\* No block ever holds anything but what was there or what a call asked to
\* write to that very block, through failures and restarts (sd_writeblock).
WritesInPlace == \A l \in Lbas : disk[l] = Original(l) \/ <<l, disk[l]>> \in asked

\* The blocks moved are the blocks asked for, on the card as in memory.
BlocksExact == TypeOK /\ ReadIsWhole /\ WriteIsWhole /\ WritesInPlace

\* When sd_init reports SD_OK, driver, controller and card agree on addressing,
\* address, bus width and state, whatever state a restart left the card in and
\* however late or lost the answers to ACMD41 (sd_init).
InitAgrees ==
  Returned("init", SD_OK) =>
    /\ scr = kind /\ rca = 1 /\ hostWide = card.wide /\ card.wide = kind.wide
    /\ card.st = "tran"

\* A call fails only after a fault, for 0 blocks (the wrapper compares the one
\* block read with none), or when the card starts at the last try or not at
\* all: no call leaves card or controller in a state that fails the next.
FailsOnlyWhen ==
  Panicked => \/ faults > 0
              \/ call.num = 0 /\ call.op # "init"
              \/ call.op = "init" /\ busy >= Tries - 1

\* Every call returns, also when the controller is dead, unless it dies just
\* before sd_init reads the SCR (sd_status, sd_int and their callers).
CallsReturn == (todo # <<>>) ~> (Ended \/ (Is("words") /\ dead))
=============================================================================
