------------------------------ MODULE SdProofs ------------------------------
(***************************************************************************)
(* That sd_init, sd_readblock and sd_writeblock keep what Sd.tla states of *)
(* them, for cards of any size, calls of any length and any bound on       *)
(* faults, restarts and calls: BlocksExact and InitAgrees.                 *)
(*                                                                         *)
(* The invariant SdInv says three things: Base, what holds of controller   *)
(* and card wherever the driver is; InitInv, for every position inside     *)
(* sd_init what has been brought about there; TransferInv, the same for    *)
(* every block of sd_readblock and sd_writeblock.  A position is the list  *)
(* `todo` of what the call has yet to do, so the first part of the proof   *)
(* is about those lists; then come the steps of controller and card, those *)
(* of the driver, and the calls, with failures and restarts.               *)
(***************************************************************************)
EXTENDS Sd, FiniteSetTheorems, SequenceTheorems, TLAPS

-----------------------------------------------------------------------------
(* What a call has yet to do.                                              *)

Codes == {"APP", "GO_IDLE", "IF_COND", "OP_COND", "ALL_SEND_CID", "SEND_REL_ADDR", "CARD_SELECT",
          "SCR", "WIDTH", "BLOCKCNT", "READ_SINGLE", "READ_MULTI", "WRITE_SINGLE", "WRITE_MULTI",
          "STOP"}
Steps == {<<w>> : w \in {"reset", "clk", "check", "appck", "status", "rca", "scr", "words", "width",
                         "done", "end"}}
    \cup {<<w, k>> : w \in {"try", "tried"}, k \in Nat}
    \cup {<<w, k>> : w \in {"blksize", "get", "put"}, k \in Nat \ {0}}
    \cup {<<"cmd", c, a, keep>> : c \in Codes, a \in Int, keep \in BOOLEAN}
Lists == Seq(Steps)

\* o, and r after it
Then(o, r) == <<o>> \o r
Command(c, a, r) == Then(<<"cmd", c, a, FALSE>>, r)
\* sd_cmd of an application's command: before CMD_APP_CMD, after it, and after its check
AppCmd(c, a, r) == Then(<<"cmd", c, a, TRUE>>, r)
AppChecks(c, a, r) == Then(<<"appck">>, AppCmd(c, a, r))
AppCommand(c, a, r) == Command("APP", TheRca, AppChecks(c, a, r))
Checks(r) == Then(<<"check">>, r)

\* sd_init, from its end back
Ends   == Then(<<"end">>, <<>>)
Widens == Then(<<"width">>, Ends)
WordsEnd == Then(<<"words">>, Ends)
Scr    == Then(<<"scr">>, WordsEnd)
Sizes  == Then(<<"blksize", 1>>, AppCommand("SCR", 0, Checks(Scr)))
Asks   == Then(<<"status">>, Sizes)
Select == Command("CARD_SELECT", TheRca, Checks(Asks))
Clocks == Then(<<"clk">>, Select)
Rca    == Then(<<"rca">>, Checks(Clocks))
RelAddr == Command("SEND_REL_ADDR", 0, Rca)
Cid    == Command("ALL_SEND_CID", 0, RelAddr)
TryFrom(k) == Then(<<"try", k>>, Ends)
TriedFrom(k) == Then(<<"tried", k>>, Ends)
IfCond == Command("IF_COND", 0, Checks(TryFrom(Tries)))
Idle   == Command("GO_IDLE", 0, Checks(IfCond))
Clock0 == Then(<<"clk">>, Idle)
Resets == Then(<<"reset">>, Clock0)

\* sd_readblock and sd_writeblock: the blocks of the call, a block's command and
\* move, and the steps behind the last move
Count == AtLeastOne(call.num)
DataCommand(c) ==
  LET single == IF call.op = "read" THEN "READ_SINGLE" ELSE "WRITE_SINGLE"
      multi  == IF call.op = "read" THEN "READ_MULTI" ELSE "WRITE_MULTI"
  IN <<"cmd", IF scr.ccs /\ Count > 1 THEN multi ELSE single, Addr(call.lba, c - 1), FALSE>>
MoveOf(c) == <<IF call.op = "read" THEN "get" ELSE "put", c>>
Stops == StopOps(Count) \o Ends
Behind == IF call.op = "read" THEN Stops ELSE Then(<<"done">>, Stops)

\* L[c] is what follows block c.
Layout(L) ==
  /\ L \in [0 .. Count -> Lists] /\ L[Count] = Behind
  /\ \A c \in 1 .. Count : L[c - 1] = LET m == Then(MoveOf(c), L[c])
                                      IN IF scr.ccs THEN m ELSE Then(DataCommand(c), Checks(m))
MovesFrom(L, c) == Then(MoveOf(c), L[c])
CmdFrom(L, c) == Then(DataCommand(c), Checks(MovesFrom(L, c)))
SizeFrom(L) == Then(<<"blksize", IF scr.ccs THEN Count ELSE 1>>, CmdFrom(L, 1))
Presets == scr.ccs /\ Count > 1 /\ scr.setblk
StatusFrom(L) ==
  Then(<<"status">>, IF Presets THEN Command("BLOCKCNT", Count, Checks(SizeFrom(L))) ELSE SizeFrom(L))

-----------------------------------------------------------------------------
(* The invariant: of the controller, whatever the driver does.             *)

Values == {<<a, b>> : a \in Nat, b \in Nat}
Kinds  == [ccs : BOOLEAN, setblk : BOOLEAN, wide : BOOLEAN]
Multis == {"READ_MULTI", "WRITE_MULTI"}

CardStates == {"idle", "ready", "ident", "stby", "tran", "data", "rcv"}
CardTypes == [st : CardStates, app : BOOLEAN, wide : BOOLEAN, preset : Int, left : Int, pos : Int]

ChipTypes ==
  /\ kind \in Kinds /\ card \in CardTypes /\ busy \in Nat /\ busy <= MaxBusy
  /\ faults \in Nat /\ faults <= MaxFault /\ blk \in Nat /\ more \in Nat
  /\ dat \in BOOLEAN /\ dead \in BOOLEAN /\ disk \in [Lbas -> Values]
  /\ intr \subseteq {"CMD", "READ", "WRITE", "DONE", "ERR"}
  /\ inflight = None \/ \E c \in Codes, a \in Int : inflight = <<c, a>>
DriverTypes ==
  /\ err \in {SD_OK, SD_TIMEOUT, SD_ERROR} /\ phase \in {"issue", "wait"} /\ rca \in {0, 1}
  /\ scr \in Kinds /\ calls \in Nat /\ started \in BOOLEAN /\ hostWide \in BOOLEAN
  /\ call \in [op : {"none", "init", "read", "write"}, lba : Nat, num : Nat]
  /\ out \in Seq(Values) /\ Len(out) <= AtLeastOne(call.num)
  /\ \A w \in asked : w[2] \in Values
TypeInv == ChipTypes /\ DriverTypes

Inflight(c) == inflight # None /\ inflight[1] = c

\* Where the FIFO's block comes from and where it goes.
FifoInv ==
  /\ fifo # None => dat
  /\ "READ" \in intr => fifo # None
  /\ card.st = "rcv" /\ fifo # None => "READ" \notin intr /\ <<card.pos, fifo>> \in asked
  /\ "WRITE" \in intr /\ "ERR" \notin intr => dat /\ more > 0 /\ fifo = None /\ card.st # "data"
  /\ WritesInPlace

\* What the card and the driver know of each other.
KnownInv ==
  /\ reply \in {"complete", "complete ccs"} => reply = IF kind.ccs THEN "complete ccs" ELSE "complete"
  /\ card.wide => kind.wide
  /\ Inflight("WIDTH") => kind.wide
  /\ \A c \in Multis : Inflight(c) => blk > 0
  /\ started => scr.ccs = kind.ccs
  /\ phase = "wait" => Is("cmd")
  /\ call.op = "none" => Ended
  /\ call.op \in {"read", "write"} => started /\ call.lba + Count <= Sectors
  /\ call.op = "init" /\ ~Ended => ~started
  /\ call.op = "write" => \A c \in 1 .. Count : <<call.lba + c - 1, <<calls, c>>>> \in asked

\* Command c with argument a is written, Pre: it is still to be answered, or was
\* with an error, or did what it should.
Awaits(c, a, Pre, Did) ==
  \/ inflight = <<c, a>> /\ "CMD" \notin intr /\ Pre
  \/ inflight = None /\ ("ERR" \in intr \/ Did)
\* its answer has been waited for
Answered(Did) == err = SD_OK => inflight = None /\ Did

-----------------------------------------------------------------------------
(* Of sd_init.                                                             *)

Calm == ~dat /\ \A c \in DataCommands : ~Inflight(c)
Known == scr.ccs = kind.ccs
In(st) == card.st = st
\* the SCR comes, or has come
ScrComes ==
  \/ "ERR" \in intr
  \/ "READ" \notin intr /\ fifo = None /\ In("data") /\ card.left = 1 /\ card.pos = -1 /\ more = 1
  \/ "READ" \in intr /\ In("tran") /\ more = 0
Full  == In("tran") /\ more = 0 /\ rca = 1
Wider == Full /\ fifo = None /\ scr = kind /\ kind.wide
Agreed == Full /\ fifo = None /\ scr = kind /\ hostWide = card.wide /\ card.wide = kind.wide
          /\ inflight = None

OpConds(k) == todo \in {TryFrom(k), AppCommand("OP_COND", 0, TriedFrom(k)),
                        AppChecks("OP_COND", 0, TriedFrom(k)), AppCmd("OP_COND", 0, TriedFrom(k)), TriedFrom(k)}
Waking ==
  \/ todo = Resets \/ (todo = Clock0 /\ ~hostWide)
  \/ todo \in {Idle, Checks(IfCond), IfCond, Checks(TryFrom(Tries))} /\ Calm /\ ~hostWide
  \/ \E k \in Nat : OpConds(k) /\ Calm /\ ~hostWide
Naming ==
  /\ Known /\ Calm /\ ~hostWide
  /\ \/ todo = Cid
     \/ todo = RelAddr /\ (phase = "wait" => Awaits("SEND_REL_ADDR", 0, TRUE, In("stby") /\ reply = "rca"))
     \/ todo = Rca /\ Answered(In("stby") /\ reply = "rca")
     \/ todo = Checks(Clocks) /\ Answered(In("stby") /\ rca = 1)
     \/ todo = Clocks /\ inflight = None /\ In("stby") /\ rca = 1
     \/ todo = Select /\ rca = 1 /\ IF phase = "wait" THEN Awaits("CARD_SELECT", 1, In("stby"), In("tran"))
                                    ELSE inflight = None /\ In("stby")
     \/ todo = Checks(Asks) /\ rca = 1 /\ Answered(In("tran"))
     \/ todo \in {Asks, Sizes} /\ rca = 1 /\ In("tran") /\ inflight = None
     \/ todo = AppCommand("SCR", 0, Checks(Scr)) /\ rca = 1 /\ In("tran")
        /\ (inflight = None \/ Inflight("APP"))
     \/ todo = AppChecks("SCR", 0, Checks(Scr)) /\ rca = 1 /\ In("tran")
        /\ (inflight = None \/ Inflight("APP"))
     \/ todo = AppCmd("SCR", 0, Checks(Scr)) /\ phase = "issue" /\ rca = 1 /\ In("tran")
        /\ (inflight = None \/ Inflight("APP"))
Reading ==
  /\ Known /\ rca = 1 /\ ~hostWide
  /\ \/ todo = AppCmd("SCR", 0, Checks(Scr)) /\ phase = "wait"
        /\ Awaits("SCR", 0, In("tran") /\ ~dat, ScrComes)
     \/ todo = Checks(Scr) /\ Answered(ScrComes)
     \/ todo = Scr /\ inflight = None /\ ScrComes
     \/ todo = WordsEnd /\ inflight = None /\ Full /\ "READ" \notin intr
Widening ==
  \/ /\ Wider
     /\ \/ todo \in {AppCommand("WIDTH", 4, Checks(Widens)), AppChecks("WIDTH", 4, Checks(Widens))}
           /\ (inflight = None \/ Inflight("APP"))
        \/ todo = AppCmd("WIDTH", 4, Checks(Widens))
           /\ IF phase = "wait" THEN Awaits("WIDTH", 4, TRUE, card.wide)
              ELSE inflight = None \/ Inflight("APP")
        \/ todo = Widens /\ inflight = None /\ card.wide
  \/ todo = Checks(Widens) /\ Answered(Wider /\ card.wide)
Initialising == Waking \/ Naming \/ Reading \/ Widening \/ (todo = Ends /\ Agreed)
InitInv ==
  /\ call.op = "init" /\ ~Ended => Initialising
  /\ Returned("init", SD_OK) => Agreed

-----------------------------------------------------------------------------
(* Of sd_readblock and sd_writeblock.                                      *)

\* Nothing can come to its end in the controller that this call has not begun.
NoneEnds == dat => \/ fifo # None /\ ~In("rcv")
                   \/ fifo = None /\ more > 0

\* k blocks are stored, e when the transfer ends: the next is in the FIFO, or not.
Got(k, e) ==
  /\ out = [c \in 1 .. k |-> disk[call.lba + c - 1]] /\ (In("data") \/ In("tran"))
  /\ \/ "READ" \in intr /\ fifo = disk[call.lba + k] /\ card.pos = call.lba + k + 1 /\ more = e - k - 1
        /\ k < Count
     \/ "READ" \notin intr /\ fifo = None /\ card.pos = call.lba + k /\ more = e - k

\* No block of the call is sent before the one before it is on the card.
Fresh == scr.ccs \/ Count = 1
Written(k) == \A c \in 1 .. k : disk[call.lba + c - 1] = <<calls, c>>
\* k blocks are sent, e when the transfer ends: the last is on the card, or in the FIFO.
Put(k, e) ==
  /\ In("rcv") \/ In("tran")
  /\ \/ fifo = None /\ card.pos = call.lba + k /\ more = e - k /\ Written(k)
     \/ /\ fifo = <<calls, k>> /\ card.pos = call.lba + k - 1 /\ more = e - k + 1 /\ Written(k - 1)
        /\ k > 0 /\ In("rcv") /\ "WRITE" \notin intr
  /\ Fresh /\ "DONE" \in intr => more = 0
  /\ fifo = None /\ "WRITE" \in intr /\ "ERR" \notin intr => In("rcv")

Moved(k, e) == IF call.op = "read" THEN Got(k, e) ELSE Put(k, e) /\ out = <<>>
Until(c) == IF scr.ccs THEN Count ELSE c
Moving(c) == "ERR" \in intr \/ Moved(c - 1, Until(c))

\* before the command of block c, and when it is written
Begins(c) == IF c = 1 THEN NoneEnds /\ out = <<>> /\ (scr.ccs => blk = Count)
                      ELSE ~scr.ccs /\ ("ERR" \in intr \/ Moved(c - 1, c - 1))
Commands(L, c) ==
  /\ todo = CmdFrom(L, c)
  /\ IF phase = "wait"
     THEN Awaits(DataCommand(c)[2], DataCommand(c)[3], Begins(c) /\ (c = 1 => "DONE" \notin intr), Moving(c))
     ELSE Begins(c) /\ (c > 1 => inflight = None)

Over == Moved(Count, Count) /\ (call.op = "write" /\ Fresh => more = 0)
Transferring(L) ==
  \/ todo = StatusFrom(L) /\ out = <<>>
  \/ /\ NoneEnds /\ out = <<>>
     /\ \/ Presets /\ todo \in {Command("BLOCKCNT", Count, Checks(SizeFrom(L))), Checks(SizeFrom(L))}
        \/ todo = SizeFrom(L)
  \/ \E c \in 1 .. Count :
       /\ scr.ccs => c = 1
       /\ \/ Commands(L, c)
          \/ todo = Checks(MovesFrom(L, c)) /\ Answered(Moving(c))
  \/ \E c \in 1 .. Count : todo = MovesFrom(L, c) /\ inflight = None /\ Moving(c)
  \/ call.op = "write" /\ todo = Then(<<"done">>, Stops) /\ inflight = None /\ Moved(Count, Count)
  \/ todo = Command("STOP", 0, Ends) /\ scr.ccs /\ Over
     /\ IF phase = "wait" THEN Awaits("STOP", 0, TRUE, TRUE) ELSE inflight = None
  \/ todo = Ends /\ Answered(TRUE) /\ Over /\ (inflight = None \/ (Inflight("STOP") /\ scr.ccs))
TransferInv ==
  /\ call.op \in {"read", "write"} /\ ~Ended => \E L : Layout(L) /\ Transferring(L)
  /\ call.op \in {"read", "write"} /\ Ended /\ ret # 0 => Over /\ inflight = None

Base  == TypeInv /\ FifoInv /\ KnownInv
SdInv == Base /\ InitInv /\ TransferInv

-----------------------------------------------------------------------------
(* Lists of steps.                                                         *)

LEMMA ThenFacts ==
  /\ <<>> \in Lists
  /\ \A o \in Steps, r \in Lists : /\ Then(o, r) \in Lists /\ Then(o, r) # <<>>
                                   /\ Head(Then(o, r)) = o /\ Tail(Then(o, r)) = r
<1>1. <<>> \in Seq(Steps)
  OBVIOUS
<1>2. ASSUME NEW o \in Steps, NEW r \in Seq(Steps)
      PROVE  <<o>> \o r \in Seq(Steps) /\ Head(<<o>> \o r) = o /\ <<o>> \o r # <<>>
  OBVIOUS
<1>3. ASSUME NEW o \in Steps, NEW r \in Seq(Steps)
      PROVE  Tail(<<o>> \o r) = r
  OBVIOUS
<1> QED BY <1>1, <1>2, <1>3 DEF Lists, Then

LEMMA StepFacts ==
  /\ \A w \in {"reset", "clk", "check", "appck", "status", "rca", "scr", "words", "width", "done",
               "end"} : <<w>> \in Steps /\ <<w>>[1] = w
  /\ \A w \in {"try", "tried"}, k \in Nat : <<w, k>> \in Steps /\ <<w, k>>[1] = w /\ <<w, k>>[2] = k
  /\ \A w \in {"blksize", "get", "put"}, k \in Nat \ {0} :
       <<w, k>> \in Steps /\ <<w, k>>[1] = w /\ <<w, k>>[2] = k
  /\ \A c \in Codes, a \in Int, keep \in BOOLEAN :
       /\ <<"cmd", c, a, keep>> \in Steps
       /\ <<"cmd", c, a, keep>>[1] = "cmd" /\ <<"cmd", c, a, keep>>[2] = c
       /\ <<"cmd", c, a, keep>>[3] = a /\ <<"cmd", c, a, keep>>[4] = keep
  BY DEF Steps

LEMMA StepKinds ==
  ASSUME NEW o \in Steps
  PROVE  /\ o[1] = "cmd" => o[2] \in Codes /\ o[3] \in Int /\ o[4] \in BOOLEAN
         /\ o[1] = "blksize" => o[2] \in Nat /\ o[2] > 0
         /\ o[1] \in {"try", "tried"} => o[2] \in Nat
  BY DEF Steps

\* The front of the list.
LEMMA AtFront ==
  ASSUME NEW o \in Steps, NEW r \in Lists, todo = Then(o, r)
  PROVE  Op = o /\ Tail(todo) = r /\ ~Ended /\ \A w : Is(w) <=> o[1] = w
<1>1. todo # <<>> /\ Head(todo) = o /\ Tail(todo) = r
  BY ThenFacts, Zenon
<1>2. Op = o /\ ~Ended
  BY <1>1, Zenon DEF Op, Ended
<1>3. ASSUME NEW w PROVE Is(w) <=> o[1] = w
  BY <1>1, <1>2 DEF Is
<1> QED BY <1>1, <1>2, <1>3

\* Steps in front of a list.
LEMMA StepThen ==
  ASSUME NEW r \in Lists
  PROVE  /\ \A w \in {"reset", "clk", "check", "appck", "status", "rca", "scr", "words", "width",
                      "done", "end"} : Then(<<w>>, r) \in Lists
         /\ Checks(r) \in Lists
         /\ \A c \in Codes, a \in Int :
              /\ Command(c, a, r) \in Lists /\ AppCmd(c, a, r) \in Lists
              /\ AppChecks(c, a, r) \in Lists /\ AppCommand(c, a, r) \in Lists
         /\ \A k \in Nat \ {0} : Then(<<"blksize", k>>, r) \in Lists
         /\ \A k \in Nat : Then(<<"try", k>>, r) \in Lists /\ Then(<<"tried", k>>, r) \in Lists
<1>1. ASSUME NEW w \in {"reset", "clk", "check", "appck", "status", "rca", "scr", "words", "width",
                        "done", "end"}, NEW q \in Lists
      PROVE  Then(<<w>>, q) \in Lists
  BY StepFacts, ThenFacts, SMTT(60)
<1>2. Checks(r) \in Lists
  BY <1>1 DEF Checks
<1>3. ASSUME NEW c \in Codes, NEW a \in Int, NEW q \in Lists
      PROVE  Command(c, a, q) \in Lists /\ AppCmd(c, a, q) \in Lists
  <2>1. <<"cmd", c, a, FALSE>> \in Steps /\ <<"cmd", c, a, TRUE>> \in Steps
    BY StepFacts
  <2> QED BY <2>1, ThenFacts DEF Command, AppCmd
<1>4. ASSUME NEW c \in Codes, NEW a \in Int
      PROVE  AppChecks(c, a, r) \in Lists /\ AppCommand(c, a, r) \in Lists
  <2>1. AppCmd(c, a, r) \in Lists
    BY <1>3
  <2>2. AppChecks(c, a, r) \in Lists
    BY <1>1, <2>1 DEF AppChecks
  <2>3. TheRca \in Int /\ "APP" \in Codes
    BY DEF TheRca, Codes
  <2> QED BY <1>3, <2>2, <2>3 DEF AppCommand
<1>5. ASSUME NEW k \in Nat \ {0} PROVE Then(<<"blksize", k>>, r) \in Lists
  BY StepFacts, ThenFacts
<1>6. ASSUME NEW k \in Nat PROVE Then(<<"try", k>>, r) \in Lists /\ Then(<<"tried", k>>, r) \in Lists
  BY StepFacts, ThenFacts
<1> QED BY <1>1, <1>2, <1>3, <1>4, <1>5, <1>6

LEMMA CodeFacts ==
  /\ TheRca \in Int /\ 0 \in Int /\ 4 \in Int /\ 1 \in Nat \ {0}
  /\ \A c \in {"APP", "GO_IDLE", "IF_COND", "OP_COND", "ALL_SEND_CID", "SEND_REL_ADDR", "CARD_SELECT",
               "SCR", "WIDTH", "BLOCKCNT", "READ_SINGLE", "READ_MULTI", "WRITE_SINGLE", "WRITE_MULTI",
               "STOP"} : c \in Codes
  BY DEF TheRca, Codes

\* What sd_init has yet to do is a list.
LEMMA InitLists ==
  /\ Ends \in Lists /\ Widens \in Lists /\ WordsEnd \in Lists /\ Scr \in Lists /\ Sizes \in Lists
  /\ Asks \in Lists /\ Select \in Lists /\ Clocks \in Lists /\ Rca \in Lists /\ RelAddr \in Lists
  /\ Cid \in Lists /\ IfCond \in Lists /\ Idle \in Lists /\ Clock0 \in Lists /\ Resets \in Lists
  /\ \A k \in Nat : TryFrom(k) \in Lists /\ TriedFrom(k) \in Lists
<1> USE CodeFacts
<1>1. Ends \in Lists
  BY ThenFacts, StepThen DEF Ends
<1>2. Widens \in Lists /\ WordsEnd \in Lists
  BY <1>1, StepThen DEF Widens, WordsEnd
<1>3. Scr \in Lists
  BY <1>2, StepThen DEF Scr
<1>4. Sizes \in Lists
  <2>1. Checks(Scr) \in Lists
    BY <1>3, StepThen
  <2>2. AppCommand("SCR", 0, Checks(Scr)) \in Lists
    BY <2>1, StepThen
  <2> QED BY <2>2, StepThen DEF Sizes
<1>5. Asks \in Lists
  BY <1>4, StepThen DEF Asks
<1>6. Select \in Lists
  <2>1. Checks(Asks) \in Lists
    BY <1>5, StepThen
  <2> QED BY <2>1, StepThen DEF Select
<1>7. Clocks \in Lists
  BY <1>6, StepThen DEF Clocks
<1>8. Rca \in Lists
  <2>1. Checks(Clocks) \in Lists
    BY <1>7, StepThen
  <2> QED BY <2>1, StepThen DEF Rca
<1>9. RelAddr \in Lists
  BY <1>8, StepThen DEF RelAddr
<1>10. Cid \in Lists
  BY <1>9, StepThen DEF Cid
<1>11. \A k \in Nat : TryFrom(k) \in Lists /\ TriedFrom(k) \in Lists
  BY <1>1, StepThen DEF TryFrom, TriedFrom
<1>12. IfCond \in Lists
  <2>1. TryFrom(Tries) \in Lists
    BY <1>11, SdAssumption
  <2>2. Checks(TryFrom(Tries)) \in Lists
    BY <2>1, StepThen
  <2> QED BY <2>2, StepThen DEF IfCond
<1>13. Idle \in Lists
  <2>1. Checks(IfCond) \in Lists
    BY <1>12, StepThen
  <2> QED BY <2>1, StepThen DEF Idle
<1>14. Clock0 \in Lists
  BY <1>13, StepThen DEF Clock0
<1>15. Resets \in Lists
  BY <1>14, StepThen DEF Resets
<1> QED BY <1>1, <1>2, <1>3, <1>4, <1>5, <1>6, <1>7, <1>8, <1>9, <1>10, <1>11, <1>12, <1>13, <1>14, <1>15

\* Lists in front of a list.
LEMMA PlainJoins ==
  ASSUME NEW c \in Codes, NEW a \in Int, c \notin AppCommands, NEW q \in Lists
  PROVE  /\ Cmd(c, a) \in Lists /\ Cmd(c, a) \o q = Command(c, a, q)
         /\ Checked(c, a) \in Lists /\ Checked(c, a) \o q = Command(c, a, Checks(q))
<1>1. PICK o \in Steps : o = <<"cmd", c, a, FALSE>>
  BY StepFacts
<1>2. PICK k \in Steps : k = <<"check">>
  BY StepFacts
<1>3. Cmd(c, a) = <<o>>
  BY <1>1 DEF Cmd
<1>4. <<o>> \in Seq(Steps) /\ <<k>> \in Seq(Steps) /\ q \in Seq(Steps)
  BY DEF Lists
<1>5. Append(<<o>>, k) = <<o>> \o <<k>> /\ <<o>> \o <<k>> \in Seq(Steps)
  BY <1>4
<1>6. (<<o>> \o <<k>>) \o q = <<o>> \o (<<k>> \o q)
  BY <1>4
<1>7. Checked(c, a) = <<o>> \o <<k>>
  BY <1>2, <1>3, <1>5, Zenon DEF Checked
<1> QED BY <1>1, <1>2, <1>3, <1>4, <1>5, <1>6, <1>7, Zenon DEF Command, Checks, Then, Lists

LEMMA AppJoins ==
  ASSUME NEW c \in Codes, NEW a \in Int, c \in AppCommands, NEW q \in Lists
  PROVE  /\ Cmd(c, a) \in Lists /\ Cmd(c, a) \o q = AppCommand(c, a, q)
         /\ Checked(c, a) \in Lists /\ Checked(c, a) \o q = AppCommand(c, a, Checks(q))
<1>1. PICK o \in Steps : o = <<"cmd", "APP", TheRca, FALSE>>
  BY StepFacts, CodeFacts
<1>2. PICK p \in Steps : p = <<"appck">>
  BY StepFacts
<1>3. PICK m \in Steps : m = <<"cmd", c, a, TRUE>>
  BY StepFacts
<1>4. PICK k \in Steps : k = <<"check">>
  BY StepFacts
<1>5. Cmd(c, a) = <<o, p, m>>
  BY <1>1, <1>2, <1>3, Zenon DEF Cmd
<1>6. /\ <<o, p, m>> = <<o>> \o (<<p>> \o <<m>>) /\ <<o>> \in Seq(Steps) /\ <<p>> \in Seq(Steps)
      /\ <<m>> \in Seq(Steps) /\ <<k>> \in Seq(Steps) /\ q \in Seq(Steps) /\ <<o, p, m>> \in Seq(Steps)
  BY DEF Lists
<1>7. <<o, p, m>> \o q = <<o>> \o (<<p>> \o (<<m>> \o q))
  <2>1. ASSUME NEW x \in Seq(Steps) PROVE (<<o>> \o x) \o q = <<o>> \o (x \o q)
    BY <1>6
  <2>2. (<<p>> \o <<m>>) \o q = <<p>> \o (<<m>> \o q) /\ <<p>> \o <<m>> \in Seq(Steps)
    BY <1>6
  <2> QED BY <1>6, <2>1, <2>2, Zenon
<1>8. Append(<<o, p, m>>, k) = <<o, p, m>> \o <<k>> /\ <<o, p, m>> \o <<k>> \in Seq(Steps)
  <2>1. ASSUME NEW x \in Seq(Steps) PROVE Append(x, k) = x \o <<k>> /\ x \o <<k>> \in Seq(Steps)
    OBVIOUS
  <2> QED BY <1>6, <2>1
<1>9. (<<o, p, m>> \o <<k>>) \o q = <<o>> \o (<<p>> \o (<<m>> \o (<<k>> \o q)))
  <2>1. ASSUME NEW x \in Seq(Steps), NEW y \in Seq(Steps), NEW z \in Seq(Steps)
        PROVE  (x \o y) \o z = x \o (y \o z) /\ x \o y \in Seq(Steps)
    OBVIOUS
  <2>a. PICK z \in Seq(Steps) : z = <<k>> \o q
    BY <1>6, <2>1
  <2>b. PICK y \in Seq(Steps) : y = <<p>> \o <<m>>
    BY <1>6, <2>1
  <2>2. (<<o, p, m>> \o <<k>>) \o q = <<o, p, m>> \o (<<k>> \o q)
    BY <1>6, <2>1
  <2>3. <<o, p, m>> \o z = <<o>> \o (y \o z)
    BY <1>6, <2>1, <2>a, <2>b
  <2>4. y \o z = <<p>> \o (<<m>> \o z)
    BY <1>6, <2>1, <2>a, <2>b
  <2> QED BY <2>2, <2>3, <2>4, <2>a, Zenon
<1>10. Checked(c, a) = <<o, p, m>> \o <<k>>
  BY <1>4, <1>5, <1>8, Zenon DEF Checked
<1> QED BY <1>1, <1>2, <1>3, <1>4, <1>5, <1>6, <1>7, <1>8, <1>9, <1>10, Zenon
        DEF Command, AppCommand, AppChecks, AppCmd, Checks, Then, Lists

\* Appending as an operation on lists, associative.
Join(x, y) == x \o y
LEMMA Joins ==
  /\ \A x \in Lists, y \in Lists : Join(x, y) \in Lists
  /\ \A x \in Lists, y \in Lists, z \in Lists : Join(Join(x, y), z) = Join(x, Join(y, z))
  BY ConcatAssociative, ConcatProperties DEF Lists, Join

LEMMA Associates == \A x \in Lists, y \in Lists, z \in Lists : Join(Join(x, y), z) = Join(x, Join(y, z))
  BY Joins

LEMMA FiveJoin ==
  ASSUME NEW a \in Lists, NEW b \in Lists, NEW c \in Lists, NEW d \in Lists, NEW e \in Lists
  PROVE  Join(Join(Join(Join(a, b), c), d), e) = Join(a, Join(b, Join(c, Join(d, e))))
<1>1. PICK f \in Lists : f = Join(a, b)
  BY Joins
<1>2. PICK g \in Lists : g = Join(d, e)
  BY Joins
<1>3. Join(Join(Join(f, c), d), e) = Join(f, Join(c, g))
  <2>1. Join(Join(Join(f, c), d), e) = Join(Join(f, c), g)
    BY <1>2, Joins, SMTT(60)
  <2>2. Join(Join(f, c), g) = Join(f, Join(c, g))
    BY Joins
  <2> QED BY <2>1, <2>2, Zenon
<1>4. Join(f, Join(c, g)) = Join(a, Join(b, Join(c, g)))
  BY <1>1, Joins
<1> QED BY <1>1, <1>2, <1>3, <1>4, Zenon

LEMMA Pairs ==
  ASSUME NEW o \in Steps, NEW p \in Steps, NEW z \in Lists
  PROVE  <<o, p>> \in Lists /\ <<o, p>> \o z = Then(o, Then(p, z))
<1>1. <<o, p>> = Append(<<o>>, p)
  OBVIOUS
<1>2. <<o>> \in Lists /\ <<p>> \in Lists
  BY DEF Lists
<1>3. Append(<<o>>, p) = <<o>> \o <<p>>
  BY DEF Lists
<1>4. (<<o>> \o <<p>>) \o z = <<o>> \o (<<p>> \o z) /\ <<o>> \o <<p>> \in Lists
  BY <1>2, Joins, Zenon DEF Join
<1>5. <<o, p>> = <<o>> \o <<p>>
  BY <1>1, <1>3
<1>6. <<o, p>> \in Lists /\ <<o, p>> \o z = <<o>> \o (<<p>> \o z)
  BY <1>4, <1>5, Zenon
<1> QED BY <1>6, Zenon DEF Then

LEMMA PairJoins ==
  ASSUME NEW o \in Steps, NEW p \in Steps, NEW z \in Lists
  PROVE  Join(<<o, p>>, z) = Then(o, Then(p, z))
  BY Pairs, Zenon DEF Join

LEMMA Ones ==
  ASSUME NEW o \in Steps, NEW z \in Lists
  PROVE  <<o>> \in Lists /\ <<o>> \o z = Then(o, z) /\ Append(z, o) = z \o <<o>> /\ Then(o, <<>>) = <<o>>
  BY DEF Lists, Then

\* What sd_init appends to what it has yet to do.
LEMMA InitPrograms ==
  /\ Append(InitOps, <<"end">>) = Resets /\ CardOps \o Ends = Cid
  /\ WidthOps \o Ends = AppCommand("WIDTH", 4, Checks(Widens))
  /\ \A k \in Nat : (Cmd("OP_COND", 0) \o << <<"tried", k>> >>) \o Ends = AppCommand("OP_COND", 0, TriedFrom(k))
<1>a. /\ Ends \in Lists /\ Widens \in Lists /\ Scr \in Lists /\ Asks \in Lists /\ Select \in Lists
      /\ Rca \in Lists /\ RelAddr \in Lists /\ Idle \in Lists /\ IfCond \in Lists
  BY InitLists
<1>b. /\ TheRca \in Int /\ 0 \in Int /\ 4 \in Int
      /\ \A c \in {"GO_IDLE", "IF_COND", "ALL_SEND_CID", "SEND_REL_ADDR", "CARD_SELECT"} :
           c \in Codes /\ c \notin AppCommands
      /\ \A c \in {"SCR", "WIDTH", "OP_COND"} : c \in Codes /\ c \in AppCommands
  BY CodeFacts DEF AppCommands
<1>4. /\ <<"end">> \in Steps /\ <<"reset">> \in Steps /\ <<"clk">> \in Steps /\ <<"check">> \in Steps
      /\ <<"rca">> \in Steps /\ <<"status">> \in Steps /\ <<"blksize", 1>> \in Steps /\ <<"scr">> \in Steps
      /\ <<"words">> \in Steps /\ <<"width">> \in Steps /\ <<"try", Tries>> \in Steps
  BY StepFacts, SdAssumption
<1>5. Append(InitOps, <<"end">>) = Resets
  <2>1. PICK x \in Lists : x = <<<<"reset">>, <<"clk">>>>
    BY <1>4, Pairs, ThenFacts
  <2>2. PICK y \in Lists : y = Checked("GO_IDLE", 0)
    BY <1>b, PlainJoins, ThenFacts
  <2>3. PICK z \in Lists : z = Checked("IF_COND", 0)
    BY <1>b, PlainJoins, ThenFacts
  <2>4. PICK t \in Lists : t = << <<"try", Tries>> >>
    BY <1>4, Ones
  <2>5. InitOps = ((x \o y) \o z) \o t
    BY <2>1, <2>2, <2>3, <2>4, Zenon DEF InitOps
  <2>6. PICK e \in Lists : e = << <<"end">> >> /\ e = Ends
    BY <1>4, Ones DEF Ends
  <2>7. Append(InitOps, <<"end">>) = (((x \o y) \o z) \o t) \o e
    <3>1. PICK u \in Lists : u = ((x \o y) \o z) \o t
      BY Joins DEF Join
    <3>2. Append(u, <<"end">>) = u \o << <<"end">> >>
      BY <1>4, Ones
    <3> QED BY <2>5, <2>6, <3>1, <3>2, Zenon
  <2>8. (((x \o y) \o z) \o t) \o e = x \o (y \o (z \o (t \o e)))
    <3>1. Join(Join(Join(Join(x, y), z), t), e) = Join(x, Join(y, Join(z, Join(t, e))))
      BY FiveJoin
    <3> QED BY <3>1, Zenon DEF Join
  <2>9. t \o e = TryFrom(Tries) /\ TryFrom(Tries) \in Lists
    <3>1. t \o e = Then(<<"try", Tries>>, Ends)
      BY <2>4, <2>6, Zenon DEF Then
    <3> QED BY <3>1, InitLists, SdAssumption, Zenon DEF TryFrom
  <2>10. z \o TryFrom(Tries) = IfCond
    BY <2>3, <2>9, <1>b, PlainJoins DEF IfCond
  <2>11. y \o IfCond = Idle
    BY <2>2, <1>a, <1>b, PlainJoins, ZenonT(60) DEF Idle
  <2>12. x \o Idle = Resets
    <3>1. x \o Idle = Then(<<"reset">>, Then(<<"clk">>, Idle))
      <4>1. Join(x, Idle) = Then(<<"reset">>, Then(<<"clk">>, Idle))
        BY <1>4, PairJoins, <2>1, <1>a
      <4> QED BY <4>1, Zenon DEF Join
    <3> QED BY <3>1, Zenon DEF Resets, Clock0
  <2> QED BY <2>7, <2>8, <2>9, <2>10, <2>11, <2>12, Zenon
<1>6. CardOps \o Ends = Cid
  <2>1. PICK a \in Lists : a = Cmd("ALL_SEND_CID", 0)
    BY <1>b, PlainJoins, ThenFacts
  <2>2. PICK b \in Lists : b = Cmd("SEND_REL_ADDR", 0)
    BY <1>b, PlainJoins, ThenFacts
  <2>3. PICK c \in Lists : c = <<<<"rca">>, <<"check">>, <<"clk">>>>
    <3>1. <<<<"rca">>, <<"check">>, <<"clk">>>> \in Seq(Steps)
      BY <1>4
    <3> QED BY <3>1 DEF Lists
  <2>4. PICK d \in Lists : d = Checked("CARD_SELECT", TheRca)
    BY <1>b, PlainJoins, ThenFacts
  <2>5. PICK e \in Lists : e = <<<<"status">>, <<"blksize", 1>>>>
    BY <1>4, Pairs, ThenFacts
  <2>6. PICK f \in Lists : f = Checked("SCR", 0)
    BY <1>b, AppJoins, ThenFacts
  <2>7. PICK g \in Lists : g = <<<<"scr">>, <<"words">>>>
    BY <1>4, Pairs, ThenFacts
  <2>8. CardOps = (((((a \o b) \o c) \o d) \o e) \o f) \o g
    BY <2>1, <2>2, <2>3, <2>4, <2>5, <2>6, <2>7, Zenon DEF CardOps
  <2>10. g \o Ends = Scr
    <3>1. g \o Ends = Then(<<"scr">>, Then(<<"words">>, Ends))
      <4>1. Join(g, Ends) = Then(<<"scr">>, Then(<<"words">>, Ends))
        BY <1>4, PairJoins, <2>7, <1>a
      <4> QED BY <4>1, Zenon DEF Join
    <3> QED BY <3>1, Zenon DEF Scr, WordsEnd
  <2>11. f \o Scr = AppCommand("SCR", 0, Checks(Scr))
    BY <2>6, <1>a, <1>b, AppJoins, ZenonT(60)
  <2>12. e \o AppCommand("SCR", 0, Checks(Scr)) = Asks
    <3>1. Checks(Scr) \in Lists
      BY <1>a, StepThen
    <3>2. AppCommand("SCR", 0, Checks(Scr)) \in Lists
      BY <1>b, <3>1, StepThen
    <3>3. e \o AppCommand("SCR", 0, Checks(Scr))
            = Then(<<"status">>, Then(<<"blksize", 1>>, AppCommand("SCR", 0, Checks(Scr))))
      <4>1. Join(e, AppCommand("SCR", 0, Checks(Scr)))
              = Then(<<"status">>, Then(<<"blksize", 1>>, AppCommand("SCR", 0, Checks(Scr))))
        BY <1>4, PairJoins, <2>5, <3>2
      <4> QED BY <4>1, Zenon DEF Join
    <3> QED BY <3>3, Zenon DEF Asks, Sizes
  <2>13. d \o Asks = Select
    BY <2>4, <1>a, <1>b, PlainJoins, ZenonT(60) DEF Select
  <2>14. c \o Select = Rca
    <3>1. PICK u \in Lists : u = <<<<"check">>, <<"clk">>>>
      BY <1>4, Pairs, ThenFacts
    <3>2. PICK v \in Lists : v = << <<"rca">> >>
      BY <1>4, Ones
    <3>3. c = v \o u
      <4>1. PICK o \in Steps, p \in Steps, q \in Steps : o = <<"rca">> /\ p = <<"check">> /\ q = <<"clk">>
        BY <1>4
      <4>2. <<o, p, q>> = <<o>> \o <<p, q>>
        <5>1. <<o>> \in Seq(Steps) /\ <<p, q>> \in Seq(Steps) /\ <<o, p, q>> \in Seq(Steps)
          OBVIOUS
        <5> QED BY <5>1
      <4> QED BY <2>3, <3>1, <3>2, <4>1, <4>2, Zenon
    <3>4. u \o Select = Checks(Clocks)
      <4>1. u \o Select = Then(<<"check">>, Then(<<"clk">>, Select))
        <5>1. Join(u, Select) = Then(<<"check">>, Then(<<"clk">>, Select))
          BY <1>4, PairJoins, <3>1, <1>a
        <5> QED BY <5>1, Zenon DEF Join
      <4> QED BY <4>1, Zenon DEF Checks, Clocks
    <3>5. (v \o u) \o Select = v \o (u \o Select)
      <4>1. Join(Join(v, u), Select) = Join(v, Join(u, Select))
        BY <1>a, Joins
      <4> QED BY <4>1, Zenon DEF Join
    <3> QED BY <3>2, <3>3, <3>4, <3>5, Zenon DEF Rca, Then
  <2>15. b \o Rca = RelAddr
    BY <2>2, <1>a, <1>b, PlainJoins, ZenonT(60) DEF RelAddr
  <2>16. a \o RelAddr = Cid
    BY <2>1, <1>a, <1>b, PlainJoins, ZenonT(60) DEF Cid
  <2>17. CardOps \o Ends = a \o (b \o (c \o (d \o (e \o (f \o (g \o Ends))))))
    <3>1. Ends \in Lists
      BY <1>a
    <3>2. PICK p \in Lists : p = Join(Join(Join(a, b), c), d)
      BY Joins
    <3>3. PICK w \in Lists : w = Join(e, Join(f, Join(g, Ends)))
      BY <3>1, Joins
    <3>4. Join(Join(Join(Join(p, e), f), g), Ends) = Join(p, w)
      BY <3>1, <3>3, FiveJoin
    <3>5. Join(p, w) = Join(a, Join(b, Join(c, Join(d, w))))
      BY <3>2, FiveJoin
    <3> QED BY <2>8, <3>2, <3>3, <3>4, <3>5, Zenon DEF Join
  <2> QED BY <2>10, <2>11, <2>12, <2>13, <2>14, <2>15, <2>16, <2>17, Zenon
<1>7. WidthOps \o Ends = AppCommand("WIDTH", 4, Checks(Widens))
  <2>1. PICK x \in Lists : x = Checked("WIDTH", 4)
    BY <1>b, AppJoins, ThenFacts
  <2>2. WidthOps = x \o << <<"width">> >> /\ << <<"width">> >> \in Lists
    BY <1>4, Ones, <2>1, Zenon DEF WidthOps
  <2>3. (x \o << <<"width">> >>) \o Ends = x \o (<< <<"width">> >> \o Ends)
    <3>1. Join(Join(x, << <<"width">> >>), Ends) = Join(x, Join(<< <<"width">> >>, Ends))
      BY <2>2, <1>a, Joins
    <3> QED BY <3>1, Zenon DEF Join
  <2>4. << <<"width">> >> \o Ends = Widens
    BY Zenon DEF Widens, Then
  <2>5. x \o Widens = AppCommand("WIDTH", 4, Checks(Widens))
    BY <2>1, <1>a, <1>b, AppJoins
  <2> QED BY <2>2, <2>3, <2>4, <2>5, Zenon
<1>8. ASSUME NEW k \in Nat
      PROVE  (Cmd("OP_COND", 0) \o << <<"tried", k>> >>) \o Ends = AppCommand("OP_COND", 0, TriedFrom(k))
  <2>1. PICK x \in Lists : x = Cmd("OP_COND", 0)
    BY <1>b, AppJoins, ThenFacts
  <2>2. PICK y \in Lists : y = << <<"tried", k>> >>
    BY Ones, StepFacts, ThenFacts
  <2>3. (x \o y) \o Ends = x \o (y \o Ends)
    <3>1. Join(Join(x, y), Ends) = Join(x, Join(y, Ends))
      BY <1>a, Joins
    <3> QED BY <3>1, Zenon DEF Join
  <2>4. y \o Ends = TriedFrom(k)
    BY <2>2, Zenon DEF TriedFrom, Then
  <2>5. TriedFrom(k) \in Lists
    BY InitLists
  <2>6. x \o TriedFrom(k) = AppCommand("OP_COND", 0, TriedFrom(k))
    BY <2>1, <2>5, <1>b, AppJoins
  <2> QED BY <2>1, <2>2, <2>3, <2>4, <2>6, Zenon
<1> QED BY <1>5, <1>6, <1>7, <1>8
\* Every nonempty set of naturals has a least element.
LEMMA NatLeast ==
  ASSUME NEW T \in SUBSET Nat, T # {}
  PROVE  \E m \in T : \A n \in T : m <= n
<1> DEFINE Up == {0 .. m : m \in T}
<1>1. Up \subseteq FiniteSubsetsOf(Nat) /\ Up # {}
  <2>1. \A m \in T : 0 .. m \subseteq Nat /\ IsFiniteSet(0 .. m)
    BY FS_Interval
  <2> QED BY <2>1 DEF FiniteSubsetsOf
<1>2. PICK U \in Up : \A V \in Up : ~ (<<V, U>> \in StrictSubsetOrdering(Nat))
  BY <1>1, FS_StrictSubsetOrderingWellFounded, WFMin
<1>3. PICK m \in T : U = 0 .. m
  OBVIOUS
<1>4. \A n \in T : m <= n
  <2> TAKE n \in T
  <2>1. <<0 .. n, 0 .. m>> \notin StrictSubsetOrdering(Nat)
    BY <1>2, <1>3
  <2>2. ~ (0 .. n \subseteq 0 .. m /\ 0 .. n # 0 .. m)
    BY <2>1 DEF StrictSubsetOrdering
  <2>3. n < m => (0 .. n \subseteq 0 .. m /\ m \in 0 .. m /\ m \notin 0 .. n)
    OBVIOUS
  <2> QED BY <2>2, <2>3
<1> QED BY <1>4


-----------------------------------------------------------------------------
(* The program of a transfer.                                              *)

IsTransfer == call.op \in {"read", "write"} /\ call.lba \in Nat /\ call.num \in Nat /\ scr \in Kinds

LEMMA CountFacts ==
  ASSUME IsTransfer
  PROVE  /\ Count \in Nat \ {0} /\ scr.ccs \in BOOLEAN /\ scr.setblk \in BOOLEAN
         /\ \A c \in 1 .. Count : /\ DataCommand(c) \in Steps /\ MoveOf(c) \in Steps
                                  /\ Addr(call.lba, c - 1) \in Int
<1>1. Count \in Nat \ {0}
  BY DEF IsTransfer, Count, AtLeastOne
<1>2. scr.ccs \in BOOLEAN /\ scr.setblk \in BOOLEAN
  BY DEF IsTransfer, Kinds
<1>3. ASSUME NEW c \in 1 .. Count
      PROVE  DataCommand(c) \in Steps /\ MoveOf(c) \in Steps /\ Addr(call.lba, c - 1) \in Int
  <2>1. c \in Nat \ {0}
    BY <1>1
  <2>2. Addr(call.lba, c - 1) \in Int
    <3>1. call.lba + (c - 1) \in Int /\ BlockBytes \in Int
      BY <2>1, SdAssumption DEF IsTransfer
    <3> QED BY <3>1 DEF Addr
  <2>3. MoveOf(c) \in Steps
    BY <2>1, StepFacts DEF MoveOf
  <2>4. \A k \in {"READ_SINGLE", "READ_MULTI", "WRITE_SINGLE", "WRITE_MULTI"}, a \in Int :
          <<"cmd", k, a, FALSE>> \in Steps
    <3>1. \A k \in {"READ_SINGLE", "READ_MULTI", "WRITE_SINGLE", "WRITE_MULTI"} : k \in Codes
      BY CodeFacts
    <3>2. \A k \in Codes, a \in Int : <<"cmd", k, a, FALSE>> \in Steps
      BY StepFacts
    <3> QED BY <3>1, <3>2
  <2>5. DataCommand(c) \in Steps
    BY <2>2, <2>4, Zenon DEF DataCommand
  <2> QED BY <2>2, <2>3, <2>5
<1> QED BY <1>1, <1>2, <1>3

LEMMA BehindFacts ==
  ASSUME IsTransfer
  PROVE  /\ Stops \in Lists /\ Behind \in Lists
         /\ Stops = IF Count > 1 /\ ~scr.setblk /\ scr.ccs THEN Command("STOP", 0, Ends) ELSE Ends
<1>1. Ends \in Lists /\ Command("STOP", 0, Ends) \in Lists
  <2>1. Ends \in Lists /\ "STOP" \in Codes /\ 0 \in Int
    BY InitLists, CodeFacts
  <2> QED BY <2>1, StepThen
<1>2. Cmd("STOP", 0) \o Ends = Command("STOP", 0, Ends)
  <2>1. "STOP" \in Codes /\ 0 \in Int /\ "STOP" \notin AppCommands
    BY CodeFacts DEF AppCommands
  <2> QED BY <1>1, <2>1, PlainJoins
<1>3. <<>> \o Ends = Ends
  BY <1>1 DEF Lists
<1>4. Stops = IF Count > 1 /\ ~scr.setblk /\ scr.ccs THEN Command("STOP", 0, Ends) ELSE Ends
  BY <1>2, <1>3, Zenon DEF Stops, StopOps
<1>5. Stops \in Lists
  BY <1>1, <1>4
<1>6. Then(<<"done">>, Stops) \in Lists
  BY <1>5, StepThen
<1> QED BY <1>4, <1>5, <1>6 DEF Behind

\* Block c in front of what follows it.
AddBlock(c, r) ==
  LET m == Then(MoveOf(c), r) IN IF scr.ccs THEN m ELSE Then(DataCommand(c), Checks(m))

LEMMA AddBlockFacts ==
  ASSUME IsTransfer, NEW c \in 1 .. Count, NEW r \in Lists
  PROVE  /\ AddBlock(c, r) \in Lists /\ Then(MoveOf(c), r) \in Lists
         /\ Checks(Then(MoveOf(c), r)) \in Lists
         /\ Then(DataCommand(c), Checks(Then(MoveOf(c), r))) \in Lists
<1>1. DataCommand(c) \in Steps /\ MoveOf(c) \in Steps
  BY CountFacts
<1>2. Then(MoveOf(c), r) \in Lists
  BY <1>1, ThenFacts
<1>3. Checks(Then(MoveOf(c), r)) \in Lists
  BY <1>2, StepThen
<1>4. Then(DataCommand(c), Checks(Then(MoveOf(c), r))) \in Lists
  BY <1>1, <1>3, ThenFacts
<1> QED BY <1>2, <1>3, <1>4 DEF AddBlock

\* The last k blocks and what is behind them.
Tails(g, k) == g \in [0 .. k -> Lists] /\ g[0] = Behind
               /\ \A j \in 1 .. k : g[j] = AddBlock(Count - j + 1, g[j - 1])
LEMMA TailsExist ==
  ASSUME IsTransfer, NEW k \in Nat, k <= Count
  PROVE  \E g : Tails(g, k)
<1> DEFINE T == {m \in 0 .. k : ~ \E g : Tails(g, m)}
<1>1. SUFFICES ASSUME T # {} PROVE FALSE
  OBVIOUS
<1>2. T \in SUBSET Nat
  OBVIOUS
<1>3. PICK m \in T : \A i \in T : m <= i
  BY <1>1, <1>2, NatLeast
<1>4. Count \in Nat
  BY CountFacts
<1>5. m # 0
  <2>1. PICK g : g = [i \in 0 .. 0 |-> Behind]
    OBVIOUS
  <2>2. g \in [0 .. 0 -> Lists] /\ g[0] = Behind
    BY <2>1, BehindFacts
  <2>3. Tails(g, 0)
    BY <2>2 DEF Tails
  <2> QED BY <1>3, <2>3
<1>6. PICK g : Tails(g, m - 1)
  BY <1>3, <1>5
<1>7. PICK r \in Lists : r = g[m - 1]
  BY <1>3, <1>5, <1>6 DEF Tails
<1>8. Count - m + 1 \in 1 .. Count
  BY <1>3, <1>4, <1>5
<1>9. PICK q \in Lists : q = AddBlock(Count - m + 1, r)
  BY <1>7, <1>8, AddBlockFacts
<1>10. PICK h : h = [i \in 0 .. m |-> IF i = m THEN q ELSE g[i]]
  OBVIOUS
<1>11. h[m] = q /\ \A i \in 0 .. m - 1 : h[i] = g[i]
  BY <1>3, <1>10
<1>12. h \in [0 .. m -> Lists]
  <2>1. \A i \in 0 .. m : i # m => i \in 0 .. m - 1
    BY <1>3
  <2>2. \A i \in 0 .. m : h[i] \in Lists
    BY <1>6, <1>9, <1>11, <2>1 DEF Tails
  <2> QED BY <1>10, <2>2
<1>13. \A j \in 1 .. m : h[j] = AddBlock(Count - j + 1, h[j - 1])
  <2> TAKE j \in 1 .. m
  <2>1. CASE j = m
    <3>1. h[m - 1] = g[m - 1]
      BY <1>3, <1>5, <1>11
    <3> QED BY <1>7, <1>9, <1>11, <2>1, <3>1
  <2>2. CASE j # m
    <3>1. j \in 1 .. m - 1 /\ j \in 0 .. m - 1 /\ j - 1 \in 0 .. m - 1
      BY <1>3, <2>2
    <3> QED BY <1>6, <1>11, <3>1 DEF Tails
  <2> QED BY <2>1, <2>2
<1>14. h[0] = Behind
  BY <1>3, <1>5, <1>6, <1>11 DEF Tails
<1>15. Tails(h, m)
  BY <1>12, <1>13, <1>14 DEF Tails
<1> QED BY <1>3, <1>15

LEMMA LayoutExists ==
  ASSUME IsTransfer
  PROVE  \E L : Layout(L) /\ \A c \in 1 .. Count : L[c - 1] = AddBlock(c, L[c])
<1>1. Count \in Nat \ {0}
  BY CountFacts
<1>2. PICK g : Tails(g, Count)
  BY <1>1, TailsExist
<1>3. PICK L : L = [c \in 0 .. Count |-> g[Count - c]]
  OBVIOUS
<1>4. \A c \in 0 .. Count : Count - c \in 0 .. Count /\ L[c] = g[Count - c]
  BY <1>1, <1>3
<1>5. L \in [0 .. Count -> Lists]
  BY <1>2, <1>3, <1>4 DEF Tails
<1>6. L[Count] = Behind
  BY <1>1, <1>2, <1>4 DEF Tails
<1>7. \A c \in 1 .. Count : L[c - 1] = AddBlock(c, L[c])
  <2> TAKE c \in 1 .. Count
  <2>1. PICK j \in 1 .. Count : j = Count - c + 1
    BY <1>1
  <2>2. Count - j + 1 = c /\ Count - (c - 1) = j /\ Count - c = j - 1 /\ c - 1 \in 0 .. Count /\ c \in 0 .. Count
    BY <1>1, <2>1
  <2>3. g[j] = AddBlock(c, g[j - 1])
    BY <1>2, <2>2 DEF Tails
  <2> QED BY <1>4, <2>2, <2>3
<1>8. Layout(L)
  BY <1>5, <1>6, <1>7, Zenon DEF Layout, AddBlock
<1> QED BY <1>7, <1>8

\* f flattens the first n elements of s, prefix by prefix.
IsFlat(f, s, n) ==
  f = [i \in 1 .. n |-> IF i = 1 THEN s[i] ELSE f[i - 1] \o s[i]]

LEMMA FlatExists ==
  ASSUME NEW s, NEW n \in Nat
  PROVE  \E f : IsFlat(f, s, n)
<1> DEFINE T == {m \in Nat : ~ \E f : IsFlat(f, s, m)}
<1>1. SUFFICES ASSUME T # {} PROVE FALSE
  OBVIOUS
<1>2. PICK m \in T : \A i \in T : m <= i
  BY <1>1, NatLeast
<1>3. m # 0
  <2>1. IsFlat([i \in 1 .. 0 |-> s], s, 0)
    BY DEF IsFlat
  <2> QED BY <2>1, <1>2
<1>4. PICK f : IsFlat(f, s, m - 1)
  BY <1>2, <1>3
<1> DEFINE g == [i \in 1 .. m |-> IF i = m THEN (IF m = 1 THEN s[m] ELSE f[m - 1] \o s[m]) ELSE f[i]]
<1>5. \A i \in 1 .. m : g[i] = IF i = 1 THEN s[i] ELSE g[i - 1] \o s[i]
  <2> TAKE i \in 1 .. m
  <2>1. ASSUME i # m PROVE g[i] = f[i] /\ f[i] = IF i = 1 THEN s[i] ELSE f[i - 1] \o s[i]
    <3>1. i \in 1 .. m - 1
      BY <2>1, <1>2
    <3> QED BY <1>4, <2>1, <3>1 DEF IsFlat
  <2>2. i # 1 => g[i - 1] = f[i - 1]
    OBVIOUS
  <2>3. i = m => g[i] = IF m = 1 THEN s[m] ELSE f[m - 1] \o s[m]
    OBVIOUS
  <2> HIDE DEF g
  <2> QED BY <2>1, <2>2, <2>3
<1>6. IsFlat(g, s, m)
  <2>1. g = [i \in 1 .. m |-> g[i]]
    OBVIOUS
  <2> HIDE DEF g
  <2> QED BY <1>5, <2>1, Zenon DEF IsFlat
<1> QED BY <1>2, <1>6

LEMMA FlattenIsFlat ==
  ASSUME NEW E, NEW s \in Seq(E)
  PROVE  IF s = <<>> THEN FlattenSeq(s) = <<>>
                     ELSE \E f : IsFlat(f, s, Len(s)) /\ FlattenSeq(s) = f[Len(s)]
<1>1. Len(s) \in Nat /\ (Len(s) = 0 <=> s = <<>>)
  BY LenProperties, EmptySeq
<1>2. CASE s = <<>>
  BY <1>1, <1>2, Zenon DEF FlattenSeq
<1>3. CASE s # <<>>
  <2> DEFINE f == CHOOSE f : IsFlat(f, s, Len(s))
  <2>1. IsFlat(f, s, Len(s))
    BY <1>1, FlatExists, Zenon
  <2>2. FlattenSeq(s) = f[Len(s)]
    BY <1>1, <1>3, Zenon DEF FlattenSeq, IsFlat
  <2> QED BY <1>3, <2>1, <2>2, Zenon
<1> QED BY <1>2, <1>3

\* Block c as the list of its operations.
BlockOps(c) ==
  (IF scr.ccs THEN <<>>
              ELSE Checked(IF call.op = "read" THEN "READ_SINGLE" ELSE "WRITE_SINGLE", Addr(call.lba, c - 1)))
  \o << MoveOf(c) >>

LEMMA BlockOpsFacts ==
  ASSUME IsTransfer, NEW c \in 1 .. Count
  PROVE  BlockOps(c) \in Lists /\ \A r \in Lists : Join(BlockOps(c), r) = AddBlock(c, r)
<1>1. MoveOf(c) \in Steps /\ Addr(call.lba, c - 1) \in Int
  BY CountFacts
<1>2. PICK o \in Lists : o = << MoveOf(c) >>
  BY <1>1, Ones, ThenFacts
<1>3. ASSUME NEW r \in Lists PROVE Join(o, r) = Then(MoveOf(c), r)
  BY <1>2 DEF Join, Then
<1>4. CASE scr.ccs
  <2>1. BlockOps(c) = o
    <3>1. <<>> \o o = o
      BY DEF Lists
    <3> QED BY <1>2, <1>4, <3>1, Zenon DEF BlockOps
  <2> QED BY <1>3, <1>4, <2>1 DEF AddBlock
<1>5. CASE ~scr.ccs
  <2>1. PICK k : k = IF call.op = "read" THEN "READ_SINGLE" ELSE "WRITE_SINGLE"
    OBVIOUS
  <2>2. k \in Codes /\ k \notin AppCommands
    BY <2>1, CodeFacts DEF AppCommands
  <2>3. PICK a \in Int : a = Addr(call.lba, c - 1)
    BY <1>1
  <2>4. PICK h \in Lists : h = Checked(k, a)
    BY <2>2, PlainJoins, ThenFacts
  <2>5. \A r \in Lists : Join(h, r) = Command(k, a, Checks(r))
    BY <2>2, <2>4, PlainJoins, Zenon DEF Join
  <2>6. BlockOps(c) = Join(h, o)
    BY <1>2, <1>5, <2>1, <2>3, <2>4, Zenon DEF BlockOps, Join
  <2>7. BlockOps(c) \in Lists
    BY <2>6, Joins
  <2>8. DataCommand(c) = <<"cmd", k, a, FALSE>>
    BY <1>5, <2>1, <2>3, Zenon DEF DataCommand
  <2>9. ASSUME NEW r \in Lists PROVE Join(BlockOps(c), r) = AddBlock(c, r)
    <3>1. PICK m \in Lists : m = Then(MoveOf(c), r)
      BY AddBlockFacts
    <3>2. Join(Join(h, o), r) = Join(h, Join(o, r))
      BY Joins
    <3>3. Join(h, Join(o, r)) = Command(k, a, Checks(m))
      BY <1>3, <2>5, <3>1
    <3>4. AddBlock(c, r) = Then(<<"cmd", k, a, FALSE>>, Checks(m))
      BY <1>5, <2>8, <3>1, Zenon DEF AddBlock
    <3> QED BY <2>6, <3>2, <3>3, <3>4, Zenon DEF Command
  <2> QED BY <2>7, <2>9
<1> QED BY <1>4, <1>5

\* The blocks of a transfer, in front of what is behind the last.
Blockwise == [c \in 1 .. Count |-> BlockOps(c)]
LEMMA BlocksLaidOut ==
  ASSUME IsTransfer, NEW L, Layout(L), \A c \in 1 .. Count : L[c - 1] = AddBlock(c, L[c])
  PROVE  FlattenSeq(Blockwise) \in Lists /\ Join(FlattenSeq(Blockwise), Behind) = L[0]
<1>1. Count \in Nat \ {0}
  BY CountFacts
<1>2. PICK s : s = Blockwise
  OBVIOUS
<1>3. s \in Seq(Lists) /\ Len(s) = Count /\ s # <<>> /\ \A c \in 1 .. Count : s[c] = BlockOps(c)
  <2>1. \A c \in 1 .. Count : BlockOps(c) \in Lists
    BY BlockOpsFacts
  <2>2. s \in [1 .. Count -> Lists] /\ \A c \in 1 .. Count : s[c] = BlockOps(c)
    BY <1>2, <2>1 DEF Blockwise
  <2>3. s \in Seq(Lists) /\ Len(s) = Count
    BY <1>1, <2>2
  <2> QED BY <1>1, <2>2, <2>3
<1>4. PICK f : IsFlat(f, s, Len(s)) /\ FlattenSeq(s) = f[Len(s)]
  BY <1>3, FlattenIsFlat
<1>5. \A c \in 1 .. Count : f[c] = IF c = 1 THEN BlockOps(c) ELSE Join(f[c - 1], BlockOps(c))
  BY <1>3, <1>4 DEF IsFlat, Join
<1>6. \A c \in 1 .. Count : f[c] \in Lists
  <2> DEFINE T == {c \in 1 .. Count : f[c] \notin Lists}
  <2>1. SUFFICES ASSUME T # {} PROVE FALSE
    OBVIOUS
  <2>2. T \in SUBSET Nat
    OBVIOUS
  <2>3. PICK c \in T : \A i \in T : c <= i
    BY <2>1, <2>2, NatLeast
  <2>4. BlockOps(c) \in Lists
    BY BlockOpsFacts
  <2>5. c # 1 => f[c - 1] \in Lists
    BY <1>1, <2>3
  <2>6. CASE c = 1
    BY <1>5, <2>4, <2>6
  <2>7. CASE c # 1
    <3>1. f[c] = Join(f[c - 1], BlockOps(c))
      BY <1>5, <2>7
    <3>2. Join(f[c - 1], BlockOps(c)) \in Lists
      BY <2>4, <2>5, <2>7, Joins
    <3> QED BY <3>1, <3>2
  <2> QED BY <2>6, <2>7
<1>7. Layout(L)
  OBVIOUS
<1>8. \A c \in 0 .. Count : L[c] \in Lists
  BY <1>7 DEF Layout
\* the first c blocks, in front of what is behind block c
<1>9. \A c \in 1 .. Count : Join(f[c], L[c]) = L[0]
  <2> DEFINE T == {c \in 1 .. Count : Join(f[c], L[c]) # L[0]}
  <2>1. SUFFICES ASSUME T # {} PROVE FALSE
    OBVIOUS
  <2>2. T \in SUBSET Nat
    OBVIOUS
  <2>3. PICK c \in T : \A i \in T : c <= i
    BY <2>1, <2>2, NatLeast
  <2>4. BlockOps(c) \in Lists /\ Join(BlockOps(c), L[c]) = L[c - 1] /\ L[c] \in Lists
    BY <1>8, BlockOpsFacts
  <2>5. CASE c = 1
    BY <1>5, <2>4, <2>5
  <2>6. CASE c # 1
    <3>1. c - 1 \in 1 .. Count /\ Join(f[c - 1], L[c - 1]) = L[0] /\ f[c - 1] \in Lists
      BY <1>1, <1>6, <2>3, <2>6
    <3>2. f[c] = Join(f[c - 1], BlockOps(c))
      BY <1>5, <2>6
    <3>3. Join(f[c], L[c]) = Join(f[c - 1], Join(BlockOps(c), L[c]))
      BY <2>4, <3>1, <3>2, Associates
    <3> QED BY <2>4, <3>1, <3>3
  <2> QED BY <2>5, <2>6
<1>10. L[Count] = Behind /\ Count \in 1 .. Count
  BY <1>1, <1>7 DEF Layout
<1> QED BY <1>2, <1>3, <1>4, <1>6, <1>9, <1>10

\* What sd_readblock and sd_writeblock append to what they have yet to do.
Program_ == IF call.op = "read" THEN ReadOps(call.lba, Count) ELSE WriteOps(call.lba, Count)
HasLayout == \E L : Layout(L) /\ Append(Program_, <<"end">>) = StatusFrom(L)

LEMMA TransferProgram == IsTransfer => HasLayout
<1> SUFFICES ASSUME IsTransfer PROVE HasLayout
  OBVIOUS
<1>1. PICK L : Layout(L) /\ \A c \in 1 .. Count : L[c - 1] = AddBlock(c, L[c])
  BY LayoutExists
<1>2. Count \in Nat \ {0} /\ 1 \in 1 .. Count /\ scr.ccs \in BOOLEAN /\ scr.setblk \in BOOLEAN
  BY CountFacts
<1>3. PICK b \in Lists : b = FlattenSeq(Blockwise) /\ Join(b, Behind) = L[0]
  BY <1>1, BlocksLaidOut
<1>4. L[0] \in Lists /\ L[1] \in Lists /\ L[0] = AddBlock(1, L[1])
  BY <1>1, <1>2 DEF Layout
<1>5. PICK single : single = IF call.op = "read" THEN "READ_SINGLE" ELSE "WRITE_SINGLE"
  OBVIOUS
<1>6. PICK multi : multi = IF call.op = "read" THEN "READ_MULTI" ELSE "WRITE_MULTI"
  OBVIOUS
<1>7. PICK move : move = IF call.op = "read" THEN "get" ELSE "put"
  OBVIOUS
<1>8. PICK a \in Int : a = Addr(call.lba, 0)
  <2>1. Addr(call.lba, 1 - 1) \in Int
    BY <1>2, CountFacts
  <2> QED BY <2>1
<1>9. \A k \in {"READ_SINGLE", "READ_MULTI", "WRITE_SINGLE", "WRITE_MULTI", "BLOCKCNT"} :
        k \in Codes /\ k \notin AppCommands
  BY CodeFacts DEF AppCommands
\* the parts of the list
<1>10. PICK m \in Lists : m = MovesFrom(L, 1)
  BY <1>2, <1>4, AddBlockFacts DEF MovesFrom
<1>11. PICK x \in Lists : x = CmdFrom(L, 1)
  BY <1>2, <1>4, AddBlockFacts DEF CmdFrom, MovesFrom
<1>12. PICK code : code = IF Count = 1 THEN single ELSE multi
  OBVIOUS
<1>13. PICK c \in Lists : c = IF scr.ccs THEN Checked(code, a) ELSE <<>>
  <2>1. code \in Codes /\ code \notin AppCommands
    BY <1>5, <1>6, <1>9, <1>12
  <2> QED BY <2>1, PlainJoins, ThenFacts
<1>14. Join(c, L[0]) = x
  <2>1. CASE scr.ccs
    <3>1. code \in Codes /\ code \notin AppCommands
      BY <1>5, <1>6, <1>9, <1>12
    <3>2. Join(c, L[0]) = Command(code, a, Checks(L[0]))
      BY <1>4, <1>13, <2>1, <3>1, PlainJoins, Zenon DEF Join
    <3>3. L[0] = MovesFrom(L, 1)
      BY <1>4, <2>1, Zenon DEF AddBlock, MovesFrom
    <3>4. (Count > 1) <=> ~(Count = 1)
      BY <1>2
    <3>5. DataCommand(1) = <<"cmd", code, Addr(call.lba, 1 - 1), FALSE>>
      BY <1>5, <1>6, <1>12, <2>1, <3>4, Zenon DEF DataCommand
    <3>6. 1 - 1 = 0
      OBVIOUS
    <3>7. DataCommand(1) = <<"cmd", code, a, FALSE>>
      BY <1>8, <3>5, <3>6, Zenon
    <3> QED BY <1>11, <3>2, <3>3, <3>7, Zenon DEF CmdFrom, Command
  <2>2. CASE ~scr.ccs
    <3>1. Join(c, L[0]) = L[0]
      BY <1>4, <1>13, <2>2 DEF Join, Lists
    <3>2. L[0] = CmdFrom(L, 1)
      BY <1>4, <2>2, Zenon DEF AddBlock, CmdFrom, MovesFrom
    <3> QED BY <1>11, <3>1, <3>2
  <2> QED BY <2>1, <2>2
<1>15. PICK z \in Lists : z = << <<"blksize", IF scr.ccs THEN Count ELSE 1>> >>
                          /\ Join(z, x) = SizeFrom(L) /\ SizeFrom(L) \in Lists
  <2>0. PICK k \in Nat \ {0} : k = IF scr.ccs THEN Count ELSE 1
    BY <1>2
  <2>1. PICK o \in Steps : o = <<"blksize", IF scr.ccs THEN Count ELSE 1>>
    BY <2>0, StepFacts
  <2>2. <<o>> \in Lists /\ Join(<<o>>, x) = Then(o, x) /\ Then(o, x) \in Lists
    BY Ones, ThenFacts DEF Join, Then
  <2> QED BY <1>11, <2>1, <2>2, Zenon DEF SizeFrom
<1>16. PICK p \in Lists : /\ p = IF scr.ccs /\ Count > 1 /\ scr.setblk THEN Checked("BLOCKCNT", Count) ELSE <<>>
                          /\ Join(p, SizeFrom(L)) = IF Presets THEN Command("BLOCKCNT", Count, Checks(SizeFrom(L)))
                                                               ELSE SizeFrom(L)
  <2>1. "BLOCKCNT" \in Codes /\ "BLOCKCNT" \notin AppCommands /\ Count \in Int
    BY <1>2, <1>9
  <2>2. Checked("BLOCKCNT", Count) \in Lists
        /\ Join(Checked("BLOCKCNT", Count), SizeFrom(L)) = Command("BLOCKCNT", Count, Checks(SizeFrom(L)))
    BY <1>15, <2>1, PlainJoins, Zenon DEF Join
  <2>3. <<>> \in Lists /\ Join(<<>>, SizeFrom(L)) = SizeFrom(L)
    BY <1>15 DEF Join, Lists
  <2> QED BY <2>2, <2>3 DEF Presets
<1>17. PICK t \in Lists : t = << <<"status">> >> /\ \A r \in Lists : Join(t, r) = Then(<<"status">>, r)
  <2>1. PICK o \in Steps : o = <<"status">>
    BY StepFacts
  <2> QED BY <2>1, Ones, ThenFacts, Zenon DEF Join, Then
\* what is behind the blocks
<1>18. PICK e \in Lists : e = Ends /\ \A r \in Lists : Append(r, <<"end">>) = Join(r, e)
  <2>1. PICK o \in Steps : o = <<"end">>
    BY StepFacts
  <2>2. Ends = <<o>> /\ Ends \in Lists
    BY <2>1, Ones, ThenFacts, InitLists, Zenon DEF Ends
  <2> QED BY <2>1, <2>2, Ones, Zenon DEF Join
<1>19. PICK y \in Lists : y = StopOps(Count) /\ Join(y, e) = Stops
  <2>1. "STOP" \in Codes /\ 0 \in Int /\ "STOP" \notin AppCommands
    BY CodeFacts DEF AppCommands
  <2>2. Cmd("STOP", 0) \in Lists /\ <<>> \in Lists
    BY <2>1, PlainJoins, ThenFacts
  <2> QED BY <1>18, <2>2, Zenon DEF Join, Stops, StopOps
<1>20. PICK d \in Lists : d = << <<"done">> >> /\ \A r \in Lists : Join(d, r) = Then(<<"done">>, r)
  <2>1. PICK o \in Steps : o = <<"done">>
    BY StepFacts
  <2> QED BY <2>1, Ones, ThenFacts, Zenon DEF Join, Then
\* the transfer, whatever is behind it
<1>21. PICK w : w = Transfer(single, multi, move, call.lba, Count)
  OBVIOUS
<1>22. w = Join(Join(Join(Join(t, p), z), c), b)
  <2>1. Blockwise = [k \in 1 .. Count |-> (IF scr.ccs THEN <<>> ELSE Checked(single, Addr(call.lba, k - 1)))
                                           \o << <<move, k>> >>]
    BY <1>5, <1>7, Zenon DEF Blockwise, BlockOps, MoveOf
  <2> QED BY <1>3, <1>8, <1>12, <1>13, <1>15, <1>16, <1>17, <1>21, <2>1, Zenon DEF Transfer, Join
<1>23. w \in Lists
  BY <1>22, Joins
<1>24. Behind \in Lists /\ Stops \in Lists
  BY BehindFacts
<1>25. Join(w, Behind) = StatusFrom(L)
  <2>1. PICK u \in Lists : u = Join(Join(Join(t, p), z), c)
    BY Joins
  <2>2. Join(Join(u, b), Behind) = Join(u, L[0])
    BY <1>3, <1>24, Associates
  <2>3. Join(u, L[0]) = Join(t, Join(p, Join(z, Join(c, L[0]))))
    <3>1. PICK v \in Lists : v = Join(Join(t, p), z)
      BY Joins
    <3>2. PICK q \in Lists : q = Join(c, L[0])
      BY <1>4, Joins
    <3>3. PICK i \in Lists : i = Join(t, p)
      BY Joins
    <3>4. PICK j \in Lists : j = Join(z, q)
      BY Joins
    <3>5. Join(u, L[0]) = Join(v, q)
      BY <1>4, <2>1, <3>1, <3>2, Associates
    <3>6. Join(v, q) = Join(i, j)
      BY <3>1, <3>3, <3>4, Associates
    <3>7. Join(i, j) = Join(t, Join(p, j))
      BY <3>3, Associates
    <3> QED BY <3>2, <3>4, <3>5, <3>6, <3>7, Zenon
  <2>4. Join(z, Join(c, L[0])) = SizeFrom(L)
    BY <1>14, <1>15
  <2>5. PICK r \in Lists : r = Join(p, SizeFrom(L))
    BY <1>15, Joins
  <2>6. Join(w, Behind) = Then(<<"status">>, r)
    BY <1>17, <1>22, <2>1, <2>2, <2>3, <2>4, <2>5
  <2> QED BY <1>16, <2>5, <2>6, Zenon DEF StatusFrom
<1>26. CASE call.op = "read"
  <2>1. Program_ = Join(w, y)
    BY <1>5, <1>6, <1>7, <1>19, <1>21, <1>26, Zenon DEF Program_, ReadOps, Join
  <2>2. Behind = Join(y, e)
    BY <1>19, <1>26 DEF Behind
  <2>3. Append(Program_, <<"end">>) = Join(Join(w, y), e)
    BY <1>18, <1>23, <2>1, Joins
  <2>4. Join(Join(w, y), e) = Join(w, Behind)
    BY <1>23, <2>2, Joins
  <2> QED BY <1>1, <1>25, <2>3, <2>4, Zenon DEF HasLayout
<1>27. CASE call.op # "read"
  <2>1. Program_ = Join(Join(w, d), y)
    <3>1. single = "WRITE_SINGLE" /\ multi = "WRITE_MULTI" /\ move = "put"
      BY <1>5, <1>6, <1>7, <1>27
    <3> QED BY <1>19, <1>20, <1>21, <1>27, <3>1, Zenon DEF Program_, WriteOps, Join
  <2>2. Behind = Join(d, Join(y, e))
    BY <1>19, <1>20, <1>24, <1>27 DEF Behind
  <2>3. Append(Program_, <<"end">>) = Join(Join(Join(w, d), y), e)
    BY <1>18, <1>23, <2>1, Joins
  <2>4. Join(Join(Join(w, d), y), e) = Join(w, Join(d, Join(y, e)))
    <3>1. Join(Join(Join(w, d), y), e) = Join(Join(w, d), Join(y, e))
      <4>1. Join(w, d) \in Lists
        BY <1>23, Joins
      <4> QED BY <4>1, Associates
    <3>2. Join(Join(w, d), Join(y, e)) = Join(w, Join(d, Join(y, e)))
      <4>1. Join(y, e) \in Lists
        BY Joins
      <4> QED BY <1>23, <4>1, Associates
    <3> QED BY <3>1, <3>2
  <2> QED BY <1>1, <1>25, <2>2, <2>3, <2>4, Zenon DEF HasLayout
<1> QED BY <1>26, <1>27

-----------------------------------------------------------------------------
(* What the card does with a command.                                      *)

ReadCodes  == {"READ_SINGLE", "READ_MULTI"}
WriteCodes == {"WRITE_SINGLE", "WRITE_MULTI"}

\* r is what the card may do with command c and argument a, one case for each command.
Reacts(c, a, r) ==
  \/ c = "GO_IDLE" /\ r = <<Card("idle"), "">>
  \/ c = "IF_COND" /\ card.st = "idle" /\ r = <<To("idle"), "">>
  \/ c = "APP" /\ card.st \in {"idle", "tran"} /\ r = <<[card EXCEPT !.app = TRUE], "app">>
  \/ c = "OP_COND" /\ card.st = "idle" /\ r[2] \in Starts /\ (r[2] = "" => busy < MaxBusy)
     /\ r[1] \in {To("idle"), To("ready")}
  \/ c = "ALL_SEND_CID" /\ r = <<To("ident"), "">>
  \/ c = "SEND_REL_ADDR" /\ r = <<To("stby"), "rca">>
  \/ c = "CARD_SELECT" /\ r = <<To("tran"), "">>
  \/ c = "SCR" /\ r = <<[Moves("data", 0, 1) EXCEPT !.pos = -1], "">>
  \/ c = "WIDTH" /\ card.st = "tran" /\ r = <<[To("tran") EXCEPT !.wide = TRUE], "">>
  \/ c = "BLOCKCNT" /\ card.st = "tran" /\ r = <<[To("tran") EXCEPT !.preset = a], "">>
  \/ c \in ReadCodes /\ r[2] = "" /\ \E k \in Int : r[1] = Moves("data", a, k)
  \/ c \in WriteCodes /\ r[2] = "" /\ \E k \in Int : r[1] = Moves("rcv", a, k)
  \/ c = "STOP" /\ r = <<To("tran"), "">>

LEMMA CardReacts ==
  ASSUME card \in CardTypes, NEW c, NEW a, NEW r \in Reactions(c, a)
  PROVE  Reacts(c, a, r)
<1>0. card.preset \in Int /\ 1 \in Int
  BY DEF CardTypes
<1>1. CASE c = "GO_IDLE"
  BY <1>1 DEF Reactions, Reacts
<1>2. CASE c = "IF_COND"
  BY <1>2 DEF Reactions, Reacts
<1>3. CASE c = "APP"
  BY <1>3 DEF Reactions, Reacts
<1>4. CASE c = "OP_COND"
  <2>1. Reactions(c, a) = IF card.app /\ card.st = "idle"
          THEN {<<To(IF s = "" THEN "idle" ELSE "ready"), s>> : s \in {s \in Starts : s = "" => busy < MaxBusy}}
          ELSE {}
    BY <1>4 DEF Reactions
  <2>2. r \in IF card.app /\ card.st = "idle"
          THEN {<<To(IF s = "" THEN "idle" ELSE "ready"), s>> : s \in {s \in Starts : s = "" => busy < MaxBusy}}
          ELSE {}
    BY <2>1, Zenon
  <2>3. card.st = "idle"
        /\ r \in {<<To(IF s = "" THEN "idle" ELSE "ready"), s>> : s \in {s \in Starts : s = "" => busy < MaxBusy}}
    BY <2>2, Zenon
  <2>4. PICK s \in Starts : (s = "" => busy < MaxBusy) /\ r = <<To(IF s = "" THEN "idle" ELSE "ready"), s>>
    BY <2>3, Zenon
  <2>5. r[2] = s /\ r[1] \in {To("idle"), To("ready")}
    BY <2>4
  <2> QED BY <1>4, <2>3, <2>4, <2>5, Zenon DEF Reacts
<1>5. CASE c = "ALL_SEND_CID"
  BY <1>5 DEF Reactions, Reacts
<1>6. CASE c = "SEND_REL_ADDR"
  BY <1>6 DEF Reactions, Reacts
<1>7. CASE c = "CARD_SELECT"
  BY <1>7 DEF Reactions, Reacts
<1>8. CASE c = "SCR"
  BY <1>8 DEF Reactions, Reacts
<1>9. CASE c = "WIDTH"
  BY <1>9 DEF Reactions, Reacts
<1>10. CASE c = "BLOCKCNT"
  BY <1>10 DEF Reactions, Reacts
<1>11. CASE c \in ReadCodes
  <2>1. CASE c = "READ_SINGLE"
    <3>1. Reactions(c, a) = IF card.st = "tran" THEN {<<Moves("data", a, 1), "">>} ELSE {}
      BY <2>1 DEF Reactions
    <3>2. r \in IF card.st = "tran" THEN {<<Moves("data", a, 1), "">>} ELSE {}
      BY <3>1, Zenon
    <3>3. r = <<Moves("data", a, 1), "">>
      BY <3>2, Zenon
    <3>4. r[1] = Moves("data", a, 1) /\ r[2] = ""
      BY <3>3
    <3> QED BY <1>0, <1>11, <3>4 DEF Reacts
  <2>2. CASE c = "READ_MULTI"
    <3>1. Reactions(c, a) = IF card.st = "tran" THEN {<<Moves("data", a, card.preset), "">>} ELSE {}
      BY <2>2 DEF Reactions
    <3>2. r \in IF card.st = "tran" THEN {<<Moves("data", a, card.preset), "">>} ELSE {}
      BY <3>1, Zenon
    <3>3. r = <<Moves("data", a, card.preset), "">>
      BY <3>2, Zenon
    <3>4. r[1] = Moves("data", a, card.preset) /\ r[2] = ""
      BY <3>3
    <3> QED BY <1>0, <1>11, <3>4 DEF Reacts
  <2> QED BY <1>11, <2>1, <2>2 DEF ReadCodes
<1>12. CASE c \in WriteCodes
  <2>1. CASE c = "WRITE_SINGLE"
    <3>1. Reactions(c, a) = IF card.st = "tran" THEN {<<Moves("rcv", a, 1), "">>} ELSE {}
      BY <2>1 DEF Reactions
    <3>2. r \in IF card.st = "tran" THEN {<<Moves("rcv", a, 1), "">>} ELSE {}
      BY <3>1, Zenon
    <3>3. r = <<Moves("rcv", a, 1), "">>
      BY <3>2, Zenon
    <3>4. r[1] = Moves("rcv", a, 1) /\ r[2] = ""
      BY <3>3
    <3> QED BY <1>0, <1>12, <3>4 DEF Reacts
  <2>2. CASE c = "WRITE_MULTI"
    <3>1. Reactions(c, a) = IF card.st = "tran" THEN {<<Moves("rcv", a, card.preset), "">>} ELSE {}
      BY <2>2 DEF Reactions
    <3>2. r \in IF card.st = "tran" THEN {<<Moves("rcv", a, card.preset), "">>} ELSE {}
      BY <3>1, Zenon
    <3>3. r = <<Moves("rcv", a, card.preset), "">>
      BY <3>2, Zenon
    <3>4. r[1] = Moves("rcv", a, card.preset) /\ r[2] = ""
      BY <3>3
    <3> QED BY <1>0, <1>12, <3>4 DEF Reacts
  <2> QED BY <1>12, <2>1, <2>2 DEF WriteCodes
<1>13. CASE c = "STOP"
  BY <1>13 DEF Reactions, Reacts
<1> QED BY <1>1, <1>2, <1>3, <1>4, <1>5, <1>6, <1>7, <1>8, <1>9, <1>10, <1>11, <1>12, <1>13
        DEF Reactions, ReadCodes, WriteCodes

\* Where a step leaves the card.
LEMMA CardMoves ==
  ASSUME card \in CardTypes, NEW st \in CardStates
  PROVE  /\ Card(st) \in CardTypes /\ Card(st).st = st /\ ~Card(st).wide
         /\ To(st) \in CardTypes /\ To(st).st = st /\ To(st).wide = card.wide /\ To(st).pos = card.pos
         /\ \A a \in Int, k \in Int :
              LET m == Moves(st, a, k)
              IN m \in CardTypes /\ m.st = st /\ m.wide = card.wide /\ m.pos = Block(a) /\ m.left = k
<1>1. Open \in Int /\ 0 \in Int
  BY DEF Open
<1>2. Card(st) \in CardTypes /\ Card(st).st = st /\ ~Card(st).wide
  BY <1>1 DEF Card, CardTypes
<1>3. To(st) \in CardTypes /\ To(st).st = st /\ To(st).wide = card.wide /\ To(st).pos = card.pos
  BY DEF To, CardTypes
<1>4. ASSUME NEW a \in Int, NEW k \in Int
      PROVE  LET m == Moves(st, a, k)
             IN m \in CardTypes /\ m.st = st /\ m.wide = card.wide /\ m.pos = Block(a) /\ m.left = k
  <2>1. Block(a) \in Int
    BY SdAssumption DEF Block
  <2>2. PICK t \in CardTypes : t = To(st)
    BY <1>3
  <2>3. Moves(st, a, k) = [t EXCEPT !.pos = Block(a), !.left = k, !.preset = Open]
    BY <2>2 DEF Moves
  <2>4. t.st = st /\ t.wide = card.wide
    BY <1>3, <2>2
  <2> QED BY <1>1, <2>1, <2>3, <2>4 DEF CardTypes
<1> QED BY <1>2, <1>3, <1>4

\* The card after a command's reaction.
LEMMA ReactionCards ==
  ASSUME card \in CardTypes, NEW c, NEW a \in Int, NEW r, Reacts(c, a, r)
  PROVE  /\ r[1] \in CardTypes /\ c \in Codes
         /\ c \notin WriteCodes => r[1].st # "rcv" 
         /\ c \notin ReadCodes \cup {"SCR"} => r[1].st # "data"
         /\ r[1].wide => card.wide \/ c = "WIDTH"
<1> DEFINE Goal == /\ r[1] \in CardTypes /\ c \in Codes
                   /\ c \notin WriteCodes => r[1].st # "rcv"
                   /\ c \notin ReadCodes \cup {"SCR"} => r[1].st # "data"
                   /\ r[1].wide => card.wide \/ c = "WIDTH"
<1>0. \A st \in {"idle", "ready", "ident", "stby", "tran", "data", "rcv"} : st \in CardStates
  BY DEF CardStates
<1>1. CASE c = "GO_IDLE" /\ r = <<Card("idle"), "">>
  BY <1>0, <1>1, CardMoves DEF Codes
<1>2. CASE c = "IF_COND" /\ r = <<To("idle"), "">>
  BY <1>0, <1>2, CardMoves DEF Codes
<1>3. CASE c = "APP" /\ card.st \in {"idle", "tran"} /\ r = <<[card EXCEPT !.app = TRUE], "app">>
  BY <1>3 DEF CardTypes, CardStates, Codes
<1>4. CASE c = "OP_COND" /\ r[1] \in {To("idle"), To("ready")}
  BY <1>0, <1>4, CardMoves DEF Codes
<1>5. CASE c = "ALL_SEND_CID" /\ r = <<To("ident"), "">>
  BY <1>0, <1>5, CardMoves DEF Codes
<1>6. CASE c = "SEND_REL_ADDR" /\ r = <<To("stby"), "rca">>
  BY <1>0, <1>6, CardMoves DEF Codes
<1>7. CASE c = "CARD_SELECT" /\ r = <<To("tran"), "">>
  BY <1>0, <1>7, CardMoves DEF Codes
<1>8. CASE c = "SCR" /\ r = <<[Moves("data", 0, 1) EXCEPT !.pos = -1], "">>
  <2>1. PICK m \in CardTypes : m = Moves("data", 0, 1) /\ m.st = "data" /\ m.wide = card.wide
    BY <1>0, CardMoves
  <2>2. r[1] = [m EXCEPT !.pos = -1]
    BY <1>8, <2>1
  <2>3. r[1] \in CardTypes /\ r[1].st = "data" /\ r[1].wide = card.wide
    BY <2>1, <2>2 DEF CardTypes
  <2>4. "SCR" \in Codes
    BY DEF Codes
  <2> QED BY <1>8, <2>3, <2>4
<1>9. CASE c = "WIDTH" /\ r = <<[To("tran") EXCEPT !.wide = TRUE], "">>
  <2>1. PICK m \in CardTypes : m = To("tran") /\ m.st = "tran" /\ m.wide = card.wide
    BY <1>0, CardMoves
  <2>2. r[1] = [m EXCEPT !.wide = TRUE]
    BY <1>9, <2>1
  <2> QED BY <1>9, <2>1, <2>2 DEF CardTypes, Codes
<1>10. CASE c = "BLOCKCNT" /\ r = <<[To("tran") EXCEPT !.preset = a], "">>
  <2>1. PICK m \in CardTypes : m = To("tran") /\ m.st = "tran" /\ m.wide = card.wide
    BY <1>0, CardMoves
  <2>2. r[1] = [m EXCEPT !.preset = a]
    BY <1>10, <2>1
  <2> QED BY <1>10, <2>1, <2>2 DEF CardTypes, Codes
<1>11. CASE c \in ReadCodes /\ \E k \in Int : r[1] = Moves("data", a, k)
  BY <1>0, <1>11, CardMoves DEF ReadCodes, WriteCodes, Codes
<1>12. CASE c \in WriteCodes /\ \E k \in Int : r[1] = Moves("rcv", a, k)
  BY <1>0, <1>12, CardMoves DEF ReadCodes, WriteCodes, Codes
<1>13. CASE c = "STOP" /\ r = <<To("tran"), "">>
  BY <1>0, <1>13, CardMoves DEF Codes
<1> QED BY <1>1, <1>2, <1>3, <1>4, <1>5, <1>6, <1>7, <1>8, <1>9, <1>10, <1>11, <1>12, <1>13 DEF Reacts

\* And what it answers.
LEMMA ReactionAnswers ==
  ASSUME NEW c, NEW a, NEW r, Reacts(c, a, r)
  PROVE  r[2] \in Starts \/ r[2] \in {"", "app", "rca"}
<1>1. CASE c = "APP" /\ r = <<[card EXCEPT !.app = TRUE], "app">>
  BY <1>1
<1>2. CASE c = "SEND_REL_ADDR" /\ r = <<To("stby"), "rca">>
  BY <1>2
<1>3. ASSUME NEW x, r = <<x, "">>
      PROVE  r[2] = ""
  BY <1>3
<1> QED BY <1>1, <1>2, <1>3 DEF Reacts

\* A command was taken and its answer came, or it or its answer was lost.
Taken(c, a) ==
  \E r \in Reactions(c, a) :
    /\ card' = r[1] /\ reply' = r[2] /\ intr' = intr \union {"CMD"}
    /\ busy' = busy + (IF c = "OP_COND" /\ r[2] = "" THEN 1 ELSE 0)
    /\ more' = IF c \in DataCommands THEN (IF c \in Multis THEN blk ELSE 1) ELSE more
    /\ dat' = (dat \/ c \in DataCommands)
Lost(c, a) ==
  /\ intr' = intr \union {"ERR"} /\ dat' = dat /\ more' = more /\ reply' \in {"", reply}
  /\ \/ card' = card /\ busy' = busy
     \/ \E r \in Reactions(c, a) :
          card' = r[1] /\ busy' = busy + (IF c = "OP_COND" /\ r[2] = "" THEN 1 ELSE 0)
Responds(c, a) ==
  /\ inflight = <<c, a>> /\ inflight' = None /\ (c \in DataCommands => ~dat)
  /\ faults' = faults \/ Fault
  /\ UNCHANGED <<kind, disk, blk, fifo, dead, software>>
  /\ Taken(c, a) \/ Lost(c, a)

LEMMA RespondCases ==
  ASSUME ChipTypes, Respond
  PROVE  \E c \in Codes, a \in Int : Responds(c, a)
<1>1. PICK c \in Codes, a \in Int : inflight = <<c, a>>
  BY DEF ChipTypes, Respond
<1>2. inflight[1] = c /\ inflight[2] = a
  BY <1>1
<1>3. /\ inflight' = None /\ (c \in DataCommands => ~dat)
      /\ UNCHANGED <<kind, disk, blk, fifo, dead, software>>
  BY <1>2, Zenon DEF Respond
<1>4. PICK lost \in BOOLEAN :
        /\ IF lost THEN Fault ELSE faults' = faults
        /\ \/ \E r \in Reactions(c, a) :
                /\ card' = r[1]
                /\ busy' = busy + (IF c = "OP_COND" /\ r[2] = "" THEN 1 ELSE 0)
                /\ reply' = IF lost THEN "" ELSE r[2]
                /\ more' = IF c \in DataCommands /\ ~lost
                             THEN (IF c \in Multis THEN blk ELSE 1) ELSE more
                /\ dat' = (dat \/ (c \in DataCommands /\ ~lost))
                /\ intr' = intr \union {IF lost THEN "ERR" ELSE "CMD"}
           \/ /\ Reactions(c, a) = {} \/ lost
              /\ intr' = intr \union {"ERR"} /\ UNCHANGED <<card, busy, reply, dat, more>>
  BY <1>2, Zenon DEF Respond, Multis
<1>5. faults' = faults \/ Fault
  BY <1>4, Zenon
<1>6. CASE intr' = intr \union {"ERR"} /\ UNCHANGED <<card, busy, reply, dat, more>>
  <2>1. Lost(c, a)
    BY <1>6 DEF Lost
  <2> QED BY <1>1, <1>3, <1>5, <2>1, Zenon DEF Responds
<1>7. ASSUME NEW r \in Reactions(c, a),
             card' = r[1], busy' = busy + (IF c = "OP_COND" /\ r[2] = "" THEN 1 ELSE 0),
             reply' = IF lost THEN "" ELSE r[2],
             more' = IF c \in DataCommands /\ ~lost THEN (IF c \in Multis THEN blk ELSE 1) ELSE more,
             dat' = (dat \/ (c \in DataCommands /\ ~lost)),
             intr' = intr \union {IF lost THEN "ERR" ELSE "CMD"}
      PROVE  Taken(c, a) \/ Lost(c, a)
  <2>1. CASE lost
    <3>1. dat' = dat /\ more' = more /\ reply' \in {"", reply} /\ intr' = intr \union {"ERR"}
      BY <1>7, <2>1 DEF ChipTypes
    <3> QED BY <1>7, <3>1, Zenon DEF Lost
  <2>2. CASE ~lost
    <3>1. /\ reply' = r[2] /\ intr' = intr \union {"CMD"} /\ dat' = (dat \/ c \in DataCommands)
          /\ more' = IF c \in DataCommands THEN (IF c \in Multis THEN blk ELSE 1) ELSE more
      BY <1>7, <2>2, Zenon
    <3> QED BY <1>7, <3>1, Zenon DEF Taken
  <2> QED BY <2>1, <2>2
<1>8. \/ Taken(c, a) \/ Lost(c, a)
      \/ intr' = intr \union {"ERR"} /\ UNCHANGED <<card, busy, reply, dat, more>>
  BY <1>4, <1>7, Zenon
<1> QED BY <1>1, <1>3, <1>5, <1>6, <1>8, Zenon DEF Responds

\* The driver's part of the invariant, when the driver stands still.
DriverKnows ==
  /\ started => scr.ccs = kind.ccs
  /\ phase = "wait" => Is("cmd")
  /\ call.op = "none" => Ended
  /\ call.op \in {"read", "write"} => started /\ call.lba + Count <= Sectors
  /\ call.op = "init" /\ ~Ended => ~started
  /\ call.op = "write" => \A c \in 1 .. Count : <<call.lba + c - 1, <<calls, c>>>> \in asked
ChipKnows ==
  /\ reply \in {"complete", "complete ccs"} => reply = IF kind.ccs THEN "complete ccs" ELSE "complete"
  /\ card.wide => kind.wide
  /\ Inflight("WIDTH") => kind.wide
  /\ \A c \in Multis : Inflight(c) => blk > 0
LEMMA KnownParts == KnownInv <=> DriverKnows /\ ChipKnows
  BY DEF KnownInv, DriverKnows, ChipKnows

LEMMA DriverStands ==
  ASSUME DriverTypes, DriverKnows, UNCHANGED <<kind, software>>
  PROVE  DriverTypes' /\ DriverKnows'
<1>1. DriverTypes'
  BY DEF DriverTypes, software
<1>2. UNCHANGED <<kind, started, scr, phase, todo, call, calls, asked>>
  BY DEF software
<1>3. DriverKnows'
  BY <1>2, Zenon DEF DriverKnows, Is, Op, Ended, Count
<1> QED BY <1>1, <1>3

LEMMA NothingInflight ==
  ASSUME inflight' = None
  PROVE  \A c : ~Inflight(c)'
  BY DEF Inflight

LEMMA RespondBase ==
  ASSUME Base, NEW c \in Codes, NEW a \in Int, Responds(c, a)
  PROVE  ChipTypes' /\ FifoInv' /\ ChipKnows'
<1>1. /\ ChipTypes /\ FifoInv /\ ChipKnows /\ card \in CardTypes
      /\ inflight = <<c, a>> /\ inflight' = None /\ (c \in DataCommands => ~dat)
      /\ UNCHANGED <<kind, disk, blk, fifo, dead, asked>>
  BY KnownParts DEF Base, TypeInv, ChipTypes, Responds, software
<1>2. Inflight(c) /\ \A d : Inflight(d) => d = c
  BY <1>1 DEF Inflight, None
<1>3. card' \in CardTypes /\ (card' = card \/ \E r \in Reactions(c, a) : Reacts(c, a, r) /\ card' = r[1])
  <2>1. card' = card \/ \E r \in Reactions(c, a) : card' = r[1]
    BY Zenon DEF Responds, Taken, Lost
  <2>2. \A r \in Reactions(c, a) : Reacts(c, a, r) /\ r[1] \in CardTypes
    BY <1>1, CardReacts, ReactionCards
  <2> QED BY <1>1, <2>1, <2>2
<1>4. /\ card'.wide => card.wide \/ c = "WIDTH"
      /\ card'.st = "rcv" => card' = card \/ c \in WriteCodes
      /\ card'.st = "data" => card' = card \/ c \in ReadCodes \union {"SCR"}
  BY <1>1, <1>3, ReactionCards
<1>5. /\ more' \in Nat /\ dat' \in BOOLEAN /\ (dat => dat')
      /\ c \notin DataCommands => more' = more /\ dat' = dat
      /\ c \in DataCommands => fifo = None
  <2>1. more \in Nat /\ dat \in BOOLEAN /\ blk \in Nat
    BY <1>1 DEF ChipTypes
  <2>2. \/ more' = more /\ dat' = dat
        \/ c \in DataCommands /\ more' \in {blk, 1} /\ dat' = TRUE
    <3>1. \/ more' = more /\ dat' = dat
          \/ /\ more' = IF c \in DataCommands THEN (IF c \in Multis THEN blk ELSE 1) ELSE more
             /\ dat' = (dat \/ c \in DataCommands)
      BY Zenon DEF Responds, Taken, Lost
    <3>2. CASE c \in DataCommands
      BY <2>1, <3>1, <3>2, Zenon
    <3>3. CASE c \notin DataCommands
      BY <2>1, <3>1, <3>3, Zenon
    <3> QED BY <3>2, <3>3
  <2>3. c \in DataCommands => fifo = None
    BY <1>1 DEF FifoInv
  <2>4. more' \in Nat
    BY <2>1, <2>2
  <2>5. dat' \in BOOLEAN /\ (dat => dat')
    BY <2>1, <2>2, Zenon
  <2>6. c \notin DataCommands => more' = more /\ dat' = dat
    BY <2>2, Zenon
  <2> QED BY <2>3, <2>4, <2>5, <2>6
<1>6. intr' = intr \union {"CMD"} \/ intr' = intr \union {"ERR"}
  BY Zenon DEF Responds, Taken, Lost
<1>7. busy' \in Nat /\ busy' <= MaxBusy
  <2>1. busy \in Nat /\ busy <= MaxBusy /\ MaxBusy \in Nat
    BY <1>1, SdAssumption DEF ChipTypes
  <2>2. \/ busy' = busy
        \/ \E r \in Reactions(c, a) : busy' = busy + (IF c = "OP_COND" /\ r[2] = "" THEN 1 ELSE 0)
    BY Zenon DEF Responds, Taken, Lost
  <2>3. \A r \in Reactions(c, a) : c = "OP_COND" /\ r[2] = "" => busy < MaxBusy
    <3>1. \A r \in Reactions(c, a) : Reacts(c, a, r)
      BY <1>1, CardReacts
    <3> QED BY <3>1 DEF Reacts, ReadCodes, WriteCodes
  <2>4. CASE busy' = busy
    BY <2>1, <2>4
  <2>5. ASSUME NEW r \in Reactions(c, a), busy' = busy + (IF c = "OP_COND" /\ r[2] = "" THEN 1 ELSE 0)
        PROVE  busy' \in Nat /\ busy' <= MaxBusy
    <3>1. CASE c = "OP_COND" /\ r[2] = ""
      <4>1. busy' = busy + 1 /\ busy < MaxBusy
        BY <2>3, <2>5, <3>1, Zenon
      <4> QED BY <2>1, <4>1
    <3>2. CASE ~(c = "OP_COND" /\ r[2] = "")
      <4>1. busy' = busy + 0
        BY <2>5, <3>2, Zenon
      <4> QED BY <2>1, <4>1
    <3> QED BY <3>1, <3>2
  <2> QED BY <2>2, <2>4, <2>5
<1>8. ChipTypes'
  <2>1. faults' \in Nat /\ faults' <= MaxFault
    BY <1>1, SdAssumption DEF Responds, ChipTypes, Fault
  <2> QED BY <1>1, <1>3, <1>5, <1>6, <1>7, <2>1 DEF ChipTypes, Kinds, Lbas
<1>9. FifoInv'
  <2>1. fifo' # None => dat'
    BY <1>1, <1>5 DEF FifoInv
  <2>2. "READ" \in intr' => fifo' # None
    BY <1>1, <1>6 DEF FifoInv
  <2>3. card'.st = "rcv" /\ fifo' # None => "READ" \notin intr' /\ <<card'.pos, fifo'>> \in asked'
    <3>1. c \in WriteCodes => c \in DataCommands
      BY DEF WriteCodes, DataCommands
    <3> QED BY <1>1, <1>4, <1>5, <1>6, <3>1 DEF FifoInv
  <2>4. "WRITE" \in intr' /\ "ERR" \notin intr' => dat' /\ more' > 0 /\ fifo' = None /\ card'.st # "data"
    <3>1. c \in ReadCodes \union {"SCR"} => c \in DataCommands
      BY DEF ReadCodes, DataCommands
    <3> QED BY <1>1, <1>4, <1>5, <1>6, <3>1 DEF FifoInv
  <2>5. WritesInPlace'
    BY <1>1, Zenon DEF FifoInv, WritesInPlace
  <2> QED BY <2>1, <2>2, <2>3, <2>4, <2>5, Zenon DEF FifoInv
<1>10. ChipKnows'
  <2>1. reply' \in {"complete", "complete ccs"} => reply' = IF kind.ccs THEN "complete ccs" ELSE "complete"
    <3>1. reply' \in {"", reply} \/ \E r \in Reactions(c, a) : reply' = r[2]
      BY Zenon DEF Responds, Taken, Lost
    <3>2. ASSUME NEW r \in Reactions(c, a), r[2] \in {"complete", "complete ccs"}
          PROVE  r[2] \in Starts
      <4>1. Reacts(c, a, r)
        BY <1>1, CardReacts
      <4> QED BY <3>2, <4>1, ReactionAnswers
    <3> QED BY <1>1, <3>1, <3>2 DEF ChipKnows, Starts
  <2>2. card'.wide => kind.wide
    BY <1>1, <1>2, <1>4 DEF ChipKnows
  <2>3. \A d : ~Inflight(d)'
    BY <1>1, NothingInflight
  <2>4. kind' = kind
    BY <1>1
  <2> QED BY <2>1, <2>2, <2>3, <2>4, Zenon DEF ChipKnows
<1> QED BY <1>8, <1>9, <1>10

LEMMA CardStands ==
  ASSUME ChipKnows, card'.wide = card.wide, UNCHANGED <<kind, reply, inflight, blk>>
  PROVE  ChipKnows'
BY Zenon DEF ChipKnows, Inflight

LEMMA OneMovedFacts ==
  ASSUME card \in CardTypes
  PROVE  LET m == OneMoved("tran")
         IN /\ m \in CardTypes /\ m.wide = card.wide /\ m.pos = card.pos + 1
            /\ m.st = IF card.left = 1 THEN "tran" ELSE card.st
<1>1. Open \in Int /\ "tran" \in CardStates
  BY DEF Open, CardStates
<1>2. PICK p \in Int, k \in Int, s \in CardStates :
        /\ p = card.pos + 1 /\ k = (IF card.left = Open THEN card.left ELSE card.left - 1)
        /\ s = IF card.left = 1 THEN "tran" ELSE card.st
  BY <1>1 DEF CardTypes
<1>3. OneMoved("tran") = [card EXCEPT !.pos = p, !.left = k, !.st = s]
  BY <1>2, Zenon DEF OneMoved
<1>4. /\ OneMoved("tran") \in CardTypes /\ OneMoved("tran").wide = card.wide
      /\ OneMoved("tran").pos = p /\ OneMoved("tran").st = s
  BY <1>3 DEF CardTypes
<1> QED BY <1>2, <1>4

LEMMA SupplyBase ==
  ASSUME Base, Supply
  PROVE  ChipTypes' /\ FifoInv' /\ ChipKnows'
<1>1. /\ ChipTypes /\ FifoInv /\ ChipKnows /\ card \in CardTypes
      /\ UNCHANGED <<kind, disk, busy, inflight, reply, dat, blk, dead, faults, asked>>
      /\ dat /\ card.st = "data" /\ more > 0 /\ more \in Nat /\ fifo = None /\ InTouch
      /\ intr' = intr \union {"READ"} /\ more' = more - 1 /\ card' = OneMoved("tran")
  BY KnownParts DEF Base, TypeInv, ChipTypes, Supply, software
<1>2. card' \in CardTypes /\ card'.wide = card.wide /\ card'.st \in {"data", "tran"}
  BY <1>1, OneMovedFacts
<1>3. fifo' # None
  <2>1. fifo' = IF card.pos = -1 THEN <<"scr">> ELSE disk[card.pos]
    BY DEF Supply
  <2>2. CASE card.pos = -1
    BY <2>1, <2>2 DEF None
  <2>3. CASE card.pos # -1
    <3>1. disk[card.pos] \in Values
      BY <1>1, <2>3 DEF InTouch, ChipTypes
    <3>2. \A v \in Values : v # <<>>
      BY DEF Values
    <3> QED BY <2>1, <2>3, <3>1, <3>2 DEF None
  <2> QED BY <2>2, <2>3
<1>4. ChipTypes'
  <2>1. more' \in Nat
    BY <1>1
  <2> QED BY <1>1, <1>2, <2>1 DEF ChipTypes, Kinds, Lbas
<1>5. FifoInv'
  <2>1. WritesInPlace'
    BY <1>1, Zenon DEF FifoInv, WritesInPlace
  <2>2. ~("WRITE" \in intr' /\ "ERR" \notin intr') /\ ~(card'.st = "rcv")
    BY <1>1, <1>2 DEF FifoInv
  <2> QED BY <1>1, <1>3, <2>1, <2>2 DEF FifoInv
<1>6. ChipKnows'
  BY <1>1, <1>2, CardStands
<1> QED BY <1>4, <1>5, <1>6

LEMMA AskForBlockBase ==
  ASSUME Base, AskForBlock
  PROVE  ChipTypes' /\ FifoInv' /\ ChipKnows'
<1>1. /\ ChipTypes /\ FifoInv /\ ChipKnows
      /\ UNCHANGED <<kind, disk, card, busy, inflight, reply, dat, blk, more, fifo, dead, faults, asked>>
      /\ dat /\ card.st = "rcv" /\ more > 0 /\ fifo = None /\ intr' = intr \union {"WRITE"}
  BY KnownParts DEF Base, TypeInv, AskForBlock, software
<1>2. ChipTypes'
  BY <1>1 DEF ChipTypes, Kinds, CardTypes, Lbas
<1>3. FifoInv'
  <2>1. WritesInPlace'
    BY <1>1, Zenon DEF FifoInv, WritesInPlace
  <2> QED BY <1>1, <2>1 DEF FifoInv
<1>4. ChipKnows'
  BY <1>1, CardStands
<1> QED BY <1>2, <1>3, <1>4

LEMMA ProgramBase ==
  ASSUME Base, Program
  PROVE  ChipTypes' /\ FifoInv' /\ ChipKnows'
<1>1. /\ ChipTypes /\ FifoInv /\ ChipKnows /\ card \in CardTypes
      /\ UNCHANGED <<kind, busy, inflight, reply, intr, dat, blk, dead, faults, asked>>
      /\ dat /\ card.st = "rcv" /\ more > 0 /\ more \in Nat /\ fifo # None
      /\ fifo' = None /\ more' = more - 1 /\ card' = OneMoved("tran")
      /\ disk' = [disk EXCEPT ![card.pos] = fifo] /\ disk \in [Lbas -> Values]
  BY KnownParts DEF Base, TypeInv, ChipTypes, Program, software
<1>2. card' \in CardTypes /\ card'.wide = card.wide
  BY <1>1, OneMovedFacts
<1>3. <<card.pos, fifo>> \in asked /\ "READ" \notin intr /\ ~("WRITE" \in intr /\ "ERR" \notin intr)
  BY <1>1 DEF FifoInv
<1>4. fifo \in Values
  <2>1. \A w \in asked : w[2] \in Values
    BY DEF Base, TypeInv, DriverTypes
  <2>2. <<card.pos, fifo>>[2] = fifo
    OBVIOUS
  <2> QED BY <1>3, <2>1, <2>2, Zenon
<1>5. disk' \in [Lbas -> Values]
  BY <1>1, <1>4
<1>6. ChipTypes'
  <2>1. more' \in Nat
    BY <1>1
  <2> QED BY <1>1, <1>2, <1>5, <2>1 DEF ChipTypes, Kinds, Lbas
<1>7. FifoInv'
  <2>1. WritesInPlace
    BY <1>1 DEF FifoInv
  <2>2. ASSUME NEW l \in Lbas
        PROVE  disk'[l] = Original(l) \/ <<l, disk'[l]>> \in asked
    BY <1>1, <1>3, <2>1, <2>2 DEF WritesInPlace
  <2>3. WritesInPlace'
    BY <1>1, <2>2, Zenon DEF WritesInPlace, Original, Lbas
  <2> QED BY <1>1, <1>3, <2>3 DEF FifoInv
<1>8. ChipKnows'
  BY <1>1, <1>2, CardStands
<1> QED BY <1>6, <1>7, <1>8

LEMMA DataEndsBase ==
  ASSUME Base, DataDone \/ DataError
  PROVE  ChipTypes' /\ FifoInv' /\ ChipKnows'
<1>1. /\ ChipTypes /\ FifoInv /\ ChipKnows
      /\ UNCHANGED <<kind, disk, card, busy, inflight, reply, blk, more, fifo, dead, asked>>
      /\ fifo = None /\ dat' = FALSE
      /\ (more = 0 /\ intr' = intr \union {"DONE"}) \/ (more > 0 /\ intr' = intr \union {"ERR"})
  BY KnownParts DEF Base, TypeInv, DataDone, DataError, software
<1>2. faults' \in Nat /\ faults' <= MaxFault
  <2>1. faults' = faults \/ Fault
    BY Zenon DEF DataDone, DataError
  <2> QED BY <1>1, <2>1, SdAssumption DEF ChipTypes, Fault
<1>3. ChipTypes'
  BY <1>1, <1>2 DEF ChipTypes, Kinds, CardTypes, Lbas
<1>4. FifoInv'
  <2>1. WritesInPlace'
    BY <1>1, Zenon DEF FifoInv, WritesInPlace
  <2> QED BY <1>1, <2>1 DEF FifoInv
<1>5. ChipKnows'
  BY <1>1, CardStands
<1> QED BY <1>3, <1>4, <1>5

\* The controller keeps what is said of it.
LEMMA DeviceBase ==
  ASSUME Base, Device
  PROVE  Base' /\ UNCHANGED <<kind, software>>
<1>1. UNCHANGED <<kind, software>>
  BY DEF Device, Respond, Supply, AskForBlock, Program, DataDone, DataError
<1>2. DriverTypes' /\ DriverKnows'
  BY <1>1, DriverStands, KnownParts DEF Base, TypeInv
<1>3. ChipTypes' /\ FifoInv' /\ ChipKnows'
  <2>1. CASE Respond
    <3>1. PICK c \in Codes, a \in Int : Responds(c, a)
      BY <2>1, RespondCases DEF Base, TypeInv
    <3> QED BY <3>1, RespondBase
  <2>2. CASE ~Respond
    BY <2>2, SupplyBase, AskForBlockBase, ProgramBase, DataEndsBase DEF Device
  <2> QED BY <2>1, <2>2
<1>4. KnownInv'
  <2>1. (KnownInv <=> DriverKnows /\ ChipKnows)'
    BY KnownParts, PTL
  <2> QED BY <1>2, <1>3, <2>1
<1> QED BY <1>1, <1>2, <1>3, <1>4 DEF Base, TypeInv

-----------------------------------------------------------------------------
(* What sd_init knows, while the card and the controller work.             *)

\* With no command written, the controller moves data or ends a transfer.
LEMMA DeviceQuiet ==
  ASSUME Device, inflight = None
  PROVE  inflight' = None /\ (Supply \/ AskForBlock \/ Program \/ DataDone \/ DataError)
BY DEF Device, Respond, Supply, AskForBlock, Program, DataDone, DataError

LEMMA ErrorStays ==
  ASSUME Device, ChipTypes, "ERR" \in intr
  PROVE  "ERR" \in intr'
<1>1. CASE Respond
  <2>1. PICK c \in Codes, a \in Int : Responds(c, a)
    BY <1>1, RespondCases
  <2>2. intr' = intr \union {"CMD"} \/ intr' = intr \union {"ERR"}
    BY <2>1, Zenon DEF Responds, Taken, Lost
  <2> QED BY <2>2
<1> QED BY <1>1 DEF Device, Supply, AskForBlock, Program, DataDone, DataError

LEMMA CalmStays ==
  ASSUME Base, Device, Calm
  PROVE  /\ Calm' /\ more' = more /\ fifo' = fifo
         /\ \E c \in Codes, a \in Int : Responds(c, a) /\ c \notin DataCommands
<1>1. Respond
  BY DEF Calm, Device, Supply, AskForBlock, Program, DataDone, DataError
<1>2. PICK c \in Codes, a \in Int : Responds(c, a)
  BY <1>1, RespondCases DEF Base, TypeInv
<1>3. inflight' = None /\ c \notin DataCommands /\ fifo' = fifo
  BY <1>2 DEF Responds, Calm, Inflight, None
<1>4. more' = more /\ (dat' = dat \/ dat' = (dat \/ c \in DataCommands))
  BY <1>2, <1>3, Zenon DEF Responds, Taken, Lost
<1>5. ~dat'
  BY <1>3, <1>4, Zenon DEF Calm
<1> QED BY <1>2, <1>3, <1>4, <1>5, NothingInflight DEF Calm

\* An idle card in transfer state stays as it is.
LEMMA FullStays ==
  ASSUME Base, Device, In("tran"), more = 0, inflight = None
  PROVE  UNCHANGED <<card, more, fifo, inflight>> /\ intr' = intr \cup {"DONE"}
BY DeviceQuiet DEF In, Supply, AskForBlock, Program, DataDone, DataError

LEMMA ScrComesOn ==
  ASSUME Base, Device, ScrComes, inflight = None
  PROVE  ScrComes'
<1>1. CASE "ERR" \in intr
  BY <1>1, ErrorStays DEF Base, TypeInv, ScrComes
<1>2. CASE "READ" \in intr /\ In("tran") /\ more = 0
  BY <1>2, FullStays DEF ScrComes, In
<1>3. CASE "READ" \notin intr /\ fifo = None /\ In("data") /\ card.left = 1 /\ card.pos = -1 /\ more = 1
  <2>1. Supply \/ DataError
    BY <1>3, DeviceQuiet DEF In, AskForBlock, Program, DataDone
  <2>2. CASE DataError
    BY <2>2 DEF DataError, ScrComes
  <2>3. CASE Supply
    <3>1. card' = OneMoved("tran") /\ more' = more - 1 /\ "READ" \in intr'
      BY <2>3 DEF Supply
    <3>2. card'.st = "tran"
      BY <1>3, <3>1, OneMovedFacts DEF Base, TypeInv, ChipTypes
    <3> QED BY <1>3, <3>1, <3>2 DEF ScrComes, In
  <2> QED BY <2>1, <2>2, <2>3
<1> QED BY <1>1, <1>2, <1>3 DEF ScrComes

\* The answers sd_init waits for.
LEMMA InitAnswers ==
  ASSUME Base, NEW c \in Codes, NEW a \in Int, Responds(c, a)
  PROVE  /\ c = "SEND_REL_ADDR" => "ERR" \in intr' \/ (In("stby") /\ reply = "rca")'
         /\ c = "CARD_SELECT" => "ERR" \in intr' \/ In("tran")'
         /\ c = "WIDTH" => ("ERR" \in intr' \/ card'.wide) /\ (In("tran") => In("tran")')
         /\ c = "APP" => (In("tran") => In("tran")')
         /\ c = "SCR" => ScrComes'
<1>1. ChipTypes /\ FifoInv /\ card \in CardTypes
  BY DEF Base, TypeInv, ChipTypes
<1>2. \A r \in Reactions(c, a) : Reacts(c, a, r)
  BY <1>1, CardReacts
<1>3. "ERR" \in intr' \/ \E r \in Reactions(c, a) : card' = r[1] /\ reply' = r[2]
  BY DEF Responds, Taken, Lost
<1>4. card' = card \/ \E r \in Reactions(c, a) : card' = r[1]
  BY Zenon DEF Responds, Taken, Lost
<1>5. {"tran", "stby", "data"} \subseteq CardStates
  BY DEF CardStates
<1>6. CASE c = "SEND_REL_ADDR"
  <2>1. ASSUME NEW r \in Reactions(c, a) PROVE r[1] = To("stby") /\ r[2] = "rca"
    <3>1. r = <<To("stby"), "rca">>
      BY <1>2, <1>6, Zenon DEF Reacts, ReadCodes, WriteCodes
    <3> QED BY <3>1
  <2> QED BY <1>1, <1>3, <1>5, <1>6, <2>1, CardMoves DEF In
<1>7. CASE c = "CARD_SELECT"
  <2>1. ASSUME NEW r \in Reactions(c, a) PROVE r[1] = To("tran")
    <3>1. r = <<To("tran"), "">>
      BY <1>2, <1>7, Zenon DEF Reacts, ReadCodes, WriteCodes
    <3> QED BY <3>1
  <2> QED BY <1>1, <1>3, <1>5, <1>7, <2>1, CardMoves DEF In
<1>8. CASE c = "WIDTH"
  <2>1. ASSUME NEW r \in Reactions(c, a) PROVE r[1] = [To("tran") EXCEPT !.wide = TRUE]
    <3>1. r = <<[To("tran") EXCEPT !.wide = TRUE], "">>
      BY <1>2, <1>8, Zenon DEF Reacts, ReadCodes, WriteCodes
    <3> QED BY <3>1
  <2>2. PICK t \in CardTypes : t = To("tran") /\ t.st = "tran"
    BY <1>1, <1>5, CardMoves
  <2>3. [t EXCEPT !.wide = TRUE].wide /\ [t EXCEPT !.wide = TRUE].st = "tran"
    BY <2>2 DEF CardTypes
  <2> QED BY <1>3, <1>4, <1>8, <2>1, <2>2, <2>3 DEF In
<1>9. CASE c = "APP"
  <2>1. ASSUME NEW r \in Reactions(c, a) PROVE r[1] = [card EXCEPT !.app = TRUE]
    <3>1. r = <<[card EXCEPT !.app = TRUE], "app">>
      BY <1>2, <1>9, Zenon DEF Reacts, ReadCodes, WriteCodes
    <3> QED BY <3>1
  <2>2. [card EXCEPT !.app = TRUE].st = card.st
    BY <1>1 DEF CardTypes
  <2> QED BY <1>4, <1>9, <2>1, <2>2 DEF In
<1>10. CASE c = "SCR"
  <2>1. "SCR" \in DataCommands /\ "SCR" \notin Multis
    BY DEF DataCommands, Multis
  <2>2. ~dat /\ UNCHANGED fifo
    BY <1>10, <2>1 DEF Responds
  <2>3. fifo = None /\ "READ" \notin intr
    BY <1>1, <2>2 DEF FifoInv
  <2>4. CASE Lost(c, a)
    BY <1>10, <2>4 DEF Lost, ScrComes
  <2>5. ASSUME NEW r \in Reactions(c, a), card' = r[1], intr' = intr \cup {"CMD"},
               more' = IF c \in DataCommands THEN (IF c \in Multis THEN blk ELSE 1) ELSE more
        PROVE  ScrComes'
    <3>1. r = <<[Moves("data", 0, 1) EXCEPT !.pos = -1], "">>
      BY <1>2, <1>10, Zenon DEF Reacts, ReadCodes, WriteCodes
    <3>2. PICK m \in CardTypes : m = Moves("data", 0, 1) /\ m.st = "data" /\ m.left = 1
      BY <1>1, <1>5, CardMoves
    <3>3. card' = [m EXCEPT !.pos = -1]
      BY <2>5, <3>1, <3>2
    <3>4. card'.st = "data" /\ card'.left = 1 /\ card'.pos = -1
      BY <3>2, <3>3 DEF CardTypes
    <3>5. more' = 1
      BY <1>10, <2>1, <2>5, Zenon
    <3> QED BY <2>2, <2>3, <2>5, <3>4, <3>5 DEF ScrComes, In
  <2> QED BY <1>10, <2>4, <2>5, Zenon DEF Responds, Taken
<1> QED BY <1>6, <1>7, <1>8, <1>9, <1>10

LEMMA WakingStays ==
  ASSUME Base, Device, Waking
  PROVE  Waking'
<1>1. UNCHANGED <<kind, software>>
  BY DeviceBase
<1>2. todo' = todo /\ hostWide' = hostWide
  BY <1>1 DEF software
<1>3. Calm => Calm'
  BY CalmStays
<1> QED BY <1>2, <1>3 DEF Waking, OpConds

LEMMA NamingStays ==
  ASSUME Base, Device, Naming
  PROVE  Naming'
<1>1. UNCHANGED <<kind, todo, phase, err, rca, scr, hostWide>>
  BY DeviceBase DEF software
<1>2. Calm' /\ Known' /\ ~hostWide'
  BY <1>1, CalmStays DEF Naming, Known
<1>3. PICK c \in Codes, a \in Int : Responds(c, a)
  BY CalmStays DEF Naming
<1>4. inflight = <<c, a>> /\ inflight' = None /\ inflight # None /\ (\A d : Inflight(d) => d = c)
  BY <1>3 DEF Responds, None, Inflight
<1>5. CASE todo = Cid
  BY <1>1, <1>2, <1>5 DEF Naming
<1>6. CASE todo = RelAddr /\ (phase = "wait" => Awaits("SEND_REL_ADDR", 0, TRUE, In("stby") /\ reply = "rca"))
  <2>1. phase = "wait" => c = "SEND_REL_ADDR"
    BY <1>4, <1>6 DEF Awaits
  <2>2. phase = "wait" => Awaits("SEND_REL_ADDR", 0, TRUE, In("stby") /\ reply = "rca")'
    BY <1>3, <1>4, <2>1, InitAnswers DEF Awaits
  <2> QED BY <1>1, <1>2, <1>6, <2>2 DEF Naming
<1>7. CASE todo = Rca /\ Answered(In("stby") /\ reply = "rca")
  BY <1>1, <1>2, <1>4, <1>7 DEF Naming, Answered
<1>8. CASE todo = Checks(Clocks) /\ Answered(In("stby") /\ rca = 1)
  BY <1>1, <1>2, <1>4, <1>8 DEF Naming, Answered
<1>9. CASE todo = Select /\ rca = 1 /\ IF phase = "wait" THEN Awaits("CARD_SELECT", 1, In("stby"), In("tran"))
                                       ELSE inflight = None /\ In("stby")
  <2>1. phase = "wait" /\ c = "CARD_SELECT"
    BY <1>4, <1>9 DEF Awaits
  <2>2. Awaits("CARD_SELECT", 1, In("stby"), In("tran"))'
    BY <1>3, <1>4, <2>1, InitAnswers DEF Awaits
  <2> QED BY <1>1, <1>2, <1>9, <2>1, <2>2 DEF Naming
<1>10. CASE todo = Checks(Asks) /\ rca = 1 /\ Answered(In("tran"))
  BY <1>1, <1>2, <1>4, <1>10 DEF Naming, Answered
<1>11. CASE inflight = None
  BY <1>4, <1>11
<1>12. CASE /\ \/ todo = AppCommand("SCR", 0, Checks(Scr)) \/ todo = AppChecks("SCR", 0, Checks(Scr))
               \/ todo = AppCmd("SCR", 0, Checks(Scr)) /\ phase = "issue"
            /\ rca = 1 /\ In("tran") /\ (inflight = None \/ Inflight("APP"))
  <2>1. c = "APP"
    BY <1>4, <1>12
  <2>2. In("tran")'
    BY <1>3, <1>12, <2>1, InitAnswers
  <2> QED BY <1>1, <1>2, <1>4, <1>12, <2>2 DEF Naming
<1> QED BY <1>5, <1>6, <1>7, <1>8, <1>9, <1>10, <1>11, <1>12, Zenon DEF Naming

LEMMA ReadingStays ==
  ASSUME Base, Device, Reading
  PROVE  Reading'
<1>1. UNCHANGED <<kind, todo, phase, err, rca, scr, hostWide>>
  BY DeviceBase DEF software
<1>2. Known' /\ ~hostWide' /\ rca' = 1
  BY <1>1 DEF Reading, Known
<1>3. CASE todo = AppCmd("SCR", 0, Checks(Scr)) /\ phase = "wait" /\ Awaits("SCR", 0, In("tran") /\ ~dat, ScrComes)
  <2>1. Awaits("SCR", 0, In("tran") /\ ~dat, ScrComes)'
    <3>1. CASE inflight = None /\ ("ERR" \in intr \/ ScrComes)
      BY <3>1, ScrComesOn, ErrorStays, DeviceQuiet DEF Awaits, Base, TypeInv
    <3>2. CASE inflight = <<"SCR", 0>> /\ In("tran") /\ ~dat
      <4>1. Respond
        BY <3>2 DEF Device, Supply, AskForBlock, Program, DataDone, DataError
      <4>2. PICK c \in Codes, a \in Int : Responds(c, a)
        BY <4>1, RespondCases DEF Base, TypeInv
      <4>3. c = "SCR" /\ inflight' = None
        BY <3>2, <4>2 DEF Responds
      <4> QED BY <4>2, <4>3, InitAnswers DEF Awaits
    <3> QED BY <1>3, <3>1, <3>2 DEF Awaits
  <2> QED BY <1>1, <1>2, <1>3, <2>1 DEF Reading
<1>4. CASE todo = Checks(Scr) /\ Answered(ScrComes)
  <2>1. Answered(ScrComes)'
    BY <1>1, <1>4, ScrComesOn, DeviceQuiet DEF Answered
  <2> QED BY <1>1, <1>2, <1>4, <2>1 DEF Reading
<1>5. CASE todo = Scr /\ inflight = None /\ ScrComes
  BY <1>1, <1>2, <1>5, ScrComesOn, DeviceQuiet DEF Reading
<1>6. CASE todo = WordsEnd /\ inflight = None /\ Full /\ "READ" \notin intr
  BY <1>1, <1>2, <1>6, FullStays DEF Reading, Full, In
<1> QED BY <1>3, <1>4, <1>5, <1>6, Zenon DEF Reading

LEMMA WiderStays ==
  ASSUME Base, Device, Wider, inflight = None \/ Inflight("APP") \/ Inflight("WIDTH")
  PROVE  /\ Wider' /\ (card.wide => card'.wide)
         /\ \/ inflight' = inflight /\ intr' = intr \cup {"DONE"}
            \/ inflight' = None /\ (Inflight("WIDTH") => "ERR" \in intr' \/ card'.wide)
<1>1. UNCHANGED <<kind, rca, scr>>
  BY DeviceBase DEF software
<1>2. In("tran") /\ more = 0 /\ fifo = None
  BY DEF Wider, Full
<1>3. CASE inflight = None
  BY <1>1, <1>2, <1>3, FullStays DEF Wider, Full, In, Inflight, None
<1>4. CASE Inflight("APP") \/ Inflight("WIDTH")
  <2>1. CASE Respond
    <3>1. PICK c \in Codes, a \in Int : Responds(c, a)
      BY <2>1, RespondCases DEF Base, TypeInv
    <3>2. (c = "APP" \/ c = "WIDTH") /\ (Inflight("WIDTH") => c = "WIDTH") /\ inflight' = None /\ fifo' = fifo
      BY <1>4, <3>1 DEF Responds, Inflight
    <3>3. c \notin DataCommands
      BY <3>2 DEF DataCommands
    <3>4. more' = more
      BY <3>1, <3>3, Zenon DEF Responds, Taken, Lost
    <3>5. In("tran")' /\ (c = "WIDTH" => "ERR" \in intr' \/ card'.wide)
      BY <1>2, <3>1, <3>2, InitAnswers
    <3>6. card.wide => card'.wide
      <4>1. CASE card' = card
        BY <4>1
      <4>2. CASE card' # card
        <5>1. PICK r \in Reactions(c, a) : card' = r[1]
          BY <3>1, <4>2 DEF Responds, Taken, Lost
        <5>2. Reacts(c, a, r) /\ card \in CardTypes
          BY CardReacts DEF Base, TypeInv, ChipTypes
        <5>3. CASE c = "APP"
          <6>1. r = <<[card EXCEPT !.app = TRUE], "app">>
            BY <5>2, <5>3, Zenon DEF Reacts, ReadCodes, WriteCodes
          <6>2. card' = [card EXCEPT !.app = TRUE]
            BY <5>1, <6>1
          <6> QED BY <5>2, <6>2 DEF CardTypes
        <5>4. CASE c = "WIDTH"
          <6>1. r = <<[To("tran") EXCEPT !.wide = TRUE], "">>
            BY <5>2, <5>4, Zenon DEF Reacts, ReadCodes, WriteCodes
          <6>2. PICK t \in CardTypes : t = To("tran")
            BY <5>2, CardMoves DEF CardStates
          <6>3. card' = [t EXCEPT !.wide = TRUE]
            BY <5>1, <6>1, <6>2
          <6> QED BY <6>2, <6>3 DEF CardTypes
        <5> QED BY <3>2, <5>3, <5>4
      <4> QED BY <4>1, <4>2
    <3> QED BY <1>1, <1>2, <3>2, <3>4, <3>5, <3>6 DEF Wider, Full
  <2>2. CASE ~Respond
    <3>1. DataDone
      BY <1>2, <2>2 DEF Device, In, Supply, AskForBlock, Program, DataError
    <3> QED BY <1>1, <1>2, <3>1 DEF DataDone, Wider, Full, In
  <2> QED BY <2>1, <2>2
<1> QED BY <1>3, <1>4

LEMMA WideningStays ==
  ASSUME Base, Device, Widening
  PROVE  Widening'
<1>1. UNCHANGED <<todo, phase, err>>
  BY DeviceBase DEF software
<1>2. CASE todo = Checks(Widens) /\ Answered(Wider /\ card.wide)
  <2>1. Answered(Wider /\ card.wide)'
    BY <1>1, <1>2, WiderStays, DeviceQuiet DEF Answered
  <2> QED BY <1>1, <1>2, <2>1 DEF Widening
<1>3. CASE Wider /\ todo = AppCmd("WIDTH", 4, Checks(Widens)) /\ phase = "wait" /\ Awaits("WIDTH", 4, TRUE, card.wide)
  <2>1. inflight = None \/ Inflight("WIDTH")
    BY <1>3 DEF Awaits, Inflight, None
  <2>2. Wider'
    BY <1>3, <2>1, WiderStays
  <2>3. Awaits("WIDTH", 4, TRUE, card.wide)'
    <3>1. CASE inflight = None
      <4>1. inflight' = None /\ ("ERR" \in intr \/ card.wide)
        BY <1>3, <3>1, DeviceQuiet DEF Awaits, None
      <4>2. "ERR" \in intr' \/ card'.wide
        BY <1>3, <3>1, <4>1, WiderStays, ErrorStays DEF Base, TypeInv
      <4> QED BY <4>1, <4>2 DEF Awaits
    <3>2. CASE inflight # None
      <4>1. inflight = <<"WIDTH", 4>> /\ "CMD" \notin intr
        BY <1>3, <3>2 DEF Awaits
      <4>2. \/ inflight' = inflight /\ intr' = intr \cup {"DONE"}
            \/ inflight' = None /\ ("ERR" \in intr' \/ card'.wide)
        BY <1>3, <2>1, <3>2, WiderStays DEF Inflight
      <4> QED BY <4>1, <4>2 DEF Awaits
    <3> QED BY <3>1, <3>2
  <2> QED BY <1>1, <1>3, <2>2, <2>3 DEF Widening
<1>4. CASE Wider /\ (inflight = None \/ Inflight("APP"))
           /\ \/ todo \in {AppCommand("WIDTH", 4, Checks(Widens)), AppChecks("WIDTH", 4, Checks(Widens))}
              \/ todo = AppCmd("WIDTH", 4, Checks(Widens)) /\ phase # "wait"
  <2>1. Wider' /\ (inflight' = None \/ Inflight("APP")')
    BY <1>4, WiderStays, DeviceQuiet DEF Inflight
  <2> QED BY <1>1, <1>4, <2>1 DEF Widening
<1>5. CASE Wider /\ todo = Widens /\ inflight = None /\ card.wide
  BY <1>1, <1>5, WiderStays, DeviceQuiet DEF Widening
<1> QED BY <1>2, <1>3, <1>4, <1>5, Zenon DEF Widening

LEMMA AgreedStays ==
  ASSUME Base, Device, Agreed
  PROVE  Agreed'
<1>1. UNCHANGED <<kind, rca, scr, hostWide>>
  BY DeviceBase DEF software
<1> QED BY <1>1, FullStays DEF Agreed, Full, In

LEMMA DeviceInit ==
  ASSUME Base, Device, InitInv
  PROVE  InitInv'
<1>1. UNCHANGED <<todo, call, ret>>
  BY DeviceBase DEF software
<1>2. Initialising => Initialising'
  BY <1>1, WakingStays, NamingStays, ReadingStays, WideningStays, AgreedStays DEF Initialising
<1>3. (call.op = "init" /\ ~Ended) = (call.op = "init" /\ ~Ended)' /\ Returned("init", SD_OK) = Returned("init", SD_OK)'
  BY <1>1, Zenon DEF Ended, Returned
<1> QED BY <1>2, <1>3, AgreedStays DEF InitInv

-----------------------------------------------------------------------------
(* What a transfer knows, while the card and the controller work.          *)

LEMMA SameTransfer ==
  ASSUME UNCHANGED <<call, scr>>, NEW L
  PROVE  /\ Count' = Count /\ Fresh' = Fresh /\ Presets' = Presets /\ Layout(L)' = Layout(L)
         /\ StatusFrom(L)' = StatusFrom(L) /\ SizeFrom(L)' = SizeFrom(L)
         /\ \A c : /\ CmdFrom(L, c)' = CmdFrom(L, c) /\ MovesFrom(L, c)' = MovesFrom(L, c)
                   /\ DataCommand(c)' = DataCommand(c) /\ Until(c)' = Until(c)
         /\ Stops' = Stops
<1>1. call' = call /\ scr' = scr
  OBVIOUS
<1>2. Count' = Count /\ (\A c : DataCommand(c)' = DataCommand(c)) /\ (\A c : MoveOf(c)' = MoveOf(c)) /\ Behind' = Behind
  BY <1>1, Zenon DEF Count, DataCommand, MoveOf, Behind, Stops, StopOps, Addr
<1>3. Fresh' = Fresh /\ Presets' = Presets /\ (\A c : Until(c)' = Until(c)) /\ Stops' = Stops
  BY <1>1, <1>2, Zenon DEF Fresh, Presets, Until, Stops, StopOps, Count
<1>4. Layout(L)' = Layout(L)
  BY <1>1, <1>2, Zenon DEF Layout
<1>5. \A c : MovesFrom(L, c)' = MovesFrom(L, c) /\ CmdFrom(L, c)' = CmdFrom(L, c)
  BY <1>2, Zenon DEF MovesFrom, CmdFrom
<1>6. SizeFrom(L)' = SizeFrom(L)
  BY <1>1, <1>2, <1>5, Zenon DEF SizeFrom
<1>7. StatusFrom(L)' = StatusFrom(L)
  BY <1>2, <1>3, <1>6, Zenon DEF StatusFrom
<1> QED BY <1>2, <1>3, <1>4, <1>5, <1>6, <1>7

\* a transfer's call
InTransfer == call.op \in {"read", "write"} /\ call.lba \in Nat /\ Count \in Nat \ {0} /\ call.lba + Count <= Sectors

LEMMA TransferOf ==
  ASSUME Base, call.op \in {"read", "write"}
  PROVE  InTransfer /\ scr.ccs = kind.ccs
<1>1. call.lba \in Nat /\ call.num \in Nat
  BY DEF Base, TypeInv, DriverTypes
<1>2. Count \in Nat \ {0}
  BY <1>1 DEF Count, AtLeastOne
<1> QED BY <1>1, <1>2 DEF Base, KnownInv, InTransfer

LEMMA GotStays ==
  ASSUME Base, Device, ~Respond, InTransfer, NEW k \in Nat, NEW e \in Nat, e <= Count, Got(k, e)
  PROVE  Got(k, e)' \/ (e # k /\ "ERR" \in intr')
<1>1. /\ UNCHANGED <<call, scr, out>> /\ Count' = Count
      /\ card \in CardTypes /\ more \in Nat /\ FifoInv /\ call.lba \in Nat /\ Count \in Nat
  BY DeviceBase, SameTransfer DEF software, Base, TypeInv, ChipTypes, InTransfer
<1>2. In("data") \/ In("tran")
  BY DEF Got
<1>3. CASE Supply
  <2>1. "READ" \notin intr /\ fifo = None /\ card.pos = call.lba + k /\ more = e - k
    BY <1>1, <1>3 DEF Got, Supply, FifoInv
  <2>2. /\ fifo' = disk[card.pos] /\ card' = OneMoved("tran") /\ more' = more - 1 /\ "READ" \in intr'
        /\ disk' = disk /\ more > 0
    BY <1>1, <1>3, <2>1 DEF Supply
  <2>3. card'.pos = card.pos + 1 /\ card'.st \in {"data", "tran"}
    BY <1>1, <1>2, <2>2, OneMovedFacts DEF In
  <2>4. out' = [c \in 1 .. k |-> disk'[call'.lba + c - 1]]
    BY <1>1, <2>2, Zenon DEF Got
  <2>5. fifo' = disk'[call'.lba + k] /\ card'.pos = call'.lba + k + 1 /\ more' = e - k - 1 /\ k < Count'
    BY <1>1, <2>1, <2>2, <2>3
  <2>6. (In("data") \/ In("tran"))'
    BY <2>3 DEF In
  <2> QED BY <2>2, <2>4, <2>5, <2>6, Zenon DEF Got
<1>4. CASE DataDone
  <2>1. UNCHANGED <<disk, card, fifo, more>> /\ ("READ" \in intr' <=> "READ" \in intr)
    BY <1>4 DEF DataDone
  <2> QED BY <1>1, <2>1, Zenon DEF Got, In
<1>5. CASE DataError
  <2>1. "ERR" \in intr' /\ more > 0 /\ fifo = None
    BY <1>5 DEF DataError
  <2>2. e # k
    BY <1>1, <2>1 DEF Got, FifoInv
  <2> QED BY <2>1, <2>2
<1> QED BY <1>2, <1>3, <1>4, <1>5 DEF Device, In, AskForBlock, Program

LEMMA PutStays ==
  ASSUME Base, Device, ~Respond, InTransfer, NEW k \in Nat, NEW e \in Nat, k <= Count, Put(k, e)
  PROVE  Put(k, e)' \/ (e # k /\ "ERR" \in intr')
<1>1. /\ UNCHANGED <<call, scr, calls>> /\ Fresh' = Fresh
      /\ card \in CardTypes /\ more \in Nat /\ FifoInv /\ call.lba \in Nat
      /\ disk \in [Lbas -> Values]
  BY DeviceBase, SameTransfer DEF software, Base, TypeInv, ChipTypes, InTransfer
<1>2. In("rcv") \/ In("tran")
  BY DEF Put
<1>3. CASE Program
  <2>1. /\ fifo = <<calls, k>> /\ card.pos = call.lba + k - 1 /\ more = e - k + 1 /\ Written(k - 1)
        /\ k > 0
    BY <1>3 DEF Put, Program
  <2>2. /\ fifo' = None /\ card' = OneMoved("tran") /\ more' = more - 1 /\ intr' = intr
        /\ disk' = [disk EXCEPT ![card.pos] = fifo] /\ more > 0
    BY <1>3 DEF Program
  <2>3. card'.pos = card.pos + 1 /\ card'.st \in {"rcv", "tran"}
    BY <1>1, <1>2, <2>2, OneMovedFacts DEF In
  <2>4. Written(k)'
    <3>1. ASSUME NEW c \in 1 .. k
          PROVE  disk'[call.lba + c - 1] = <<calls, c>>
      <4>1. call.lba + c - 1 \in Lbas
        BY <1>1, SdAssumption DEF InTransfer, Lbas
      <4>2. CASE c = k
        BY <1>1, <2>1, <2>2, <4>1, <4>2
      <4>3. CASE c # k
        <5>1. disk[call.lba + c - 1] = <<calls, c>>
          BY <2>1, <4>3 DEF Written
        <5>2. call.lba + c - 1 # card.pos
          BY <1>1, <2>1, <4>3
        <5> QED BY <1>1, <2>2, <4>1, <5>1, <5>2
      <4> QED BY <4>2, <4>3
    <3> QED BY <1>1, <3>1 DEF Written
  <2>5. card'.pos = call'.lba + k /\ more' = e - k
    BY <1>1, <2>1, <2>2, <2>3
  <2>6. (Fresh /\ "DONE" \in intr => more = 0)'
    BY <1>1, <2>2 DEF Put
  <2>7. (In("rcv") \/ In("tran"))'
    BY <2>3 DEF In
  <2>8. ~(fifo' = None /\ "WRITE" \in intr' /\ "ERR" \notin intr')
    BY <1>1, <1>3, <2>2 DEF Program, FifoInv
  <2> QED BY <2>2, <2>4, <2>5, <2>6, <2>7, <2>8, Zenon DEF Put
<1>4. CASE AskForBlock \/ DataDone
  <2>1. UNCHANGED <<disk, card, fifo, more>> /\ fifo = None
    BY <1>4 DEF AskForBlock, DataDone
  <2>2. "DONE" \in intr' => "DONE" \in intr \/ more = 0
    BY <1>4 DEF AskForBlock, DataDone
  <2>3. fifo # <<calls, k>>
    BY <2>1 DEF None
  <2>4. card.pos = call.lba + k /\ more = e - k /\ Written(k)
    BY <2>1, <2>3 DEF Put
  <2>5. Written(k)' /\ (In("rcv") \/ In("tran"))'
    BY <1>1, <1>2, <2>1, <2>4 DEF Written, In
  <2>6. (Fresh /\ "DONE" \in intr => more = 0)'
    BY <1>1, <2>1, <2>2 DEF Put
  <2>7. fifo' = None /\ card'.pos = call'.lba + k /\ more' = e - k
    BY <1>1, <2>1, <2>4
  <2>8. (fifo = None /\ "WRITE" \in intr /\ "ERR" \notin intr => In("rcv"))'
    <3>1. CASE AskForBlock
      BY <3>1 DEF AskForBlock, In
    <3>2. CASE DataDone
      <4>1. more = 0 /\ intr' = intr \cup {"DONE"}
        BY <3>2 DEF DataDone
      <4> QED BY <1>1, <4>1 DEF FifoInv
    <3> QED BY <1>4, <3>1, <3>2
  <2> QED BY <2>5, <2>6, <2>7, <2>8, Zenon DEF Put
<1>5. CASE DataError
  <2>1. "ERR" \in intr' /\ more > 0 /\ fifo = None
    BY <1>5 DEF DataError
  <2>2. e # k
    BY <1>1, <2>1 DEF Put, None
  <2> QED BY <2>1, <2>2
<1> QED BY <1>2, <1>3, <1>4, <1>5 DEF Device, In, Supply

LEMMA MovedStays ==
  ASSUME Base, Device, ~Respond, call.op \in {"read", "write"},
         NEW k \in Nat, NEW e \in Nat, k <= Count, e <= Count, Moved(k, e)
  PROVE  Moved(k, e)' \/ (e # k /\ "ERR" \in intr')
<1>1. InTransfer /\ UNCHANGED <<call, out>>
  BY TransferOf, DeviceBase DEF software
<1>2. CASE call.op = "read"
  BY <1>1, <1>2, GotStays DEF Moved
<1>3. CASE call.op # "read"
  BY <1>1, <1>3, PutStays DEF Moved
<1> QED BY <1>2, <1>3

LEMMA NoneEndsStays ==
  ASSUME Base, Device, NoneEnds
  PROVE  NoneEnds' /\ ("DONE" \in intr' => "DONE" \in intr)
<1>1. ChipTypes /\ FifoInv /\ ChipKnows /\ card \in CardTypes
  BY KnownParts DEF Base, TypeInv, ChipTypes
<1>2. CASE Respond
  <2>1. PICK c \in Codes, a \in Int : Responds(c, a)
    BY <1>1, <1>2, RespondCases
  <2>2. fifo' = fifo /\ (c \in DataCommands => ~dat) /\ Inflight(c)
    BY <2>1 DEF Responds, Inflight, None
  <2>3. intr' = intr \union {"CMD"} \/ intr' = intr \union {"ERR"}
    BY <2>1, Zenon DEF Responds, Taken, Lost
  <2>4. CASE c \in DataCommands
    <3>1. fifo' = None
      BY <1>1, <2>2, <2>4 DEF FifoInv
    <3>2. dat' => (more' = blk /\ c \in Multis) \/ more' = 1
      <4>1. \/ dat' = dat
            \/ more' = IF c \in DataCommands THEN (IF c \in Multis THEN blk ELSE 1) ELSE more
        BY <2>1, Zenon DEF Responds, Taken, Lost
      <4>2. ~dat
        BY <2>2, <2>4
      <4> QED BY <2>4, <4>1, <4>2, Zenon
    <3>3. c \in Multis => blk > 0
      BY <1>1, <2>2 DEF ChipKnows
    <3> QED BY <2>3, <3>1, <3>2, <3>3 DEF NoneEnds
  <2>5. CASE c \notin DataCommands
    <3>1. dat' = dat /\ more' = more
      <4>1. \/ dat' = dat /\ more' = more
            \/ /\ more' = IF c \in DataCommands THEN (IF c \in Multis THEN blk ELSE 1) ELSE more
               /\ dat' = (dat \/ c \in DataCommands)
        BY <2>1, Zenon DEF Responds, Taken, Lost
      <4>2. dat \in BOOLEAN
        BY <1>1 DEF ChipTypes
      <4> QED BY <2>5, <4>1, <4>2, Zenon
    <3>2. In("rcv")' => In("rcv")
      <4>1. card' = card \/ \E r \in Reactions(c, a) : card' = r[1]
        BY <2>1, Zenon DEF Responds, Taken, Lost
      <4>2. \A r \in Reactions(c, a) : Reacts(c, a, r)
        BY <1>1, CardReacts
      <4>3. c \notin WriteCodes
        BY <2>5 DEF DataCommands, WriteCodes
      <4> QED BY <1>1, <4>1, <4>2, <4>3, ReactionCards DEF In
    <3> QED BY <2>2, <2>3, <3>1, <3>2 DEF NoneEnds
  <2> QED BY <2>4, <2>5
<1>3. CASE Supply
  <2>1. fifo' # None
    BY <1>3, SupplyBase DEF FifoInv, Supply
  <2>2. card'.st # "rcv"
    BY <1>1, <1>3, OneMovedFacts DEF Supply
  <2> QED BY <1>3, <2>1, <2>2 DEF Supply, NoneEnds, In
<1>4. CASE AskForBlock
  BY <1>4 DEF AskForBlock, NoneEnds, In
<1>5. CASE DataError
  BY <1>5 DEF DataError, NoneEnds
<1> QED BY <1>2, <1>3, <1>4, <1>5 DEF Device, NoneEnds, In, Program, DataDone

\* Where a data command that was taken leaves card and controller.
LEMMA DataAnswers ==
  ASSUME Base, NEW c \in ReadCodes \cup WriteCodes, NEW a \in Int, Responds(c, a)
  PROVE  \/ "ERR" \in intr'
         \/ /\ card'.st = (IF c \in ReadCodes THEN "data" ELSE "rcv") /\ card'.pos = Block(a)
            /\ more' = (IF c \in Multis THEN blk ELSE 1) /\ intr' = intr \cup {"CMD"}
<1>1. card \in CardTypes
  BY DEF Base, TypeInv, ChipTypes
<1>2. CASE Lost(c, a)
  BY <1>2 DEF Lost
<1>3. ASSUME NEW r \in Reactions(c, a), card' = r[1]
      PROVE  card'.st = (IF c \in ReadCodes THEN "data" ELSE "rcv") /\ card'.pos = Block(a)
  <2>1. Reacts(c, a, r)
    BY <1>1, CardReacts
  <2>2. {"data", "rcv"} \subseteq CardStates
    BY DEF CardStates
  <2>3. CASE c \in ReadCodes
    <3>1. PICK k \in Int : r[1] = Moves("data", a, k)
      BY <2>1, <2>3 DEF Reacts, ReadCodes, WriteCodes
    <3> QED BY <1>1, <1>3, <2>2, <2>3, <3>1, CardMoves
  <2>4. CASE c \in WriteCodes
    <3>1. PICK k \in Int : r[1] = Moves("rcv", a, k)
      BY <2>1, <2>4 DEF Reacts, ReadCodes, WriteCodes
    <3>2. c \notin ReadCodes
      BY <2>4 DEF ReadCodes, WriteCodes
    <3> QED BY <1>1, <1>3, <2>2, <3>1, <3>2, CardMoves
  <2> QED BY <2>3, <2>4
<1>4. CASE Taken(c, a)
  <2>1. c \in DataCommands
    BY DEF ReadCodes, WriteCodes, DataCommands
  <2>2. PICK r \in Reactions(c, a) :
          /\ card' = r[1] /\ intr' = intr \union {"CMD"}
          /\ more' = IF c \in DataCommands THEN (IF c \in Multis THEN blk ELSE 1) ELSE more
    BY <1>4, Zenon DEF Taken
  <2>3. more' = IF c \in Multis THEN blk ELSE 1
    BY <2>1, <2>2, Zenon
  <2> QED BY <1>3, <2>2, <2>3
<1> QED BY <1>2, <1>4 DEF Responds

LEMMA NextBlock ==
  ASSUME InTransfer, scr.ccs = kind.ccs, NEW c \in 1 .. Count
  PROVE  Block(Addr(call.lba, c - 1)) = call.lba + c - 1
<1>1. BlockBytes \in Nat \ {0} /\ call.lba + (c - 1) \in Nat
  BY SdAssumption DEF InTransfer
<1>2. CASE scr.ccs
  BY <1>2 DEF Block, Addr, InTransfer
<1>3. CASE ~scr.ccs
  <2>1. PICK n \in Nat : n = call.lba + (c - 1)
    BY <1>1
  <2>2. Block(Addr(call.lba, c - 1)) = (n * BlockBytes) \div BlockBytes
    BY <1>3, <2>1, Zenon DEF Block, Addr
  <2>3. (n * BlockBytes) \div BlockBytes = n
    BY <1>1
  <2> QED BY <2>1, <2>2, <2>3 DEF InTransfer
<1> QED BY <1>2, <1>3

\* The command of block c, in flight.
LEMMA CommandTaken ==
  ASSUME Base, NEW d, NEW a, Responds(d, a), call.op \in {"read", "write"}, NEW c \in 1 .. Count,
         scr.ccs => c = 1,
         d = DataCommand(c)[2], a = DataCommand(c)[3], Begins(c), c = 1 => "DONE" \notin intr
  PROVE  Moving(c)'
<1>1. InTransfer /\ scr.ccs = kind.ccs
  BY TransferOf
<1> DEFINE read == call.op = "read"
           multi == scr.ccs /\ Count > 1
<1>2. d = (IF multi THEN (IF read THEN "READ_MULTI" ELSE "WRITE_MULTI")
                    ELSE IF read THEN "READ_SINGLE" ELSE "WRITE_SINGLE")
  BY DEF DataCommand
<1>3. a = Addr(call.lba, c - 1) /\ Block(a) = call.lba + c - 1 /\ a \in Int
  <2>1. a = Addr(call.lba, c - 1)
    BY DEF DataCommand
  <2>2. a \in Int
    BY <1>1, <2>1, SdAssumption DEF InTransfer, Addr
  <2> QED BY <1>1, <2>1, <2>2, NextBlock
<1>4. /\ read => d \in ReadCodes
      /\ ~read => d \in WriteCodes /\ d \notin ReadCodes
      /\ d \in Multis <=> multi
      /\ d \in DataCommands
  BY <1>2 DEF ReadCodes, WriteCodes, Multis, DataCommands
<1>5. UNCHANGED <<disk, fifo, call, scr, out, calls>> /\ ~dat
  BY <1>4 DEF Responds, software
<1>6. fifo = None /\ "READ" \notin intr
  BY <1>5 DEF Base, FifoInv
<1>7. CASE "ERR" \in intr'
  BY <1>7 DEF Moving
<1>8. CASE /\ card'.st = (IF d \in ReadCodes THEN "data" ELSE "rcv") /\ card'.pos = Block(a)
           /\ more' = (IF d \in Multis THEN blk ELSE 1) /\ intr' = intr \cup {"CMD"}
           /\ "ERR" \notin intr
  <2>1. PICK k \in Nat : k = c - 1
    OBVIOUS
  <2>2. out = (IF read THEN [b \in 1 .. k |-> disk[call.lba + b - 1]] ELSE <<>>)
        /\ (~read => Written(k))
    <3>1. CASE c = 1
      <4>1. out = <<>> /\ k = 0
        BY <2>1, <3>1 DEF Begins
      <4>2. out = [b \in 1 .. k |-> disk[call.lba + b - 1]] /\ Written(k)
        BY <4>1 DEF Written
      <4> QED BY <4>1, <4>2
    <3>2. CASE c # 1
      <4>1. Moved(k, k)
        BY <1>8, <2>1, <3>2 DEF Begins
      <4>2. ~read => fifo # <<calls, k>>
        BY <1>6 DEF None
      <4> QED BY <4>1, <4>2 DEF Moved, Got, Put
    <3> QED BY <3>1, <3>2
  <2>3. Until(c) \in Nat /\ more' = Until(c) - k
    <3>1. scr.ccs => c = 1 /\ blk = Count
      BY DEF Begins
    <3>2. Count > 1 \/ Count = 1
      BY <1>1 DEF InTransfer
    <3> QED BY <1>1, <1>4, <1>8, <2>1, <3>1, <3>2 DEF Until, InTransfer
  <2>4. card'.pos = call.lba + k
    BY <1>1, <1>3, <1>8, <2>1 DEF InTransfer
  <2>5. Moved(k, Until(c))'
    <3>1. Until(c)' = Until(c)
      BY <1>5, SameTransfer
    <3>2. CASE read
      <4>1. In("data")' /\ "READ" \notin intr' /\ fifo' = None
        BY <1>4, <1>5, <1>6, <1>8, <3>2 DEF In
      <4>2. out' = [b \in 1 .. k |-> disk'[call'.lba + b - 1]]
        BY <1>5, <2>2, <3>2, Zenon
      <4>3. card'.pos = call'.lba + k /\ more' = Until(c)' - k
        BY <1>5, <2>3, <2>4, <3>1
      <4>4. Got(k, Until(c))'
        BY <4>1, <4>2, <4>3, Zenon DEF Got
      <4> QED BY <1>5, <3>2, <4>4, Zenon DEF Moved
    <3>3. CASE ~read
      <4>1. In("rcv")' /\ fifo' = None
        BY <1>4, <1>5, <1>6, <1>8, <3>3 DEF In
      <4>2. Written(k)'
        BY <1>5, <2>2, <3>3, Zenon DEF Written
      <4>3. card'.pos = call'.lba + k /\ more' = Until(c)' - k
        BY <1>5, <2>3, <2>4, <3>1
      <4>4. (Fresh /\ "DONE" \in intr => more = 0)'
        <5>1. CASE c = 1
          BY <1>8, <5>1
        <5>2. CASE c # 1
          <6>1. ~Fresh
            BY <1>1, <5>2 DEF Fresh, InTransfer
          <6>2. ~Fresh'
            BY <1>5, <6>1, SameTransfer
          <6> QED BY <6>2
        <5> QED BY <5>1, <5>2
      <4>5. Put(k, Until(c))'
        BY <4>1, <4>2, <4>3, <4>4, Zenon DEF Put
      <4>6. out' = <<>>
        BY <1>5, <2>2, <3>3
      <4> QED BY <1>5, <3>3, <4>5, <4>6, Zenon DEF Moved
    <3> QED BY <3>2, <3>3
  <2> QED BY <2>1, <2>5 DEF Moving
<1>9. "ERR" \in intr => "ERR" \in intr'
  BY DEF Responds, Taken, Lost
<1> QED BY <1>3, <1>4, <1>7, <1>8, <1>9, DataAnswers

LEMMA OverStays ==
  ASSUME Base, Device, ~Respond, call.op \in {"read", "write"}, Over
  PROVE  Over'
<1>1. InTransfer /\ UNCHANGED <<call, scr>> /\ Count' = Count /\ Fresh' = Fresh
  BY TransferOf, DeviceBase, SameTransfer DEF software
<1>2. PICK k \in Nat : k = Count
  BY <1>1 DEF InTransfer
<1>3. Moved(k, k)'
  BY <1>2, MovedStays DEF Over
<1>4. call.op = "write" /\ Fresh /\ more = 0 => more' = 0
  BY DEF Device, Supply, AskForBlock, Program, DataDone, DataError
<1>5. Moved(Count, Count)'
  BY <1>1, <1>2, <1>3, Zenon
<1> QED BY <1>1, <1>4, <1>5 DEF Over

LEMMA MovingStays ==
  ASSUME Base, Device, ~Respond, call.op \in {"read", "write"}, NEW c \in 1 .. Count, Moving(c)
  PROVE  Moving(c)'
<1>1. InTransfer /\ UNCHANGED <<call, scr>> /\ Until(c)' = Until(c)
  BY TransferOf, DeviceBase, SameTransfer DEF software
<1>2. PICK k \in Nat, e \in Nat : k = c - 1 /\ e = Until(c) /\ k <= Count /\ e <= Count
  BY <1>1 DEF InTransfer, Until
<1>3. CASE "ERR" \in intr
  BY <1>3, ErrorStays DEF Moving, Base, TypeInv
<1>4. CASE Moved(k, e)
  <2>1. Moved(k, e)' \/ "ERR" \in intr'
    BY <1>2, <1>4, MovedStays
  <2>2. Moved(k, e)' => Moving(c)'
    BY <1>1, <1>2 DEF Moving
  <2> QED BY <2>1, <2>2 DEF Moving
<1> QED BY <1>2, <1>3, <1>4 DEF Moving

LEMMA BeginsStays ==
  ASSUME Base, Device, call.op \in {"read", "write"}, NEW c \in 1 .. Count, Begins(c), c # 1 => ~Respond
  PROVE  Begins(c)' /\ (c = 1 /\ "DONE" \in intr' => "DONE" \in intr)
<1>1. InTransfer /\ UNCHANGED <<call, scr, out>> /\ Count' = Count
  BY TransferOf, DeviceBase, SameTransfer DEF software
<1>2. CASE c = 1
  <2>1. NoneEnds' /\ ("DONE" \in intr' => "DONE" \in intr)
    BY <1>2, NoneEndsStays DEF Begins
  <2>2. blk' = blk
    BY DEF Device, Respond, Supply, AskForBlock, Program, DataDone, DataError
  <2> QED BY <1>1, <1>2, <2>1, <2>2 DEF Begins
<1>3. CASE c # 1
  <2>1. PICK k \in Nat : k = c - 1 /\ k <= Count
    BY <1>1 DEF InTransfer
  <2>2. "ERR" \in intr' \/ Moved(k, k)'
    BY <1>3, <2>1, MovedStays, ErrorStays DEF Begins, Base, TypeInv
  <2> QED BY <1>1, <1>3, <2>1, <2>2 DEF Begins
<1> QED BY <1>2, <1>3

LEMMA CommandsStay ==
  ASSUME Base, Device, call.op \in {"read", "write"}, NEW L, NEW c \in 1 .. Count, scr.ccs => c = 1,
         Commands(L, c)
  PROVE  Commands(L, c)'
<1>1. UNCHANGED <<todo, phase, call, scr>> /\ CmdFrom(L, c)' = CmdFrom(L, c) /\ DataCommand(c)' = DataCommand(c)
  BY DeviceBase, SameTransfer DEF software
<1>2. CASE phase # "wait"
  <2>1. Begins(c) /\ (c > 1 => inflight = None)
    BY <1>2 DEF Commands
  <2>2. c # 1 => ~Respond
    <3>1. c # 1 => c > 1
      BY TransferOf DEF InTransfer
    <3>2. inflight = None => ~Respond
      BY DEF Respond
    <3> QED BY <2>1, <3>1, <3>2
  <2>3. Begins(c)'
    BY <2>1, <2>2, BeginsStays
  <2>4. c > 1 => inflight' = None
    BY <2>1, DeviceQuiet
  <2> QED BY <1>1, <1>2, <2>3, <2>4 DEF Commands
<1>3. CASE phase = "wait"
  <2> DEFINE d == DataCommand(c)[2]
             a == DataCommand(c)[3]
  <2>1. \/ inflight = <<d, a>> /\ "CMD" \notin intr /\ Begins(c) /\ (c = 1 => "DONE" \notin intr)
        \/ inflight = None /\ ("ERR" \in intr \/ Moving(c))
    BY <1>3 DEF Commands, Awaits
  <2>2. \/ inflight' = <<d, a>> /\ "CMD" \notin intr' /\ Begins(c)' /\ (c = 1 => "DONE" \notin intr')
        \/ inflight' = None /\ ("ERR" \in intr' \/ Moving(c)')
    <3>1. CASE inflight = None /\ ("ERR" \in intr \/ Moving(c))
      <4>1. ~Respond /\ inflight' = None
        BY <3>1, DeviceQuiet DEF Respond
      <4> QED BY <3>1, <4>1, MovingStays DEF Moving
    <3>2. CASE Respond /\ inflight = <<d, a>> /\ Begins(c) /\ (c = 1 => "DONE" \notin intr)
      <4>1. PICK x \in Codes, y \in Int : Responds(x, y)
        BY <3>2, RespondCases DEF Base, TypeInv
      <4>2. x = d /\ y = a /\ inflight' = None
        BY <3>2, <4>1 DEF Responds
      <4>3. Moving(c)'
        BY <3>2, <4>1, <4>2, CommandTaken
      <4> QED BY <4>2, <4>3
    <3>3. CASE ~Respond /\ inflight = <<d, a>> /\ "CMD" \notin intr /\ Begins(c) /\ (c = 1 => "DONE" \notin intr)
      <4>1. inflight' = inflight /\ "CMD" \notin intr'
        BY <3>3 DEF Device, Supply, AskForBlock, Program, DataDone, DataError
      <4> QED BY <3>3, <4>1, BeginsStays
    <3> QED BY <2>1, <3>1, <3>2, <3>3
  <2> QED BY <1>1, <1>3, <2>2, Zenon DEF Commands, Awaits
<1> QED BY <1>2, <1>3

LEMMA StopAnswers ==
  ASSUME Base, \E a : Responds("STOP", a), call.op \in {"read", "write"}, scr.ccs, Over
  PROVE  Over'
<1>1. PICK a : Responds("STOP", a)
  OBVIOUS
<1>2. UNCHANGED <<disk, fifo, call, scr, out, calls>> /\ Count' = Count /\ Fresh' = Fresh
  BY <1>1, SameTransfer DEF Responds, software
<1>3. card \in CardTypes /\ {"tran"} \subseteq CardStates /\ "STOP" \notin DataCommands /\ InTransfer
  BY TransferOf DEF Base, TypeInv, ChipTypes, CardStates, DataCommands
<1>4. more' = more
  BY <1>1, <1>3, Zenon DEF Responds, Taken, Lost
<1>5. card' = card \/ card' = To("tran")
  <2>1. CASE card' # card
    <3>1. PICK r \in Reactions("STOP", a) : card' = r[1]
      BY <1>1, <2>1 DEF Responds, Taken, Lost
    <3>2. Reacts("STOP", a, r)
      BY <1>3, CardReacts
    <3>3. r = <<To("tran"), "">>
      BY <3>2, Zenon DEF Reacts, ReadCodes, WriteCodes
    <3> QED BY <3>1, <3>3
  <2> QED BY <2>1
<1>6. card'.pos = card.pos /\ (card'.st = card.st \/ card'.st = "tran")
  BY <1>3, <1>5, CardMoves
<1>7. /\ "READ" \in intr' <=> "READ" \in intr
      /\ "DONE" \in intr' <=> "DONE" \in intr
  <2>1. intr' = intr \union {"CMD"} \/ intr' = intr \union {"ERR"}
    BY <1>1, Zenon DEF Responds, Taken, Lost
  <2> QED BY <2>1
<1>8. PICK k \in Nat : k = Count
  BY <1>3 DEF InTransfer
<1>9. Moved(k, k)'
  <2>1. Moved(k, k)
    BY <1>8 DEF Over
  <2>2. CASE call.op = "read"
    <3>1. Got(k, k)
      BY <2>1, <2>2 DEF Moved
    <3>2. /\ (In("data") \/ In("tran"))'
          /\ out' = [c \in 1 .. k |-> disk'[call'.lba + c - 1]]
      <4>1. (In("data") \/ In("tran"))'
        BY <1>6, <3>1 DEF Got, In
      <4>2. out' = [c \in 1 .. k |-> disk'[call'.lba + c - 1]]
        BY <1>2, <3>1, Zenon DEF Got
      <4> QED BY <4>1, <4>2
    <3>3. "READ" \notin intr' /\ fifo' = None /\ card'.pos = call'.lba + k /\ more' = k - k
      BY <1>2, <1>4, <1>6, <1>7, <1>8, <3>1 DEF Got
    <3>4. Got(k, k)'
      BY <3>2, <3>3, Zenon DEF Got
    <3> QED BY <1>2, <2>2, <3>4, Zenon DEF Moved
  <2>3. CASE call.op # "read"
    <3>1. Put(k, k) /\ out = <<>>
      BY <2>1, <2>3 DEF Moved
    <3>2. more = 0
      BY <2>3 DEF Over, Fresh
    <3>3. fifo = None /\ card.pos = call.lba + k /\ Written(k)
      BY <3>1, <3>2, <1>8 DEF Put
    <3>4. (In("rcv") \/ In("tran"))'
      BY <1>6, <3>1 DEF Put, In
    <3>5. Written(k)'
      BY <1>2, <3>3, Zenon DEF Written
    <3>6. (Fresh /\ "DONE" \in intr => more = 0)'
      BY <1>4, <3>2
    <3>7. fifo' = None /\ card'.pos = call'.lba + k /\ more' = k - k
      BY <1>2, <1>4, <1>6, <1>8, <3>2, <3>3
    <3>8. ~("WRITE" \in intr' /\ "ERR" \notin intr')
      <4>1. intr' = intr \union {"CMD"} \/ intr' = intr \union {"ERR"}
        BY <1>1, Zenon DEF Responds, Taken, Lost
      <4>2. ~("WRITE" \in intr /\ "ERR" \notin intr)
        BY <3>2 DEF Base, FifoInv
      <4> QED BY <4>1, <4>2
    <3>9. Put(k, k)'
      BY <3>4, <3>5, <3>6, <3>7, <3>8, Zenon DEF Put
    <3> QED BY <1>2, <2>3, <3>1, <3>9, Zenon DEF Moved
  <2> QED BY <2>2, <2>3
<1>10. Moved(Count, Count)'
  BY <1>2, <1>8, <1>9, Zenon
<1> QED BY <1>2, <1>4, <1>10 DEF Over

LEMMA TransferringStays ==
  ASSUME Base, Device, call.op \in {"read", "write"}, NEW L, Transferring(L)
  PROVE  Transferring(L)'
<1>1. UNCHANGED <<todo, phase, err, call, scr, out>>
  BY DeviceBase DEF software
<1>2. /\ Count' = Count /\ Presets' = Presets /\ Stops' = Stops /\ StatusFrom(L)' = StatusFrom(L)
      /\ SizeFrom(L)' = SizeFrom(L) /\ \A c : MovesFrom(L, c)' = MovesFrom(L, c)
  BY <1>1, SameTransfer
<1>3. inflight = None => ~Respond
  BY DEF Respond
<1>4. CASE todo = StatusFrom(L) /\ out = <<>>
  BY <1>1, <1>2, <1>4, Zenon DEF Transferring
<1>5. CASE /\ NoneEnds /\ out = <<>>
           /\ \/ Presets /\ todo \in {Command("BLOCKCNT", Count, Checks(SizeFrom(L))), Checks(SizeFrom(L))}
              \/ todo = SizeFrom(L)
  <2>1. NoneEnds' /\ out' = <<>>
    BY <1>1, <1>5, NoneEndsStays
  <2>2. \/ Presets' /\ todo' \in {Command("BLOCKCNT", Count', Checks(SizeFrom(L)')), Checks(SizeFrom(L)')}
        \/ todo' = SizeFrom(L)'
    BY <1>1, <1>2, <1>5, Zenon
  <2> QED BY <2>1, <2>2, Zenon DEF Transferring
<1>6. ASSUME NEW c \in 1 .. Count, scr.ccs => c = 1,
             Commands(L, c) \/ (todo = Checks(MovesFrom(L, c)) /\ Answered(Moving(c)))
      PROVE  Transferring(L)'
  <2>1. Commands(L, c)' \/ (todo = Checks(MovesFrom(L, c)) /\ Answered(Moving(c)))'
    <3>1. CASE Commands(L, c)
      BY <1>6, <3>1, CommandsStay
    <3>2. CASE todo = Checks(MovesFrom(L, c)) /\ Answered(Moving(c))
      <4>1. Answered(Moving(c))'
        BY <1>1, <1>3, <3>2, DeviceQuiet, MovingStays DEF Answered
      <4> QED BY <1>1, <1>2, <3>2, <4>1, Zenon
    <3> QED BY <1>6, <3>1, <3>2
  <2>2. c \in 1 .. Count' /\ (scr'.ccs => c = 1)
    BY <1>1, <1>2, <1>6
  <2> QED BY <2>1, <2>2, Zenon DEF Transferring
<1>7. ASSUME NEW c \in 1 .. Count, todo = MovesFrom(L, c), inflight = None, Moving(c)
      PROVE  Transferring(L)'
  <2>1. inflight' = None /\ Moving(c)'
    BY <1>3, <1>7, DeviceQuiet, MovingStays
  <2>2. todo' = MovesFrom(L, c)' /\ c \in 1 .. Count'
    BY <1>1, <1>2, <1>7
  <2> QED BY <2>1, <2>2, Zenon DEF Transferring
<1>8. CASE call.op = "write" /\ todo = Then(<<"done">>, Stops) /\ inflight = None /\ Moved(Count, Count)
  <2>1. PICK k \in Nat : k = Count
    BY TransferOf DEF InTransfer
  <2>2. inflight' = None /\ Moved(k, k)'
    BY <1>3, <1>8, <2>1, DeviceQuiet, MovedStays
  <2>3. Moved(Count, Count)'
    BY <1>2, <2>1, <2>2, Zenon
  <2>4. call'.op = "write" /\ todo' = Then(<<"done">>, Stops')
    BY <1>1, <1>2, <1>8, Zenon
  <2> QED BY <2>2, <2>3, <2>4, Zenon DEF Transferring
<1>9. CASE todo = Command("STOP", 0, Ends) /\ scr.ccs /\ Over
           /\ IF phase = "wait" THEN Awaits("STOP", 0, TRUE, TRUE) ELSE inflight = None
  <2>1. Over' /\ (inflight' = inflight \/ inflight' = None) /\ ("CMD" \in intr' => "CMD" \in intr \/ inflight' = None)
    <3>1. CASE Respond
      <4>1. PICK x \in Codes, y \in Int : Responds(x, y)
        BY <3>1, RespondCases DEF Base, TypeInv
      <4>2. x = "STOP" /\ inflight' = None
        BY <1>9, <4>1 DEF Responds, Awaits, None
      <4> QED BY <1>9, <4>1, <4>2, StopAnswers
    <3>2. CASE ~Respond
      <4>1. inflight' = inflight /\ ("CMD" \in intr' => "CMD" \in intr)
        BY <3>2 DEF Device, Supply, AskForBlock, Program, DataDone, DataError
      <4> QED BY <1>9, <3>2, <4>1, OverStays
    <3> QED BY <3>1, <3>2
  <2>2. IF phase' = "wait" THEN Awaits("STOP", 0, TRUE, TRUE)' ELSE inflight' = None
    BY <1>1, <1>9, <2>1 DEF Awaits
  <2>3. todo' = Command("STOP", 0, Ends) /\ scr'.ccs
    BY <1>1, <1>9
  <2> QED BY <2>1, <2>2, <2>3, Zenon DEF Transferring
<1>10. CASE todo = Ends /\ Answered(TRUE) /\ Over /\ (inflight = None \/ (Inflight("STOP") /\ scr.ccs))
  <2>1. Over' /\ (inflight' = inflight \/ inflight' = None)
    <3>1. CASE Respond
      <4>1. PICK x \in Codes, y \in Int : Responds(x, y)
        BY <3>1, RespondCases DEF Base, TypeInv
      <4>2. x = "STOP" /\ inflight' = None
        BY <1>10, <4>1 DEF Responds, None, Inflight
      <4>3. inflight # None
        BY <4>1 DEF Responds, None
      <4> QED BY <1>10, <4>1, <4>2, <4>3, StopAnswers
    <3>2. CASE ~Respond
      <4>1. inflight' = inflight
        BY <3>2 DEF Device, Supply, AskForBlock, Program, DataDone, DataError
      <4> QED BY <1>10, <3>2, <4>1, OverStays
    <3> QED BY <3>1, <3>2
  <2>2. inflight' = None \/ (Inflight("STOP")' /\ scr'.ccs)
    BY <1>1, <1>10, <2>1 DEF Inflight
  <2>3. todo' = Ends /\ Answered(TRUE)'
    BY <1>1, <1>10, <2>1 DEF Answered
  <2> QED BY <2>1, <2>2, <2>3, Zenon DEF Transferring
<1> QED BY <1>4, <1>5, <1>6, <1>7, <1>8, <1>9, <1>10, Zenon DEF Transferring

LEMMA DeviceTransfer ==
  ASSUME Base, Device, TransferInv
  PROVE  TransferInv'
<1>1. UNCHANGED <<todo, call, scr, ret>>
  BY DeviceBase DEF software
<1>2. ASSUME call.op \in {"read", "write"}, NEW L, Layout(L), Transferring(L)
      PROVE  Layout(L)' /\ Transferring(L)'
  BY <1>1, <1>2, SameTransfer, TransferringStays
<1>3. call.op \in {"read", "write"} /\ ~Ended => \E L : Layout(L)' /\ Transferring(L)'
  BY <1>2, Zenon DEF TransferInv
<1>4. Ended' = Ended
  BY <1>1 DEF Ended
<1>5. CASE call.op \in {"read", "write"} /\ Ended /\ ret # 0
  <2>1. Over /\ inflight = None /\ ~Respond
    BY <1>5 DEF TransferInv, Respond
  <2>2. Over' /\ inflight' = None
    BY <1>5, <2>1, OverStays, DeviceQuiet
  <2> QED BY <1>1, <1>4, <1>5, <2>2, Zenon DEF TransferInv
<1>6. CASE ~(call.op \in {"read", "write"} /\ Ended /\ ret # 0)
  BY <1>1, <1>3, <1>4, <1>6, Zenon DEF TransferInv
<1> QED BY <1>5, <1>6

\* The card and the controller keep the whole invariant.
LEMMA DeviceKeeps ==
  ASSUME SdInv, Device
  PROVE  SdInv'
BY DeviceBase, DeviceInit, DeviceTransfer DEF SdInv, Base

-----------------------------------------------------------------------------
(* What the driver does, by the first of the steps it has yet to do.       *)

LEMMA DriverKinds ==
  ASSUME Driver
  PROVE  \/ Is("cmd") /\ (Issue \/ Answer)
         \/ Is("appck") /\ AppCheck
         \/ Is("check") /\ Check
         \/ Is("status") /\ Status
         \/ (Is("get") \/ Is("put") \/ Is("scr") \/ Is("done")) /\ Move
         \/ Is("blksize") /\ BlkSize
         \/ Is("end") /\ End
         \/ Is("reset") /\ Reset
         \/ Is("clk") /\ Clock
         \/ Is("try") /\ Try
         \/ Is("tried") /\ Tried
         \/ Is("rca") /\ TakeRca
         \/ Is("words") /\ Words
         \/ Is("width") /\ Width
<1>1. Issue \/ Answer => Is("cmd")
  BY Zenon DEF Issue, Answer
<1>2. AppCheck => Is("appck")
  BY Zenon DEF AppCheck
<1>3. Check => Is("check")
  BY Zenon DEF Check
<1>4. Status => Is("status")
  BY Zenon DEF Status
<1>5. Move => Is("get") \/ Is("put") \/ Is("scr") \/ Is("done")
  BY Zenon DEF Move
<1>6. BlkSize => Is("blksize")
  BY Zenon DEF BlkSize
<1>7. End => Is("end")
  BY Zenon DEF End
<1>8. Reset => Is("reset")
  BY Zenon DEF Reset
<1>9. Clock => Is("clk")
  BY Zenon DEF Clock
<1>10. Try => Is("try")
  BY Zenon DEF Try
<1>11. Tried => Is("tried")
  BY Zenon DEF Tried
<1>12. TakeRca => Is("rca")
  BY Zenon DEF TakeRca
<1>13. Words => Is("words")
  BY Zenon DEF Words
<1>14. Width => Is("width")
  BY Zenon DEF Width
<1> QED BY <1>1, <1>2, <1>3, <1>4, <1>5, <1>6, <1>7, <1>8, <1>9, <1>10, <1>11, <1>12, <1>13, <1>14, ZenonT(60)
        DEF Driver

\* Which step it is that the driver takes.
LEMMA DriverCases ==
  ASSUME Driver, NEW o \in Steps, NEW r \in Lists, todo = Then(o, r)
  PROVE  /\ Op = o /\ Tail(todo) = r /\ ~Ended /\ (\A w : Is(w) <=> o[1] = w)
         /\ o[1] = "cmd" => Issue \/ Answer
         /\ o[1] = "appck" => AppCheck
         /\ o[1] = "check" => Check
         /\ o[1] = "status" => Status
         /\ o[1] \in {"get", "put", "scr", "done"} => Move
         /\ o[1] = "blksize" => BlkSize
         /\ o[1] = "end" => End
         /\ o[1] = "reset" => Reset
         /\ o[1] = "clk" => Clock
         /\ o[1] = "try" => Try
         /\ o[1] = "tried" => Tried
         /\ o[1] = "rca" => TakeRca
         /\ o[1] = "words" => Words
         /\ o[1] = "width" => Width
<1>1. Op = o /\ Tail(todo) = r /\ ~Ended /\ \A w : Is(w) <=> o[1] = w
  BY AtFront
<1>2. PICK w : w = o[1]
  OBVIOUS
<1> HIDE DEF Is, Issue, Answer, AppCheck, Check, Status, Move, BlkSize, End, Reset, Clock, Try, Tried, TakeRca, Words, Width
<1>3. \/ w = "cmd" /\ (Issue \/ Answer)
      \/ w = "appck" /\ AppCheck
      \/ w = "check" /\ Check
      \/ w = "status" /\ Status
      \/ w \in {"get", "put", "scr", "done"} /\ Move
      \/ w = "blksize" /\ BlkSize
      \/ w = "end" /\ End
      \/ w = "reset" /\ Reset
      \/ w = "clk" /\ Clock
      \/ w = "try" /\ Try
      \/ w = "tried" /\ Tried
      \/ w = "rca" /\ TakeRca
      \/ w = "words" /\ Words
      \/ w = "width" /\ Width
  BY <1>1, <1>2, DriverKinds
<1> QED BY <1>1, <1>2, <1>3

\* What none of the waits and commands changes.
Steady == <<kind, disk, card, busy, dat, blk, more, hostWide, dead, rca, scr, started, call, calls, asked>>

\* A command is written, has failed, or is answered.
Issued(c, a) ==
  /\ phase = "issue" /\ inflight = None /\ "ERR" \notin intr
  /\ todo' = todo /\ phase' = "wait" /\ intr' = {} /\ reply' = ""
  /\ inflight' = <<c, IF a = TheRca THEN rca ELSE a>>
Failed(r) ==
  todo' = r /\ phase' = "issue" /\ inflight' = inflight /\ err' \in {SD_TIMEOUT, SD_ERROR}
  /\ (intr' = intr \/ intr' = {}) /\ reply' = ""
Answers(r) ==
  /\ phase = "wait" /\ "CMD" \in intr /\ "ERR" \notin intr
  /\ todo' = r /\ phase' = "issue" /\ inflight' = inflight /\ intr' = intr \ {"CMD"} /\ err' = err /\ reply' = reply

LEMMA GivesUpFacts ==
  ASSUME NEW come, GivesUp(come)
  PROVE  faults' = faults \/ Fault
BY Zenon DEF GivesUp

LEMMA CommandStep ==
  ASSUME Driver, NEW c \in Codes, NEW a \in Int, NEW keep \in BOOLEAN, NEW r \in Lists,
         todo = Then(<<"cmd", c, a, keep>>, r)
  PROVE  /\ UNCHANGED <<Steady, fifo, out, ret>> /\ (faults' = faults \/ Fault)
         /\ Issued(c, a) \/ Failed(r) \/ Answers(r)
<1>1. PICK o \in Steps : o = <<"cmd", c, a, keep>> /\ o[1] = "cmd" /\ o[2] = c /\ o[3] = a /\ o[4] = keep
  BY StepFacts
<1>2. Op = o /\ Tail(todo) = r /\ (Issue \/ Answer)
  BY <1>1, DriverCases
<1>3. CASE Issue
  <2>1. UNCHANGED <<Steady, fifo, out, ret>> /\ phase = "issue"
    BY <1>3 DEF Issue, Steady
  <2>2. \/ inflight = None /\ "ERR" \notin intr /\ phase' = "wait" /\ intr' = {} /\ reply' = "" /\ todo' = todo
           /\ faults' = faults /\ inflight' = <<Op[2], IF Op[3] = TheRca THEN rca ELSE Op[3]>>
        \/ /\ faults' = faults \/ Fault
           /\ err' = SD_TIMEOUT /\ todo' = Tail(todo) /\ reply' = "" /\ inflight' = inflight /\ intr' = intr
           /\ phase' = phase
    <3>1. \A come : GivesUp(come) => faults' = faults \/ Fault
      BY GivesUpFacts
    <3> QED BY <1>3, <3>1, Zenon DEF Issue, Next_
  <2> QED BY <1>1, <1>2, <2>1, <2>2, Zenon DEF Issued, Failed
<1>4. CASE Answer
  <2>1. UNCHANGED <<Steady, fifo, out, ret>> /\ phase = "wait" /\ phase' = "issue" /\ todo' = Tail(todo) /\ inflight' = inflight
    BY <1>4 DEF Answer, Steady, Next_
  <2>2. \/ intr' = {} /\ err' \in {SD_TIMEOUT, SD_ERROR} /\ reply' = "" /\ faults' = faults
        \/ "ERR" \notin intr /\ "CMD" \in intr /\ intr' = intr \ {"CMD"} /\ UNCHANGED <<err, reply, faults>>
        \/ (faults' = faults \/ Fault) /\ intr' = {} /\ err' = SD_TIMEOUT /\ reply' = ""
    BY <1>4, GivesUpFacts, Zenon DEF Answer
  <2> QED BY <1>2, <2>1, <2>2 DEF Failed, Answers
<1> QED BY <1>2, <1>3, <1>4

\* What a wait for data line, interrupt or clock leaves alone.
Quiet == <<Steady, inflight, intr, fifo, reply, out>>

LEMMA CheckStep ==
  ASSUME Driver, NEW r \in Lists, todo = Checks(r)
  PROVE  /\ UNCHANGED <<Quiet, err, faults>>
         /\ \/ err = SD_OK /\ todo' = r /\ UNCHANGED <<phase, ret>>
            \/ err # SD_OK /\ todo' = <<>> /\ phase' = "issue" /\ ret' = Fails
<1>1. PICK o \in Steps : o = <<"check">> /\ o[1] = "check"
  BY StepFacts
<1>2. Op = o /\ Tail(todo) = r /\ Check
  BY <1>1, DriverCases DEF Checks
<1> QED BY <1>2 DEF Check, Steady, Quiet, chip, Return, Next_

LEMMA AppCheckStep ==
  ASSUME Driver, NEW c \in Codes, NEW a \in Int, NEW r \in Lists, todo = AppChecks(c, a, r)
  PROVE  /\ UNCHANGED <<Steady, inflight, intr, fifo, out, phase, ret, faults>> /\ reply' \in {"", reply}
         /\ (todo' = AppCmd(c, a, r) /\ err' = err) \/ (todo' = r /\ err' = SD_ERROR)
<1>1. PICK o \in Steps : o = <<"appck">> /\ o[1] = "appck"
  BY StepFacts
<1>2. PICK x \in Lists : x = AppCmd(c, a, r)
  BY StepThen
<1>3. Op = o /\ Tail(todo) = x /\ AppCheck
  BY <1>1, <1>2, DriverCases DEF AppChecks
<1>4. Tail(x) = r
  <2>1. PICK p \in Steps : p = <<"cmd", c, a, TRUE>>
    BY StepFacts
  <2>2. x = Then(p, r)
    BY <1>2, <2>1, Zenon DEF AppCmd
  <2> QED BY <2>2, ThenFacts
<1>5. UNCHANGED <<Steady, inflight, intr, fifo, out, phase, ret, faults>>
  BY <1>3 DEF AppCheck, Steady, controller
<1>6. \/ err' = SD_ERROR /\ todo' = Tail(Tail(todo)) /\ reply' = ""
      \/ err' = err /\ todo' = Tail(todo) /\ reply' = reply
  BY <1>3, Zenon DEF AppCheck, Next_
<1> QED BY <1>2, <1>3, <1>4, <1>5, <1>6

LEMMA StatusStep ==
  ASSUME Driver, NEW r \in Lists, todo = Then(<<"status">>, r)
  PROVE  /\ UNCHANGED Quiet /\ (faults' = faults \/ Fault) /\ err' \in {err, SD_TIMEOUT}
         /\ \/ ~dat /\ "ERR" \notin intr /\ todo' = r /\ UNCHANGED <<phase, ret, err>>
            \/ todo' = <<>> /\ phase' = "issue" /\ ret' = (IF call.op = "init" THEN SD_TIMEOUT ELSE 0)
<1>1. PICK o \in Steps : o = <<"status">> /\ o[1] = "status"
  BY StepFacts
<1>2. Op = o /\ Tail(todo) = r /\ Status
  BY <1>1, DriverCases
<1>3. UNCHANGED Quiet
  BY <1>2 DEF Status, Steady, Quiet, chip
<1>4. \/ ~dat /\ "ERR" \notin intr /\ todo' = Tail(todo) /\ UNCHANGED <<phase, ret, err, faults>>
      \/ (faults' = faults \/ Fault) /\ err' = (IF call.op = "init" THEN err ELSE SD_TIMEOUT)
         /\ todo' = <<>> /\ phase' = "issue" /\ ret' = (IF call.op = "init" THEN SD_TIMEOUT ELSE 0)
  BY <1>2, GivesUpFacts, Zenon DEF Status, Next_, Return
<1> QED BY <1>2, <1>3, <1>4

LEMMA WaitStep ==
  ASSUME Driver, NEW w \in {"scr", "done"}, NEW r \in Lists, todo = Then(<<w>>, r)
  PROVE  /\ UNCHANGED <<Steady, inflight, reply, fifo, out>> /\ (faults' = faults \/ Fault)
         /\ \/ /\ "ERR" \notin intr /\ (IF w = "scr" THEN "READ" ELSE "DONE") \in intr
               /\ intr' = intr \ {IF w = "scr" THEN "READ" ELSE "DONE"} /\ todo' = r
               /\ UNCHANGED <<phase, ret, err>>
            \/ /\ intr' = {} /\ err' \in {SD_TIMEOUT, SD_ERROR} /\ todo' = <<>> /\ phase' = "issue"
               /\ ret' = (IF call.op = "init" THEN SD_TIMEOUT ELSE 0)
<1>1. PICK o \in Steps : o = <<w>> /\ o[1] = w
  BY StepFacts
<1>2. Op = o /\ Tail(todo) = r /\ Move /\ (\A v : Is(v) <=> v = w)
  BY <1>1, DriverCases
<1>3. UNCHANGED <<Steady, inflight, reply>>
  BY <1>2, Zenon DEF Move, Steady
<1>4. \/ w = "scr" /\ Await("READ", UNCHANGED <<fifo, out>>)
      \/ w = "done" /\ Await("DONE", UNCHANGED <<fifo, out>>)
  <2>1. ~Is("get") /\ ~Is("put") /\ (Is("scr") <=> w = "scr") /\ (Is("done") <=> w = "done")
    BY <1>2
  <2> QED BY <1>2, <2>1, Zenon DEF Move
<1>5. ASSUME NEW flag, Await(flag, UNCHANGED <<fifo, out>>)
      PROVE  /\ UNCHANGED <<fifo, out>> /\ (faults' = faults \/ Fault)
             /\ \/ /\ "ERR" \notin intr /\ flag \in intr /\ intr' = intr \ {flag} /\ todo' = Tail(todo)
                   /\ UNCHANGED <<phase, ret, err>>
                \/ /\ intr' = {} /\ err' \in {SD_TIMEOUT, SD_ERROR} /\ todo' = <<>> /\ phase' = "issue"
                   /\ ret' = (IF call.op = "init" THEN SD_TIMEOUT ELSE 0)
  BY <1>5, GivesUpFacts, Zenon DEF Await, Return, Next_
<1>6. CASE w = "scr"
  BY <1>2, <1>3, <1>4, <1>5, <1>6
<1>7. CASE w = "done"
  BY <1>2, <1>3, <1>4, <1>5, <1>7
<1> QED BY <1>6, <1>7

LEMMA GetStep ==
  ASSUME Driver, NEW c \in Nat \ {0}, NEW r \in Lists, todo = Then(<<"get", c>>, r)
  PROVE  /\ UNCHANGED <<Steady, inflight, reply>> /\ (faults' = faults \/ Fault)
         /\ \/ /\ "ERR" \notin intr /\ "READ" \in intr /\ intr' = intr \ {"READ"} /\ todo' = r
               /\ out' = Append(out, fifo) /\ fifo' = None /\ UNCHANGED <<phase, ret, err>>
            \/ /\ intr' = {} /\ err' \in {SD_TIMEOUT, SD_ERROR} /\ todo' = <<>> /\ phase' = "issue"
               /\ ret' = (IF call.op = "init" THEN SD_TIMEOUT ELSE 0) /\ UNCHANGED <<fifo, out>>
<1>1. PICK o \in Steps : o = <<"get", c>> /\ o[1] = "get"
  BY StepFacts
<1>2. Op = o /\ Tail(todo) = r /\ Move /\ (\A v : Is(v) <=> v = "get")
  BY <1>1, DriverCases
<1>3. UNCHANGED <<Steady, inflight, reply>>
  BY <1>2, Zenon DEF Move, Steady
<1>4. Await("READ", out' = Append(out, fifo) /\ fifo' = None)
  <2>1. ~Is("put") /\ ~Is("scr") /\ ~Is("done")
    BY <1>2
  <2> QED BY <1>2, <2>1, Zenon DEF Move
<1> QED BY <1>2, <1>3, <1>4, GivesUpFacts, Zenon DEF Await, Return, Next_

LEMMA PutStep ==
  ASSUME Driver, NEW c \in Nat \ {0}, NEW r \in Lists, todo = Then(<<"put", c>>, r)
  PROVE  /\ UNCHANGED <<Steady, inflight, reply, out>> /\ (faults' = faults \/ Fault)
         /\ \/ /\ "ERR" \notin intr /\ "WRITE" \in intr /\ intr' = intr \ {"WRITE"} /\ todo' = r
               /\ fifo' = <<calls, c>> /\ UNCHANGED <<phase, ret, err>>
            \/ /\ intr' = {} /\ err' \in {SD_TIMEOUT, SD_ERROR} /\ todo' = <<>> /\ phase' = "issue"
               /\ ret' = (IF call.op = "init" THEN SD_TIMEOUT ELSE 0) /\ UNCHANGED fifo
<1>1. PICK o \in Steps : o = <<"put", c>> /\ o[1] = "put" /\ o[2] = c
  BY StepFacts
<1>2. Op = o /\ Tail(todo) = r /\ Move /\ (\A v : Is(v) <=> v = "put")
  BY <1>1, DriverCases
<1>3. UNCHANGED <<Steady, inflight, reply>>
  BY <1>2, Zenon DEF Move, Steady
<1>4. Await("WRITE", fifo' = <<calls, Op[2]>> /\ out' = out)
  <2>1. ~Is("get") /\ ~Is("scr") /\ ~Is("done")
    BY <1>2
  <2> QED BY <1>2, <2>1, Zenon DEF Move
<1>5. Await("WRITE", fifo' = <<calls, c>> /\ out' = out)
  BY <1>1, <1>2, <1>4, Zenon
<1> QED BY <1>2, <1>3, <1>5, GivesUpFacts, Zenon DEF Await, Return, Next_

LEMMA SizeStep ==
  ASSUME Driver, NEW k \in Nat \ {0}, NEW r \in Lists, todo = Then(<<"blksize", k>>, r)
  PROVE  /\ blk' = k /\ todo' = r
         /\ UNCHANGED <<kind, disk, card, busy, inflight, reply, intr, dat, more, fifo, hostWide, dead,
                        phase, err, rca, scr, started, call, out, ret, calls, faults, asked>>
<1>1. PICK o \in Steps : o = <<"blksize", k>> /\ o[1] = "blksize" /\ o[2] = k
  BY StepFacts
<1>2. Op = o /\ Tail(todo) = r /\ BlkSize
  BY <1>1, DriverCases
<1> QED BY <1>1, <1>2 DEF BlkSize, Next_

LEMMA EndStep ==
  ASSUME Driver, todo = Ends
  PROVE  /\ UNCHANGED <<kind, disk, chip, err, rca, scr, call, out, calls, faults, asked>>
         /\ started' = (started \/ call.op = "init") /\ todo' = <<>> /\ phase' = "issue"
         /\ ret' = CASE call.op = "init" -> SD_OK
                      [] call.op # "init" /\ err # SD_OK -> 0
                      [] OTHER -> Count
<1>1. PICK o \in Steps : o = <<"end">> /\ o[1] = "end"
  BY StepFacts
<1>2. End
  BY <1>1, ThenFacts, DriverCases DEF Ends
<1> QED BY <1>2 DEF End, Return, Count

\* The steps of sd_init alone.
LEMMA ResetStep ==
  ASSUME Driver, todo = Resets
  PROVE  /\ UNCHANGED <<kind, disk, card, busy, dead, err, rca, scr, started, call, out, calls, asked>>
         /\ hostWide' = FALSE /\ reply' = "" /\ (faults' = faults \/ Fault)
         /\ \/ UNCHANGED <<inflight, intr, dat, blk, more, fifo>>
            \/ inflight' = None /\ intr' = {} /\ dat' = FALSE /\ blk' = 0 /\ more' = 0 /\ fifo' = None
         /\ \/ todo' = Clock0 /\ UNCHANGED <<phase, ret>>
            \/ todo' = <<>> /\ phase' = "issue" /\ ret' = SD_ERROR
<1>1. PICK o \in Steps : o = <<"reset">> /\ o[1] = "reset"
  BY StepFacts
<1>2. Tail(todo) = Clock0 /\ Reset
  BY <1>1, InitLists, DriverCases DEF Resets
<1> QED BY <1>2, Zenon DEF Reset, Return, Next_

LEMMA ClockStep ==
  ASSUME Driver, NEW r \in Lists, todo = Then(<<"clk">>, r)
  PROVE  /\ UNCHANGED <<Quiet, err>> /\ (faults' = faults \/ Fault)
         /\ \/ inflight = None /\ ~dat /\ todo' = r /\ UNCHANGED <<phase, ret>>
            \/ todo' = <<>> /\ phase' = "issue" /\ ret' = SD_ERROR
<1>1. PICK o \in Steps : o = <<"clk">> /\ o[1] = "clk"
  BY StepFacts
<1>2. Tail(todo) = r /\ Clock
  BY <1>1, DriverCases
<1>3. UNCHANGED <<Quiet, err>>
  BY <1>2 DEF Clock, Steady, Quiet, chip
<1> QED BY <1>2, <1>3, GivesUpFacts, Zenon DEF Clock, Return, Next_

LEMMA TryStep ==
  ASSUME Driver, NEW k \in Nat, todo = TryFrom(k)
  PROVE  /\ UNCHANGED <<Quiet, err, faults>>
         /\ \/ todo' = <<>> /\ phase' = "issue" /\ ret' = SD_TIMEOUT
            \/ k > 0 /\ todo' = AppCommand("OP_COND", 0, TriedFrom(k - 1)) /\ UNCHANGED <<phase, ret>>
<1>1. PICK o \in Steps : o = <<"try", k>> /\ o[1] = "try" /\ o[2] = k
  <2>1. <<"try", k>> \in Steps
    BY DEF Steps
  <2> QED BY <2>1
<1>2. Op = o /\ Tail(todo) = Ends /\ Try
  BY <1>1, InitLists, DriverCases DEF TryFrom
<1>3. UNCHANGED <<Quiet, err, faults>>
  BY <1>2 DEF Try, Steady, Quiet, chip
<1>4. IF k = 0 THEN todo' = <<>> /\ phase' = "issue" /\ ret' = SD_TIMEOUT
      ELSE todo' = Cmd("OP_COND", 0) \o << <<"tried", k - 1>> >> \o Ends /\ UNCHANGED <<phase, ret>>
  BY <1>1, <1>2, Zenon DEF Try, Return
<1>5. CASE k = 0
  BY <1>3, <1>4, <1>5
<1>6. CASE k # 0
  <2>1. PICK m \in Nat : m = k - 1
    BY <1>6
  <2>2. (Cmd("OP_COND", 0) \o << <<"tried", m>> >>) \o Ends = AppCommand("OP_COND", 0, TriedFrom(m))
    BY InitPrograms
  <2>3. todo' = AppCommand("OP_COND", 0, TriedFrom(k - 1)) /\ UNCHANGED <<phase, ret>>
    BY <1>4, <1>6, <2>1, <2>2, Zenon
  <2> QED BY <1>3, <1>6, <2>3
<1> QED BY <1>5, <1>6

LEMMA TriedStep ==
  ASSUME Driver, NEW k \in Nat, todo = TriedFrom(k)
  PROVE  /\ UNCHANGED <<kind, disk, chip, err, rca, started, call, out, calls, faults, asked>>
         /\ \/ todo' = <<>> /\ phase' = "issue" /\ ret' \in {SD_ERROR, SD_TIMEOUT} /\ scr' = scr
            \/ todo' = TryFrom(k) /\ UNCHANGED <<phase, ret, scr>>
            \/ /\ reply \in {"complete", "complete ccs"} /\ scr' = [scr EXCEPT !.ccs = (reply = "complete ccs")]
               /\ todo' = Cid /\ UNCHANGED <<phase, ret>>
<1>1. PICK o \in Steps : o = <<"tried", k>> /\ o[1] = "tried" /\ o[2] = k
  <2>1. <<"tried", k>> \in Steps
    BY DEF Steps
  <2> QED BY <2>1
<1>2. Op = o /\ Tail(todo) = Ends /\ Tried
  BY <1>1, InitLists, DriverCases DEF TriedFrom
<1>3. UNCHANGED <<kind, disk, chip, err, rca, started, call, out, calls, faults, asked>>
  BY <1>2, Zenon DEF Tried
<1>4. CASE err = SD_ERROR
  BY <1>2, <1>3, <1>4 DEF Tried, Return
<1>5. CASE err # SD_ERROR /\ ~Complete
  <2>1. todo' = << <<"try", k>> >> \o Ends /\ UNCHANGED <<phase, ret, scr>>
    BY <1>1, <1>2, <1>5 DEF Tried
  <2> QED BY <1>3, <2>1, Zenon DEF TryFrom, Then
<1>6. CASE err # SD_ERROR /\ Complete /\ k = 0
  BY <1>1, <1>2, <1>3, <1>6 DEF Tried, Return
<1>7. CASE err # SD_ERROR /\ Complete /\ k # 0
  <2>1. scr' = [scr EXCEPT !.ccs = (reply = "complete ccs")] /\ todo' = CardOps \o Ends /\ UNCHANGED <<phase, ret>>
    BY <1>1, <1>2, <1>7 DEF Tried
  <2> QED BY <1>3, <1>7, <2>1, InitPrograms, Zenon DEF Complete
<1> QED BY <1>4, <1>5, <1>6, <1>7

LEMMA RcaStep ==
  ASSUME Driver, todo = Rca
  PROVE  /\ UNCHANGED <<kind, disk, chip, phase, err, scr, started, call, out, ret, calls, faults, asked>>
         /\ rca' = (IF reply = "rca" THEN 1 ELSE 0) /\ todo' = Checks(Clocks)
<1>1. PICK o \in Steps : o = <<"rca">> /\ o[1] = "rca"
  BY StepFacts
<1>2. Checks(Clocks) \in Lists
  BY InitLists, StepThen
<1>3. Tail(todo) = Checks(Clocks) /\ TakeRca
  BY <1>1, <1>2, DriverCases DEF Rca
<1> QED BY <1>3, Zenon DEF TakeRca, Next_

LEMMA WordsStep ==
  ASSUME Driver, todo = WordsEnd
  PROVE  /\ UNCHANGED <<kind, disk, card, busy, inflight, reply, intr, dat, blk, more, hostWide, dead, phase,
                        err, rca, started, call, out, ret, calls, faults, asked>>
         /\ scr' = [kind EXCEPT !.ccs = scr.ccs] /\ fifo' = None
         /\ todo' = IF kind.wide THEN AppCommand("WIDTH", 4, Checks(Widens)) ELSE Ends
<1>1. PICK o \in Steps : o = <<"words">> /\ o[1] = "words"
  BY StepFacts
<1>2. Tail(todo) = Ends /\ Words
  BY <1>1, InitLists, DriverCases DEF WordsEnd
<1>3. todo' = (IF kind.wide THEN WidthOps ELSE <<>>) \o Ends
  BY <1>2, Zenon DEF Words
<1>4. <<>> \o Ends = Ends
  BY InitLists DEF Lists
<1>5. todo' = IF kind.wide THEN AppCommand("WIDTH", 4, Checks(Widens)) ELSE Ends
  <2>1. CASE kind.wide
    BY <1>3, <2>1, InitPrograms, Zenon
  <2>2. CASE ~kind.wide
    BY <1>3, <1>4, <2>2, Zenon
  <2> QED BY <2>1, <2>2, Zenon
<1> QED BY <1>2, <1>5, Zenon DEF Words

LEMMA WidthStep ==
  ASSUME Driver, todo = Widens
  PROVE  /\ UNCHANGED <<kind, disk, controller, reply, phase, err, rca, scr, started, call, out, ret, calls,
                        faults, asked>>
         /\ hostWide' = TRUE /\ todo' = Ends
<1>1. PICK o \in Steps : o = <<"width">> /\ o[1] = "width"
  BY StepFacts
<1>2. Tail(todo) = Ends /\ Width
  BY <1>1, InitLists, DriverCases DEF Widens
<1> QED BY <1>2, Zenon DEF Width, Next_

-----------------------------------------------------------------------------
(* sd_init, step by step.                                                  *)

InitFails == Ended /\ ret # SD_OK

\* Every position of sd_init is a list that is not empty.
LEMMA InitPositions == Initialising => todo \in Lists /\ ~Ended
<1> USE CodeFacts, InitLists
<1> DEFINE Has(x) == x \in Lists /\ x # <<>>
<1>1. ASSUME NEW r \in Lists
      PROVE  Has(Checks(r)) /\ \A w \in {"reset", "clk", "status", "rca", "scr", "words", "width", "end"} :
                                  Has(Then(<<w>>, r))
  BY StepFacts, ThenFacts DEF Checks
<1>2. ASSUME NEW r \in Lists, NEW c \in Codes, NEW a \in Int
      PROVE  Has(Command(c, a, r)) /\ Has(AppCmd(c, a, r)) /\ Has(AppChecks(c, a, r)) /\ Has(AppCommand(c, a, r))
  <2>1. ASSUME NEW d \in Codes, NEW b \in Int, NEW keep \in BOOLEAN, NEW q \in Lists
        PROVE  Has(Then(<<"cmd", d, b, keep>>, q))
    BY StepFacts, ThenFacts
  <2>2. AppCmd(c, a, r) \in Lists /\ AppChecks(c, a, r) \in Lists
    BY StepThen
  <2>3. Has(Then(<<"appck">>, AppCmd(c, a, r)))
    BY <2>2, StepFacts, ThenFacts
  <2> QED BY <2>1, <2>2, <2>3 DEF Command, AppCmd, AppChecks, AppCommand
<1>3. ASSUME NEW r \in Lists, NEW k \in Nat
      PROVE  Has(Then(<<"try", k>>, r)) /\ Has(Then(<<"tried", k>>, r)) /\ Has(Then(<<"blksize", 1>>, r))
  <2>1. <<"try", k>> \in Steps /\ <<"tried", k>> \in Steps /\ <<"blksize", 1>> \in Steps
    BY DEF Steps
  <2> QED BY <2>1, ThenFacts
<1>4. <<>> \in Lists
  BY ThenFacts
<1>5. Has(Ends) /\ Has(Widens) /\ Has(WordsEnd) /\ Has(Scr) /\ Has(Asks) /\ Has(Clocks) /\ Has(Rca)
      /\ Has(Clock0) /\ Has(Resets)
  <2>1. Checks(Clocks) \in Lists
    BY StepThen
  <2> QED BY <1>1, <1>4, <2>1 DEF Ends, Widens, WordsEnd, Scr, Asks, Clocks, Rca, Clock0, Resets
<1>6. Has(Checks(Scr)) /\ Has(Checks(Asks)) /\ Has(Checks(Clocks)) /\ Has(Checks(IfCond))
      /\ Has(Checks(Widens))
  BY <1>1
<1>7. Has(Sizes)
  <2>1. AppCommand("SCR", 0, Checks(Scr)) \in Lists
    BY <1>2, <1>6
  <2>2. 1 \in Nat
    OBVIOUS
  <2> QED BY <1>3, <2>1, <2>2 DEF Sizes
<1>8. Tries \in Nat /\ \A k \in Nat : Has(TryFrom(k)) /\ Has(TriedFrom(k))
  BY <1>3, SdAssumption DEF TryFrom, TriedFrom
<1>9. Has(Checks(TryFrom(Tries)))
  BY <1>1, <1>8
<1>10. Has(Select) /\ Has(RelAddr) /\ Has(Cid) /\ Has(IfCond) /\ Has(Idle)
  BY <1>2, <1>6, <1>9 DEF Select, RelAddr, Cid, IfCond, Idle
<1>11. \A k \in Nat : OpConds(k) => Has(todo)
  BY <1>2, <1>8 DEF OpConds
<1>12. \A c \in {"SCR", "WIDTH"}, a \in {0, 4} : \A r \in {Checks(Scr), Checks(Widens)} :
         Has(AppCommand(c, a, r)) /\ Has(AppChecks(c, a, r)) /\ Has(AppCmd(c, a, r))
  BY <1>2, <1>6, ZenonT(60)
<1> HIDE DEF Has
<1>13. Waking => Has(todo)
  BY <1>5, <1>6, <1>9, <1>10, <1>11 DEF Waking
<1>14. Naming => Has(todo)
  BY <1>5, <1>6, <1>7, <1>10, <1>12 DEF Naming
<1>15. Reading => Has(todo)
  BY <1>5, <1>6, <1>12 DEF Reading
<1>16. Widening => Has(todo)
  BY <1>5, <1>6, <1>12 DEF Widening
<1> QED BY <1>5, <1>13, <1>14, <1>15, <1>16 DEF Initialising, Has, Ended

LEMMA WakingMoves ==
  ASSUME Base, Driver, call.op = "init", Waking
  PROVE  Initialising' \/ InitFails'
<1> USE CodeFacts, InitLists
<1>1. SD_ERROR # SD_OK /\ SD_TIMEOUT # SD_OK
  BY DEF SD_ERROR, SD_OK, SD_TIMEOUT
<1>2. ASSUME NEW r \in Lists, todo = Checks(r), Calm, ~hostWide, todo' = r => Waking' \/ ~Calm' \/ hostWide'
      PROVE  Waking' \/ InitFails'
  <2>1. Calm' /\ ~hostWide'
    BY <1>2, CheckStep DEF Steady, Quiet, Calm, Inflight
  <2> QED BY <1>2, <2>1, CheckStep DEF InitFails, Ended, Fails
<1>3. ASSUME NEW c \in Codes, NEW a \in Int, NEW keep \in BOOLEAN, NEW r \in Lists, c \notin DataCommands,
             todo = Then(<<"cmd", c, a, keep>>, r), Calm, ~hostWide
      PROVE  Calm' /\ ~hostWide' /\ (todo' = todo \/ todo' = r)
  <2>1. UNCHANGED Steady /\ (Issued(c, a) \/ Failed(r) \/ Answers(r))
    BY <1>3, CommandStep
  <2>2. dat' = dat /\ hostWide' = hostWide
    BY <2>1 DEF Steady
  <2>3. inflight' = inflight \/ \E b : inflight' = <<c, b>>
    BY <2>1 DEF Issued, Failed, Answers
  <2>4. \A d \in DataCommands : ~Inflight(d)'
    BY <1>3, <2>3 DEF Calm, Inflight
  <2> QED BY <1>3, <2>1, <2>2, <2>4 DEF Calm, Issued, Failed, Answers
<1>4. CASE todo = Resets
  BY <1>1, <1>4, ResetStep DEF Waking, InitFails, Ended, Initialising
<1>5. CASE todo = Clock0 /\ ~hostWide
  <2>1. /\ UNCHANGED <<Quiet, err>>
        /\ \/ inflight = None /\ ~dat /\ todo' = Idle
           \/ todo' = <<>> /\ ret' = SD_ERROR
    BY <1>5, ClockStep, Zenon DEF Clock0
  <2>2. inflight = None /\ ~dat => Calm' /\ ~hostWide'
    BY <1>5, <2>1, NothingInflight DEF Quiet, Steady, Calm
  <2> QED BY <1>1, <2>1, <2>2 DEF Waking, InitFails, Ended, Initialising
<1>6. CASE todo \in {Idle, Checks(IfCond), IfCond, Checks(TryFrom(Tries))} /\ Calm /\ ~hostWide
  <2>1. TryFrom(Tries) \in Lists /\ Tries \in Nat
    BY SdAssumption
  <2>2. CASE todo = Idle
    <3>1. Checks(IfCond) \in Lists /\ "GO_IDLE" \notin DataCommands
      BY StepThen DEF DataCommands
    <3>2. Calm' /\ ~hostWide' /\ (todo' = todo \/ todo' = Checks(IfCond))
      BY <1>3, <1>6, <2>2, <3>1 DEF Idle, Command
    <3> QED BY <2>2, <3>2 DEF Waking, Initialising
  <2>3. CASE todo = IfCond
    <3>1. Checks(TryFrom(Tries)) \in Lists /\ "IF_COND" \notin DataCommands
      BY <2>1, StepThen DEF DataCommands
    <3>2. Calm' /\ ~hostWide' /\ (todo' = todo \/ todo' = Checks(TryFrom(Tries)))
      BY <1>3, <1>6, <2>3, <3>1 DEF IfCond, Command
    <3> QED BY <2>3, <3>2 DEF Waking, Initialising
  <2>4. CASE todo = Checks(IfCond)
    <3>1. todo' = IfCond /\ Calm' /\ ~hostWide' => Waking'
      BY DEF Waking
    <3> QED BY <1>2, <1>6, <2>4, <3>1 DEF Initialising
  <2>5. CASE todo = Checks(TryFrom(Tries))
    <3>1. todo' = TryFrom(Tries) /\ Calm' /\ ~hostWide' => Waking'
      BY <2>1 DEF Waking, OpConds
    <3> QED BY <1>2, <1>6, <2>1, <2>5, <3>1 DEF Initialising
  <2> QED BY <1>6, <2>2, <2>3, <2>4, <2>5
<1>7. ASSUME NEW k \in Nat, OpConds(k), Calm, ~hostWide
      PROVE  Initialising' \/ InitFails'
  <2>1. PICK t \in Lists : t = TriedFrom(k)
    OBVIOUS
  <2>2. \A j \in Nat : OpConds(j)' /\ Calm' /\ ~hostWide' => Initialising'
    BY DEF Waking, Initialising
  <2>3. AppChecks("OP_COND", 0, t) \in Lists /\ AppCmd("OP_COND", 0, t) \in Lists
    BY StepThen
  <2>4. "APP" \notin DataCommands /\ "OP_COND" \notin DataCommands
    BY DEF DataCommands
  <2>5. CASE todo = TryFrom(k)
    <3>1. Calm' /\ ~hostWide'
      BY <1>7, <2>5, TryStep DEF Quiet, Steady, Calm, Inflight
    <3>2. CASE todo' = <<>> /\ ret' = SD_TIMEOUT
      BY <1>1, <3>2 DEF InitFails, Ended
    <3>3. CASE k > 0 /\ todo' = AppCommand("OP_COND", 0, TriedFrom(k - 1))
      <4>1. k - 1 \in Nat /\ OpConds(k - 1)'
        BY <3>3 DEF OpConds
      <4> QED BY <2>2, <3>1, <4>1
    <3> QED BY <2>5, <3>2, <3>3, TryStep
  <2>6. CASE todo = AppCommand("OP_COND", 0, t)
    <3>1. Calm' /\ ~hostWide' /\ (todo' = todo \/ todo' = AppChecks("OP_COND", 0, t))
      BY <1>3, <1>7, <2>3, <2>4, <2>6 DEF AppCommand, Command
    <3> QED BY <2>1, <2>2, <2>6, <3>1 DEF OpConds
  <2>7. CASE todo = AppChecks("OP_COND", 0, t)
    <3>1. UNCHANGED <<Steady, inflight>> /\ (todo' = AppCmd("OP_COND", 0, t) \/ todo' = t)
      BY <2>7, AppCheckStep
    <3>2. Calm' /\ ~hostWide'
      BY <1>7, <3>1 DEF Steady, Calm, Inflight
    <3> QED BY <2>1, <2>2, <3>1, <3>2 DEF OpConds
  <2>8. CASE todo = AppCmd("OP_COND", 0, t)
    <3>1. Calm' /\ ~hostWide' /\ (todo' = todo \/ todo' = t)
      BY <1>3, <1>7, <2>4, <2>8 DEF AppCmd
    <3> QED BY <2>1, <2>2, <2>8, <3>1 DEF OpConds
  <2>9. CASE todo = TriedFrom(k)
    <3>1. UNCHANGED <<kind, chip>>
      BY <2>9, TriedStep
    <3>2. Calm' /\ ~hostWide'
      BY <1>7, <3>1 DEF chip, Calm, Inflight
    <3>3. CASE todo' = <<>> /\ ret' \in {SD_ERROR, SD_TIMEOUT}
      BY <1>1, <3>3 DEF InitFails, Ended
    <3>4. CASE todo' = TryFrom(k)
      BY <2>2, <3>2, <3>4 DEF OpConds
    <3>5. CASE /\ reply \in {"complete", "complete ccs"} /\ scr' = [scr EXCEPT !.ccs = (reply = "complete ccs")]
               /\ todo' = Cid
      <4>1. scr \in Kinds /\ kind \in Kinds
        BY DEF Base, TypeInv, ChipTypes, DriverTypes
      <4>2. scr'.ccs = (reply = "complete ccs")
        BY <3>5, <4>1 DEF Kinds
      <4>3. reply = IF kind.ccs THEN "complete ccs" ELSE "complete"
        BY <3>5 DEF Base, KnownInv
      <4>4. kind.ccs \in BOOLEAN /\ kind' = kind
        BY <3>1, <4>1 DEF Kinds
      <4>5. (reply = "complete ccs") = kind.ccs
        BY <4>3, <4>4
      <4>6. Known'
        BY <4>2, <4>4, <4>5, Zenon DEF Known
      <4> QED BY <3>2, <3>5, <4>6 DEF Naming, Initialising
    <3> QED BY <2>9, <3>3, <3>4, <3>5, TriedStep
  <2> QED BY <1>7, <2>1, <2>5, <2>6, <2>7, <2>8, <2>9 DEF OpConds
<1> QED BY <1>4, <1>5, <1>6, <1>7 DEF Waking

LEMMA NotWaiting ==
  ASSUME Base, NEW o \in Steps, NEW r \in Lists, todo = Then(o, r), o[1] # "cmd"
  PROVE  phase = "issue"
<1>1. ~Is("cmd")
  BY AtFront
<1> QED BY <1>1 DEF Base, KnownInv, TypeInv, DriverTypes

LEMMA CalmMoves ==
  ASSUME Calm, UNCHANGED <<dat, inflight>>
  PROVE  Calm'
BY DEF Calm, Inflight

LEMMA CalmCommand ==
  ASSUME Calm, dat' = dat, NEW c, c \notin DataCommands, inflight' = inflight \/ \E b : inflight' = <<c, b>>
  PROVE  Calm'
BY DEF Calm, Inflight

LEMMA IssuedFacts ==
  ASSUME NEW c, NEW a, Issued(c, a)
  PROVE  /\ inflight = None /\ phase' = "wait" /\ todo' = todo /\ intr' = {} /\ reply' = ""
         /\ (a # TheRca => inflight' = <<c, a>>) /\ (a = TheRca => inflight' = <<c, rca>>)
         /\ Inflight(c)' /\ \A d : Inflight(d)' => d = c
<1>1. /\ inflight = None /\ phase' = "wait" /\ todo' = todo /\ intr' = {} /\ reply' = ""
      /\ (a # TheRca => inflight' = <<c, a>>) /\ (a = TheRca => inflight' = <<c, rca>>)
  BY Zenon DEF Issued
<1>2. PICK b : inflight' = <<c, b>>
  BY <1>1
<1>3. Inflight(c)' /\ \A d : Inflight(d)' => d = c
  BY <1>2 DEF Inflight, None
<1> QED BY <1>1, <1>3

LEMMA CheckMoves ==
  ASSUME Driver, NEW r \in Lists, todo = Checks(r), call.op = "init", ~(err = SD_OK /\ todo' = r)
  PROVE  InitFails'
<1>1. err # SD_OK /\ todo' = <<>> /\ ret' = Fails
  BY CheckStep
<1> QED BY <1>1 DEF InitFails, Ended, Fails

\* The steps of sd_init from ALL_SEND_CID to the command for the SCR.
LEMMA NamingMoves ==
  ASSUME Base, Driver, call.op = "init", Naming
  PROVE  Initialising' \/ InitFails'
<1> USE CodeFacts, InitLists
<1>1. SD_ERROR # SD_OK /\ SD_TIMEOUT # SD_OK
  BY DEF SD_ERROR, SD_OK, SD_TIMEOUT
<1>2. Known /\ Calm /\ ~hostWide /\ ChipTypes
  BY DEF Naming, Base, TypeInv
<1>3. Naming' => Initialising'
  BY DEF Initialising
<1>4. ASSUME UNCHANGED Steady, UNCHANGED <<inflight>> PROVE Known' /\ Calm' /\ ~hostWide'
  BY <1>2, <1>4, CalmMoves DEF Steady, Known
<1>5. CASE todo = Cid
  <2>1. "ALL_SEND_CID" \notin DataCommands
    BY DEF DataCommands
  <2>2. UNCHANGED Steady /\ (Issued("ALL_SEND_CID", 0) \/ Failed(RelAddr) \/ Answers(RelAddr))
    BY <1>5, CommandStep DEF Cid, Command
  <2>3. Known' /\ ~hostWide' /\ dat' = dat
    BY <1>2, <2>2 DEF Steady, Known
  <2>4. Calm'
    BY <1>2, <2>1, <2>2, <2>3, CalmCommand DEF Issued, Failed, Answers
  <2>5. todo' = Cid \/ (todo' = RelAddr /\ phase' = "issue")
    BY <1>5, <2>2 DEF Issued, Failed, Answers
  <2> QED BY <1>3, <2>3, <2>4, <2>5 DEF Naming
<1>6. CASE todo = RelAddr /\ (phase = "wait" => Awaits("SEND_REL_ADDR", 0, TRUE, In("stby") /\ reply = "rca"))
  <2>1. "SEND_REL_ADDR" \notin DataCommands
    BY DEF DataCommands
  <2>2. UNCHANGED Steady /\ (Issued("SEND_REL_ADDR", 0) \/ Failed(Rca) \/ Answers(Rca))
    BY <1>6, CommandStep DEF RelAddr, Command
  <2>3. Known' /\ ~hostWide' /\ UNCHANGED <<dat, card>>
    BY <1>2, <2>2 DEF Steady, Known
  <2>4. Calm'
    BY <1>2, <2>1, <2>2, <2>3, CalmCommand DEF Issued, Failed, Answers
  <2>5. CASE Issued("SEND_REL_ADDR", 0)
    <3>1. inflight' = <<"SEND_REL_ADDR", 0>> /\ "CMD" \notin intr' /\ todo' = RelAddr
      <4>1. 0 # TheRca
        BY DEF TheRca
      <4> QED BY <1>6, <2>5, <4>1, IssuedFacts
    <3> QED BY <1>3, <2>3, <2>4, <3>1 DEF Naming, Awaits
  <2>6. CASE Failed(Rca)
    <3>1. todo' = Rca /\ err' # SD_OK
      BY <1>1, <2>6 DEF Failed
    <3> QED BY <1>3, <2>3, <2>4, <3>1 DEF Naming, Answered
  <2>7. CASE Answers(Rca)
    <3>1. /\ todo' = Rca /\ UNCHANGED <<inflight, reply>> /\ inflight = None /\ In("stby") /\ reply = "rca"
      BY <1>6, <2>7 DEF Answers, Awaits
    <3> QED BY <1>3, <2>3, <2>4, <3>1 DEF Naming, Answered, In
  <2> QED BY <2>2, <2>5, <2>6, <2>7
<1>7. CASE todo = Rca /\ Answered(In("stby") /\ reply = "rca")
  <2>1. UNCHANGED <<kind, chip, err, scr>> /\ rca' = (IF reply = "rca" THEN 1 ELSE 0) /\ todo' = Checks(Clocks)
    BY <1>7, RcaStep
  <2>2. Known' /\ Calm' /\ ~hostWide'
    BY <1>2, <2>1, CalmMoves DEF chip, Known
  <2>3. Answered(In("stby") /\ rca = 1)'
    BY <1>7, <2>1 DEF chip, Answered, In
  <2> QED BY <1>3, <2>1, <2>2, <2>3 DEF Naming
<1>8. CASE todo = Checks(Clocks) /\ Answered(In("stby") /\ rca = 1)
  <2>1. CASE err = SD_OK /\ todo' = Clocks
    <3>1. UNCHANGED <<Steady, inflight>>
      BY <1>8, CheckStep DEF Quiet
    <3>2. inflight' = None /\ In("stby")' /\ rca' = 1
      BY <1>8, <2>1, <3>1 DEF Answered, In, Steady
    <3> QED BY <1>3, <1>4, <2>1, <3>1, <3>2 DEF Naming
  <2> QED BY <1>8, <2>1, CheckMoves
<1>9. CASE todo = Clocks /\ inflight = None /\ In("stby") /\ rca = 1
  <2>1. /\ UNCHANGED <<Quiet, err>>
        /\ \/ todo' = Select /\ phase' = phase
           \/ todo' = <<>> /\ ret' = SD_ERROR
    BY <1>9, ClockStep, Zenon DEF Clocks
  <2>2. phase = "issue"
    <3>1. PICK o \in Steps : o = <<"clk">> /\ o[1] = "clk"
      BY StepFacts
    <3> QED BY <1>9, <3>1, NotWaiting DEF Clocks
  <2>3. Known' /\ Calm' /\ ~hostWide' /\ inflight' = None /\ In("stby")' /\ rca' = 1
    BY <1>4, <1>9, <2>1 DEF Quiet, Steady, In
  <2>4. todo' = Select /\ phase' = phase => Naming'
    BY <2>2, <2>3 DEF Naming
  <2> QED BY <1>1, <1>3, <2>1, <2>4 DEF InitFails, Ended
<1>10. CASE todo = Select /\ rca = 1 /\ IF phase = "wait" THEN Awaits("CARD_SELECT", 1, In("stby"), In("tran"))
                                        ELSE inflight = None /\ In("stby")
  <2>1. "CARD_SELECT" \notin DataCommands /\ Checks(Asks) \in Lists
    BY StepThen DEF DataCommands
  <2>2. UNCHANGED Steady /\ (Issued("CARD_SELECT", TheRca) \/ Failed(Checks(Asks)) \/ Answers(Checks(Asks)))
    BY <1>10, <2>1, CommandStep DEF Select, Command
  <2>3. Known' /\ ~hostWide' /\ UNCHANGED <<dat, card, rca>>
    BY <1>2, <2>2 DEF Steady, Known
  <2>4. Calm'
    BY <1>2, <2>1, <2>2, <2>3, CalmCommand DEF Issued, Failed, Answers
  <2>5. CASE Issued("CARD_SELECT", TheRca)
    <3>1. inflight' = <<"CARD_SELECT", 1>> /\ "CMD" \notin intr' /\ todo' = Select /\ In("stby")' /\ phase' = "wait"
      <4>1. inflight' = <<"CARD_SELECT", 1>> /\ intr' = {} /\ phase' = "wait" /\ todo' = todo /\ inflight = None
        BY <1>10, <2>5, IssuedFacts
      <4>2. phase # "wait"
        BY <2>5 DEF Issued
      <4> QED BY <1>10, <2>3, <4>1, <4>2 DEF In
    <3> QED BY <1>3, <1>10, <2>3, <2>4, <3>1 DEF Naming, Awaits
  <2>6. CASE Failed(Checks(Asks))
    <3>1. todo' = Checks(Asks) /\ err' # SD_OK
      BY <1>1, <2>6 DEF Failed
    <3> QED BY <1>3, <1>10, <2>3, <2>4, <3>1 DEF Naming, Answered
  <2>7. CASE Answers(Checks(Asks))
    <3>1. todo' = Checks(Asks) /\ inflight' = inflight /\ inflight = None /\ In("tran")
      BY <1>10, <2>7 DEF Answers, Awaits
    <3> QED BY <1>3, <1>10, <2>3, <2>4, <3>1 DEF Naming, Answered, In
  <2> QED BY <2>2, <2>5, <2>6, <2>7
<1>11. CASE todo = Checks(Asks) /\ rca = 1 /\ Answered(In("tran"))
  <2>1. CASE err = SD_OK /\ todo' = Asks
    <3>1. UNCHANGED <<Steady, inflight>>
      BY <1>11, CheckStep DEF Quiet
    <3>2. inflight' = None /\ In("tran")' /\ rca' = 1
      BY <1>11, <2>1, <3>1 DEF Answered, In, Steady
    <3> QED BY <1>3, <1>4, <2>1, <3>1, <3>2 DEF Naming
  <2> QED BY <1>11, <2>1, CheckMoves
<1>12. CASE todo = Asks /\ rca = 1 /\ In("tran") /\ inflight = None
  <2>1. /\ UNCHANGED Quiet
        /\ todo' = Sizes \/ (todo' = <<>> /\ ret' = IF call.op = "init" THEN SD_TIMEOUT ELSE 0)
    BY <1>12, StatusStep, Zenon DEF Asks
  <2>2. Known' /\ Calm' /\ ~hostWide' /\ inflight' = None /\ In("tran")' /\ rca' = 1
    BY <1>4, <1>12, <2>1 DEF Quiet, Steady, In
  <2>3. todo' = Sizes => Naming'
    BY <2>2 DEF Naming
  <2> QED BY <1>1, <1>3, <2>1, <2>3 DEF InitFails, Ended
<1>13. CASE todo = Sizes /\ rca = 1 /\ In("tran") /\ inflight = None
  <2>1. Checks(Scr) \in Lists
    BY StepThen
  <2>2. AppCommand("SCR", 0, Checks(Scr)) \in Lists
    BY <2>1, StepThen
  <2>3. todo' = AppCommand("SCR", 0, Checks(Scr)) /\ UNCHANGED <<kind, card, inflight, dat, hostWide, rca, scr>>
    BY <1>13, <2>2, SizeStep DEF Sizes
  <2>4. Known' /\ Calm' /\ ~hostWide'
    BY <1>2, <2>3, CalmMoves DEF Known
  <2> QED BY <1>3, <1>13, <2>3, <2>4 DEF Naming, In
<1>14. CASE todo = AppCommand("SCR", 0, Checks(Scr)) /\ rca = 1 /\ In("tran") /\ (inflight = None \/ Inflight("APP"))
  <2>1. "APP" \notin DataCommands /\ Checks(Scr) \in Lists
    BY StepThen DEF DataCommands
  <2>2. PICK r \in Lists : r = AppChecks("SCR", 0, Checks(Scr))
    BY <2>1, StepThen
  <2>3. UNCHANGED Steady /\ (Issued("APP", TheRca) \/ Failed(r) \/ Answers(r))
    BY <1>14, <2>2, CommandStep DEF AppCommand, Command
  <2>4. Known' /\ ~hostWide' /\ UNCHANGED <<dat, card, rca>>
    BY <1>2, <2>3 DEF Steady, Known
  <2>5. Calm'
    BY <1>2, <2>1, <2>3, <2>4, CalmCommand DEF Issued, Failed, Answers
  <2>6. (inflight = None \/ Inflight("APP"))' /\ (todo' = todo \/ todo' = r)
    <3>1. CASE Issued("APP", TheRca)
      BY <3>1, IssuedFacts
    <3>2. CASE Failed(r) \/ Answers(r)
      BY <1>14, <3>2 DEF Failed, Answers, Inflight
    <3> QED BY <2>3, <3>1, <3>2
  <2> QED BY <1>3, <1>14, <2>2, <2>4, <2>5, <2>6 DEF Naming, In
<1>15. CASE todo = AppChecks("SCR", 0, Checks(Scr)) /\ rca = 1 /\ In("tran") /\ (inflight = None \/ Inflight("APP"))
  <2>1. Checks(Scr) \in Lists
    BY StepThen
  <2>2. /\ UNCHANGED <<Steady, inflight, phase>>
        /\ (todo' = AppCmd("SCR", 0, Checks(Scr)) \/ (todo' = Checks(Scr) /\ err' = SD_ERROR))
    BY <1>15, <2>1, AppCheckStep
  <2>3. phase = "issue"
    <3>1. PICK o \in Steps : o = <<"appck">> /\ o[1] = "appck"
      BY StepFacts
    <3>2. AppCmd("SCR", 0, Checks(Scr)) \in Lists
      BY <2>1, StepThen
    <3> QED BY <1>15, <3>1, <3>2, NotWaiting DEF AppChecks
  <2>4. Known' /\ Calm' /\ ~hostWide' /\ rca' = 1 /\ In("tran")' /\ (inflight = None \/ Inflight("APP"))'
    BY <1>4, <1>15, <2>2 DEF Steady, In, Inflight
  <2>5. CASE todo' = AppCmd("SCR", 0, Checks(Scr))
    BY <1>3, <2>2, <2>3, <2>4, <2>5 DEF Naming
  <2>6. CASE todo' = Checks(Scr) /\ err' = SD_ERROR
    BY <1>1, <2>4, <2>6 DEF Reading, Answered, Initialising
  <2> QED BY <2>2, <2>5, <2>6
<1>16. CASE todo = AppCmd("SCR", 0, Checks(Scr)) /\ phase = "issue" /\ rca = 1 /\ In("tran")
            /\ (inflight = None \/ Inflight("APP"))
  <2>1. Checks(Scr) \in Lists
    BY StepThen
  <2>2. UNCHANGED Steady /\ (Issued("SCR", 0) \/ Failed(Checks(Scr)) \/ Answers(Checks(Scr)))
    BY <1>16, <2>1, CommandStep DEF AppCmd
  <2>3. Known' /\ ~hostWide' /\ UNCHANGED <<dat, card, rca>>
    BY <1>2, <2>2 DEF Steady, Known
  <2>4. CASE Issued("SCR", 0)
    <3>1. /\ inflight' = <<"SCR", 0>> /\ "CMD" \notin intr' /\ todo' = AppCmd("SCR", 0, Checks(Scr))
          /\ In("tran")' /\ ~dat' /\ phase' = "wait"
      <4>1. 0 # TheRca
        BY DEF TheRca
      <4>2. inflight' = <<"SCR", 0>> /\ intr' = {} /\ phase' = "wait" /\ todo' = todo
        BY <2>4, <4>1, IssuedFacts
      <4> QED BY <1>2, <1>16, <2>3, <4>2 DEF In, Calm
    <3>2. Awaits("SCR", 0, In("tran") /\ ~dat, ScrComes)'
      BY <3>1 DEF Awaits
    <3> QED BY <1>16, <2>3, <3>1, <3>2 DEF Reading, Initialising
  <2>5. CASE Failed(Checks(Scr))
    <3>1. todo' = Checks(Scr) /\ err' # SD_OK
      BY <1>1, <2>5 DEF Failed
    <3> QED BY <1>16, <2>3, <3>1 DEF Reading, Answered, Initialising
  <2>6. ~Answers(Checks(Scr))
    BY <1>16 DEF Answers
  <2> QED BY <2>2, <2>4, <2>5, <2>6
<1> QED BY <1>5, <1>6, <1>7, <1>8, <1>9, <1>10, <1>11, <1>12, <1>13, <1>14, <1>15, <1>16, Zenon DEF Naming

\* The steps of sd_init that read the SCR.
LEMMA ReadingMoves ==
  ASSUME Base, Driver, call.op = "init", Reading
  PROVE  Initialising' \/ InitFails'
<1> USE CodeFacts, InitLists
<1>1. SD_ERROR # SD_OK /\ SD_TIMEOUT # SD_OK
  BY DEF SD_ERROR, SD_OK, SD_TIMEOUT
<1>2. Known /\ rca = 1 /\ ~hostWide /\ kind \in Kinds /\ scr \in Kinds /\ card \in CardTypes
  BY DEF Reading, Base, TypeInv, ChipTypes, DriverTypes
<1>3. Reading' => Initialising'
  BY DEF Initialising
<1>4. ASSUME UNCHANGED Steady PROVE Known' /\ rca' = 1 /\ ~hostWide' /\ UNCHANGED <<card, more>>
  BY <1>2, <1>4 DEF Steady, Known
<1>5. CASE todo = AppCmd("SCR", 0, Checks(Scr)) /\ phase = "wait" /\ Awaits("SCR", 0, In("tran") /\ ~dat, ScrComes)
  <2>1. Checks(Scr) \in Lists
    BY StepThen
  <2>2. UNCHANGED <<Steady, fifo>> /\ (Issued("SCR", 0) \/ Failed(Checks(Scr)) \/ Answers(Checks(Scr)))
    BY <1>5, <2>1, CommandStep DEF AppCmd
  <2>3. ~Issued("SCR", 0)
    BY <1>5 DEF Issued
  <2>4. CASE Failed(Checks(Scr))
    <3>1. todo' = Checks(Scr) /\ err' # SD_OK
      BY <1>1, <2>4 DEF Failed
    <3> QED BY <1>3, <1>4, <2>2, <3>1 DEF Reading, Answered
  <2>5. CASE Answers(Checks(Scr))
    <3>1. /\ todo' = Checks(Scr) /\ inflight' = inflight /\ inflight = None /\ ScrComes
          /\ intr' = intr \ {"CMD"} /\ "ERR" \notin intr
      BY <1>5, <2>5 DEF Answers, Awaits
    <3>2. ScrComes'
      BY <1>4, <2>2, <3>1 DEF ScrComes, In
    <3> QED BY <1>3, <1>4, <2>2, <3>1, <3>2 DEF Reading, Answered
  <2> QED BY <2>2, <2>3, <2>4, <2>5
<1>6. CASE todo = Checks(Scr) /\ Answered(ScrComes)
  <2>1. CASE err = SD_OK /\ todo' = Scr
    <3>1. UNCHANGED Quiet /\ UNCHANGED Steady
      BY <1>6, CheckStep DEF Quiet
    <3>2. inflight = None /\ ScrComes
      BY <1>6, <2>1 DEF Answered
    <3>3. inflight' = None /\ ScrComes'
      BY <1>4, <3>1, <3>2 DEF Quiet, ScrComes, In
    <3> QED BY <1>3, <1>4, <2>1, <3>1, <3>3 DEF Reading
  <2> QED BY <1>6, <2>1, CheckMoves
<1>7. CASE todo = Scr /\ inflight = None /\ ScrComes
  <2>1. /\ UNCHANGED <<Steady, inflight>>
        /\ \/ "ERR" \notin intr /\ "READ" \in intr /\ intr' = intr \ {"READ"} /\ todo' = WordsEnd
           \/ todo' = <<>> /\ ret' = SD_TIMEOUT
    <3>1. "scr" \in {"scr", "done"} /\ todo = Then(<<"scr">>, WordsEnd)
      BY <1>7 DEF Scr
    <3> QED BY <1>7, <3>1, WaitStep
  <2>2. CASE "ERR" \notin intr /\ "READ" \in intr /\ intr' = intr \ {"READ"} /\ todo' = WordsEnd
    <3>1. In("tran") /\ more = 0
      BY <1>7, <2>2 DEF ScrComes
    <3> QED BY <1>3, <1>4, <1>7, <2>1, <2>2, <3>1 DEF Reading, Full, In
  <2> QED BY <1>1, <2>1, <2>2 DEF InitFails, Ended
<1>8. CASE todo = WordsEnd /\ inflight = None /\ Full /\ "READ" \notin intr
  <2>1. /\ UNCHANGED <<kind, card, inflight, more, hostWide, rca>>
        /\ scr' = [kind EXCEPT !.ccs = scr.ccs] /\ fifo' = None
        /\ todo' = IF kind.wide THEN AppCommand("WIDTH", 4, Checks(Widens)) ELSE Ends
    BY <1>8, WordsStep
  <2>2. scr' = kind'
    BY <1>2, <2>1 DEF Known, Kinds
  <2>3. Full' /\ fifo' = None /\ inflight' = None
    BY <1>8, <2>1 DEF Full, In
  <2>4. CASE kind.wide
    BY <2>1, <2>2, <2>3, <2>4 DEF Widening, Wider, Initialising
  <2>5. CASE ~kind.wide
    <3>1. hostWide' = card'.wide /\ card'.wide = kind'.wide
      <4>1. ~card.wide
        BY <2>5 DEF Base, KnownInv
      <4>2. hostWide = FALSE /\ card.wide = FALSE /\ kind.wide = FALSE
        <5>1. hostWide \in BOOLEAN /\ card.wide \in BOOLEAN /\ kind.wide \in BOOLEAN
          BY <1>2 DEF Base, TypeInv, DriverTypes, CardTypes, Kinds
        <5> QED BY <1>2, <2>5, <4>1, <5>1, Zenon
      <4> QED BY <2>1, <4>2
    <3>2. Agreed'
      BY <2>2, <2>3, <3>1 DEF Agreed
    <3> QED BY <2>1, <2>5, <3>2 DEF Initialising
  <2> QED BY <2>4, <2>5
<1> QED BY <1>5, <1>6, <1>7, <1>8, Zenon DEF Reading

\* The steps of sd_init that set the bus width, and its end.
LEMMA WideningMoves ==
  ASSUME Base, Driver, call.op = "init", Widening
  PROVE  Initialising' \/ InitFails'
<1> USE CodeFacts, InitLists
<1>1. SD_ERROR # SD_OK /\ SD_TIMEOUT # SD_OK
  BY DEF SD_ERROR, SD_OK, SD_TIMEOUT
<1>2. Widening' => Initialising'
  BY DEF Initialising
<1>3. Checks(Widens) \in Lists
  BY StepThen
<1>4. ASSUME UNCHANGED <<Steady, fifo>>, Wider PROVE Wider' /\ card' = card
  BY <1>4 DEF Steady, Wider, Full, In
<1>5. CASE Wider /\ todo = AppCommand("WIDTH", 4, Checks(Widens)) /\ (inflight = None \/ Inflight("APP"))
  <2>1. PICK r \in Lists : r = AppChecks("WIDTH", 4, Checks(Widens))
    BY <1>3, StepThen
  <2>2. UNCHANGED <<Steady, fifo>> /\ (Issued("APP", TheRca) \/ Failed(r) \/ Answers(r))
    BY <1>5, <2>1, CommandStep DEF AppCommand, Command
  <2>3. (inflight = None \/ Inflight("APP"))' /\ (todo' = todo \/ todo' = r)
    <3>1. CASE Issued("APP", TheRca)
      BY <3>1, IssuedFacts
    <3>2. CASE Failed(r) \/ Answers(r)
      BY <1>5, <3>2 DEF Failed, Answers, Inflight
    <3> QED BY <2>2, <3>1, <3>2
  <2> QED BY <1>2, <1>4, <1>5, <2>1, <2>2, <2>3 DEF Widening
<1>6. CASE Wider /\ todo = AppChecks("WIDTH", 4, Checks(Widens)) /\ (inflight = None \/ Inflight("APP"))
  <2>1. /\ UNCHANGED <<Steady, inflight, fifo, phase>>
        /\ (todo' = AppCmd("WIDTH", 4, Checks(Widens)) \/ (todo' = Checks(Widens) /\ err' = SD_ERROR))
    BY <1>3, <1>6, AppCheckStep
  <2>2. phase = "issue"
    <3>1. PICK o \in Steps : o = <<"appck">> /\ o[1] = "appck"
      BY StepFacts
    <3>2. AppCmd("WIDTH", 4, Checks(Widens)) \in Lists
      BY <1>3, StepThen
    <3> QED BY <1>6, <3>1, <3>2, NotWaiting DEF AppChecks
  <2>3. Wider' /\ (inflight = None \/ Inflight("APP"))' /\ phase' # "wait"
    BY <1>4, <1>6, <2>1, <2>2 DEF Inflight
  <2>4. CASE todo' = AppCmd("WIDTH", 4, Checks(Widens))
    BY <1>2, <2>3, <2>4 DEF Widening
  <2>5. CASE todo' = Checks(Widens) /\ err' = SD_ERROR
    BY <1>1, <1>2, <2>5 DEF Widening, Answered
  <2> QED BY <2>1, <2>4, <2>5
<1>7. CASE Wider /\ todo = AppCmd("WIDTH", 4, Checks(Widens))
           /\ IF phase = "wait" THEN Awaits("WIDTH", 4, TRUE, card.wide) ELSE inflight = None \/ Inflight("APP")
  <2>1. UNCHANGED <<Steady, fifo>> /\ (Issued("WIDTH", 4) \/ Failed(Checks(Widens)) \/ Answers(Checks(Widens)))
    BY <1>3, <1>7, CommandStep DEF AppCmd
  <2>2. Wider' /\ card' = card
    BY <1>4, <1>7, <2>1
  <2>3. CASE Issued("WIDTH", 4)
    <3>1. 4 # TheRca
      BY DEF TheRca
    <3>2. inflight' = <<"WIDTH", 4>> /\ intr' = {} /\ phase' = "wait" /\ todo' = todo
      BY <2>3, <3>1, IssuedFacts
    <3> QED BY <1>2, <1>7, <2>2, <3>2 DEF Widening, Awaits
  <2>4. CASE Failed(Checks(Widens))
    <3>1. todo' = Checks(Widens) /\ err' # SD_OK
      BY <1>1, <2>4 DEF Failed
    <3> QED BY <1>2, <3>1 DEF Widening, Answered
  <2>5. CASE Answers(Checks(Widens))
    <3>1. todo' = Checks(Widens) /\ inflight' = inflight /\ inflight = None /\ card.wide
      BY <1>7, <2>5 DEF Answers, Awaits
    <3> QED BY <1>2, <2>2, <3>1 DEF Widening, Answered
  <2> QED BY <2>1, <2>3, <2>4, <2>5
<1>8. CASE todo = Checks(Widens) /\ Answered(Wider /\ card.wide)
  <2>1. CASE err = SD_OK /\ todo' = Widens
    <3>1. UNCHANGED <<Steady, fifo, inflight>>
      BY <1>8, CheckStep DEF Quiet
    <3>2. inflight = None /\ Wider /\ card.wide
      BY <1>8, <2>1 DEF Answered
    <3>3. inflight' = None /\ Wider' /\ card'.wide
      BY <1>4, <3>1, <3>2
    <3> QED BY <1>2, <2>1, <3>3 DEF Widening
  <2> QED BY <1>3, <1>8, <2>1, CheckMoves
<1>9. CASE Wider /\ todo = Widens /\ inflight = None /\ card.wide
  <2>1. UNCHANGED <<kind, controller, rca, scr>> /\ hostWide' = TRUE /\ todo' = Ends
    BY <1>9, WidthStep
  <2>2. card.wide = TRUE /\ kind.wide = TRUE
    <3>1. card.wide \in BOOLEAN /\ kind.wide \in BOOLEAN
      BY DEF Base, TypeInv, ChipTypes, CardTypes, Kinds
    <3>2. kind.wide
      BY <1>9 DEF Wider
    <3> QED BY <1>9, <3>1, <3>2, Zenon
  <2>3. Full' /\ fifo' = None /\ scr' = kind' /\ inflight' = None /\ card' = card /\ kind' = kind
    BY <1>9, <2>1 DEF Wider, controller, Full, In
  <2>4. hostWide' = card'.wide /\ card'.wide = kind'.wide
    BY <2>1, <2>2, <2>3
  <2> QED BY <2>1, <2>3, <2>4 DEF Agreed, Initialising
<1> QED BY <1>5, <1>6, <1>7, <1>8, <1>9, Zenon DEF Widening

LEMMA DriverInit ==
  ASSUME Base, Driver, InitInv, call.op = "init"
  PROVE  InitInv' /\ call'.op = "init"
<1>1. ~Ended /\ Initialising
  BY DriverKinds DEF InitInv, Ended, Is
<1>2. call' = call
  BY Zenon DEF Driver, Issue, Answer, AppCheck, Check, Status, Move, Await, BlkSize, End, Reset, Clock, Try, Tried,
         TakeRca, Words, Width
<1>3. CASE Waking \/ Naming \/ Reading \/ Widening
  <2>1. Initialising' \/ InitFails'
    BY <1>3, WakingMoves, NamingMoves, ReadingMoves, WideningMoves
  <2>2. Initialising' => ~Ended'
    <3>1. (Initialising => todo \in Lists /\ ~Ended)'
      BY InitPositions, PTL
    <3> QED BY <3>1
  <2> QED BY <1>2, <2>1, <2>2 DEF InitInv, InitFails, Returned
<1>4. CASE todo = Ends /\ Agreed
  <2>1. UNCHANGED <<kind, chip, rca, scr>> /\ todo' = <<>>
    BY <1>4, EndStep
  <2>2. Agreed'
    BY <1>4, <2>1 DEF Agreed, Full, In, chip
  <2> QED BY <1>2, <2>1, <2>2 DEF InitInv, Ended
<1> QED BY <1>1, <1>2, <1>3, <1>4 DEF Initialising

-----------------------------------------------------------------------------
(* sd_readblock and sd_writeblock, step by step.                           *)

TransferEnds == Ended /\ (ret = 0 \/ (Over /\ inflight = None))

LEMMA LayoutLists ==
  ASSUME IsTransfer, NEW L, Layout(L)
  PROVE  /\ \A c \in 1 .. Count : /\ L[c] \in Lists /\ MovesFrom(L, c) \in Lists
                                  /\ Checks(MovesFrom(L, c)) \in Lists /\ CmdFrom(L, c) \in Lists
         /\ L[Count] = Behind
         /\ \A c \in 1 .. Count : c # Count => L[c] = IF scr.ccs THEN MovesFrom(L, c + 1) ELSE CmdFrom(L, c + 1)
         /\ SizeFrom(L) \in Lists /\ Checks(SizeFrom(L)) \in Lists
<1>1. Count \in Nat \ {0} /\ scr.ccs \in BOOLEAN
  BY CountFacts
<1>2. L \in [0 .. Count -> Lists] /\ L[Count] = Behind
  BY DEF Layout
<1>3. ASSUME NEW c \in 1 .. Count
      PROVE  /\ L[c] \in Lists /\ MovesFrom(L, c) \in Lists
             /\ Checks(MovesFrom(L, c)) \in Lists /\ CmdFrom(L, c) \in Lists
  <2>1. L[c] \in Lists
    BY <1>1, <1>2
  <2> QED BY <2>1, AddBlockFacts DEF MovesFrom, CmdFrom
<1>4. ASSUME NEW c \in 1 .. Count, c # Count
      PROVE  L[c] = IF scr.ccs THEN MovesFrom(L, c + 1) ELSE CmdFrom(L, c + 1)
  <2>1. PICK d \in 1 .. Count : d = c + 1 /\ d - 1 = c
    BY <1>1, <1>4
  <2>2. L[d - 1] = LET m == Then(MoveOf(d), L[d])
                   IN IF scr.ccs THEN m ELSE Then(DataCommand(d), Checks(m))
    BY Zenon DEF Layout
  <2> QED BY <2>1, <2>2, Zenon DEF MovesFrom, CmdFrom
<1>5. SizeFrom(L) \in Lists
  <2>1. CmdFrom(L, 1) \in Lists
    BY <1>1, <1>3
  <2>2. PICK k \in Nat \ {0} : k = IF scr.ccs THEN Count ELSE 1
    BY <1>1
  <2>3. Then(<<"blksize", k>>, CmdFrom(L, 1)) \in Lists
    BY <2>1, StepThen
  <2> QED BY <2>2, <2>3, Zenon DEF SizeFrom
<1> QED BY <1>1, <1>2, <1>3, <1>4, <1>5, StepThen

LEMMA AllTransfers ==
  ASSUME Base, call.op \in {"read", "write"}
  PROVE  IsTransfer /\ InTransfer
BY TransferOf DEF Base, TypeInv, DriverTypes, IsTransfer

\* The controller and the blocks as they were, but for interrupts taken.
Kept == UNCHANGED <<disk, card, more, fifo, call, scr, out, calls>>

LEMMA MovedSame ==
  ASSUME Kept, NEW k \in Nat, NEW e \in Nat, more \in Nat, call.lba \in Nat, Moved(k, e),
         intr' \in {intr, intr \ {"CMD"}, intr \ {"DONE"}} \/ (intr' = {} /\ k = e)
  PROVE  Moved(k, e)'
<1>1. UNCHANGED <<disk, card, more, fifo, call, scr, out, calls>> /\ Count' = Count /\ Fresh' = Fresh
  BY SameTransfer DEF Kept
<1>2. CASE call.op = "read"
  <2>1. Got(k, e)
    BY <1>2 DEF Moved
  <2>2. out' = [c \in 1 .. k |-> disk'[call'.lba + c - 1]] /\ (In("data") \/ In("tran"))'
    BY <1>1, <2>1, Zenon DEF Got, In
  <2>3. \/ "READ" \in intr' /\ fifo' = disk'[call'.lba + k] /\ card'.pos = call'.lba + k + 1 /\ more' = e - k - 1
           /\ k < Count'
        \/ "READ" \notin intr' /\ fifo' = None /\ card'.pos = call'.lba + k /\ more' = e - k
    <3>1. CASE "READ" \in intr
      <4>1. fifo = disk[call.lba + k] /\ card.pos = call.lba + k + 1 /\ more = e - k - 1 /\ k < Count
        BY <2>1, <3>1 DEF Got
      <4>2. "READ" \in intr'
        BY <3>1, <4>1
      <4> QED BY <1>1, <4>1, <4>2
    <3>2. CASE "READ" \notin intr
      <4>1. fifo = None /\ card.pos = call.lba + k /\ more = e - k
        BY <2>1, <3>2 DEF Got
      <4>2. "READ" \notin intr'
        BY <3>2
      <4> QED BY <1>1, <4>1, <4>2
    <3> QED BY <3>1, <3>2
  <2>4. Got(k, e)'
    BY <2>2, <2>3, Zenon DEF Got
  <2> QED BY <1>1, <1>2, <2>4, Zenon DEF Moved
<1>3. CASE call.op # "read"
  <2>1. Put(k, e) /\ out = <<>>
    BY <1>3 DEF Moved
  <2>2. (In("rcv") \/ In("tran"))' /\ Written(k)' = Written(k) /\ Written(k - 1)' = Written(k - 1)
    BY <1>1, <2>1, Zenon DEF Put, In, Written
  <2>3. /\ "DONE" \in intr' => "DONE" \in intr
        /\ "WRITE" \in intr' /\ "ERR" \notin intr' => "WRITE" \in intr /\ "ERR" \notin intr
        /\ "WRITE" \notin intr => "WRITE" \notin intr'
    OBVIOUS
  <2>4. (Fresh /\ "DONE" \in intr => more = 0)' /\ (fifo = None /\ "WRITE" \in intr /\ "ERR" \notin intr => In("rcv"))'
    BY <1>1, <2>1, <2>3 DEF Put, In
  <2>5. CASE fifo = None /\ card.pos = call.lba + k /\ more = e - k /\ Written(k)
    <3>1. fifo' = None /\ card'.pos = call'.lba + k /\ more' = e - k /\ Written(k)'
      BY <1>1, <2>2, <2>5
    <3>2. Put(k, e)'
      BY <2>2, <2>4, <3>1, Zenon DEF Put
    <3> QED BY <1>1, <1>3, <2>1, <3>2, Zenon DEF Moved
  <2>6. CASE /\ fifo = <<calls, k>> /\ card.pos = call.lba + k - 1 /\ more = e - k + 1 /\ Written(k - 1)
             /\ k > 0 /\ In("rcv") /\ "WRITE" \notin intr
    <3>1. /\ fifo' = <<calls', k>> /\ card'.pos = call'.lba + k - 1 /\ more' = e - k + 1 /\ Written(k - 1)'
          /\ k > 0 /\ In("rcv")' /\ "WRITE" \notin intr'
      BY <1>1, <2>2, <2>3, <2>6 DEF In
    <3>2. Put(k, e)'
      BY <2>2, <2>4, <3>1, Zenon DEF Put
    <3> QED BY <1>1, <1>3, <2>1, <3>2, Zenon DEF Moved
  <2> QED BY <2>1, <2>5, <2>6 DEF Put
<1> QED BY <1>2, <1>3

LEMMA OverSame ==
  ASSUME Kept, Base, call.op \in {"read", "write"}, Over, intr' \in {intr, intr \ {"CMD"}, {}}
  PROVE  Over'
<1>1. InTransfer /\ more \in Nat /\ UNCHANGED <<call, scr, more>>
  BY AllTransfers DEF Base, TypeInv, ChipTypes, Kept
<1>2. PICK k \in Nat : k = Count
  BY <1>1 DEF InTransfer
<1>3. Moved(k, k)'
  BY <1>1, <1>2, MovedSame DEF Over, InTransfer
<1>4. Count' = Count /\ Fresh' = Fresh
  BY <1>1, SameTransfer
<1>5. Moved(Count, Count)'
  BY <1>2, <1>3, <1>4, Zenon
<1> QED BY <1>1, <1>4, <1>5 DEF Over

LEMMA NoneEndsSame ==
  ASSUME NoneEnds, UNCHANGED <<dat, fifo, card, more>>
  PROVE  NoneEnds'
BY DEF NoneEnds, In

\* After the last block.
LEMMA StopsNext ==
  ASSUME IsTransfer, UNCHANGED <<call, scr>>, NEW L, todo' = Stops, Over', inflight' = None, phase' # "wait"
  PROVE  Transferring(L)'
<1>1. Stops = IF Count > 1 /\ ~scr.setblk /\ scr.ccs THEN Command("STOP", 0, Ends) ELSE Ends
  BY BehindFacts
<1>2. CASE scr.ccs /\ todo' = Command("STOP", 0, Ends)
  BY <1>2 DEF Transferring
<1>3. CASE todo' = Ends
  BY <1>3 DEF Transferring, Answered
<1> QED BY <1>1, <1>2, <1>3

\* The wait for the data line, the number of blocks and their size.
LEMMA BeforeMoves ==
  ASSUME Base, Driver, call.op \in {"read", "write"}, NEW L, Layout(L), out = <<>>,
         \/ todo = StatusFrom(L)
         \/ /\ NoneEnds
            /\ \/ Presets /\ todo \in {Command("BLOCKCNT", Count, Checks(SizeFrom(L))), Checks(SizeFrom(L))}
               \/ todo = SizeFrom(L)
  PROVE  UNCHANGED <<call, scr>> /\ (Transferring(L)' \/ TransferEnds')
<1>1. IsTransfer /\ InTransfer /\ call.op # "init"
  BY AllTransfers
<1>2. Count \in Nat \ {0} /\ Count \in Int /\ SizeFrom(L) \in Lists /\ Checks(SizeFrom(L)) \in Lists
  BY <1>1, CountFacts, LayoutLists
<1>3. Command("BLOCKCNT", Count, Checks(SizeFrom(L))) \in Lists
  BY <1>2, CodeFacts, StepThen
<1>4. ASSUME UNCHANGED <<call, scr>>, NoneEnds', out' = <<>>,
             \/ todo' = SizeFrom(L)
             \/ Presets /\ todo' \in {Command("BLOCKCNT", Count, Checks(SizeFrom(L))), Checks(SizeFrom(L))}
      PROVE  Transferring(L)'
  <2>1. Count' = Count /\ SizeFrom(L)' = SizeFrom(L) /\ Presets' = Presets
    BY <1>4, SameTransfer
  <2>2. (todo = SizeFrom(L))' \/
        (Presets /\ todo \in {Command("BLOCKCNT", Count, Checks(SizeFrom(L))), Checks(SizeFrom(L))})'
    BY <1>4, <2>1, Zenon
  <2> QED BY <1>4, <2>2, Zenon DEF Transferring
<1>5. CASE todo = StatusFrom(L)
  <2>1. PICK r \in Lists : /\ todo = Then(<<"status">>, r)
                           /\ r = SizeFrom(L) \/ (Presets /\ r = Command("BLOCKCNT", Count, Checks(SizeFrom(L))))
    BY <1>2, <1>3, <1>5, Zenon DEF StatusFrom
  <2>2. /\ UNCHANGED Quiet
        /\ \/ ~dat /\ todo' = r
           \/ todo' = <<>> /\ ret' = (IF call.op = "init" THEN SD_TIMEOUT ELSE 0)
    BY <2>1, StatusStep
  <2>3. UNCHANGED <<call, scr, dat, out>>
    BY <2>2 DEF Quiet, Steady
  <2>4. CASE ~dat /\ todo' = r
    <3>1. NoneEnds'
      BY <2>3, <2>4 DEF NoneEnds
    <3>2. \/ todo' = SizeFrom(L)
          \/ Presets /\ todo' \in {Command("BLOCKCNT", Count, Checks(SizeFrom(L))), Checks(SizeFrom(L))}
      BY <2>1, <2>4
    <3> QED BY <1>4, <2>3, <3>1, <3>2
  <2>5. CASE todo' = <<>> /\ ret' = (IF call.op = "init" THEN SD_TIMEOUT ELSE 0)
    BY <1>1, <2>3, <2>5 DEF TransferEnds, Ended
  <2> QED BY <2>2, <2>3, <2>4, <2>5
<1>6. CASE NoneEnds /\ Presets /\ todo = Command("BLOCKCNT", Count, Checks(SizeFrom(L)))
  <2>1. PICK r \in Lists : r = Checks(SizeFrom(L))
    BY <1>2
  <2>2. UNCHANGED <<Steady, fifo, out>> /\ (Issued("BLOCKCNT", Count) \/ Failed(r) \/ Answers(r))
    BY <1>2, <1>6, <2>1, CodeFacts, CommandStep DEF Command
  <2>3. UNCHANGED <<call, scr, dat, out>> /\ NoneEnds'
    BY <1>6, <2>2, NoneEndsSame DEF Steady
  <2>4. todo' = todo \/ todo' = r
    BY <2>2 DEF Issued, Failed, Answers
  <2> QED BY <1>4, <1>6, <2>1, <2>3, <2>4
<1>7. CASE NoneEnds /\ Presets /\ todo = Checks(SizeFrom(L))
  <2>1. /\ UNCHANGED Quiet
        /\ todo' = SizeFrom(L) \/ (todo' = <<>> /\ ret' = Fails)
    BY <1>2, <1>7, CheckStep
  <2>2. UNCHANGED <<call, scr, dat, fifo, card, more, out>>
    BY <2>1 DEF Quiet, Steady
  <2>3. NoneEnds'
    BY <1>7, <2>2, NoneEndsSame
  <2> QED BY <1>1, <1>4, <2>1, <2>2, <2>3 DEF TransferEnds, Ended, Fails
<1>8. CASE NoneEnds /\ todo = SizeFrom(L)
  <2>1. PICK k \in Nat \ {0} : k = IF scr.ccs THEN Count ELSE 1
    BY <1>2
  <2>2. 1 \in 1 .. Count /\ CmdFrom(L, 1) \in Lists
    <3>1. 1 \in 1 .. Count
      BY <1>2
    <3> QED BY <1>1, <3>1, LayoutLists
  <2>3. todo = Then(<<"blksize", k>>, CmdFrom(L, 1))
    BY <1>8, <2>1, Zenon DEF SizeFrom
  <2>4. /\ blk' = k /\ todo' = CmdFrom(L, 1)
        /\ UNCHANGED <<call, scr, dat, fifo, card, more, out, phase>>
    BY <2>2, <2>3, SizeStep
  <2>5. phase = "issue"
    <3>1. PICK o \in Steps : o = <<"blksize", k>> /\ o[1] = "blksize"
      <4>1. <<"blksize", k>> \in Steps
        BY DEF Steps
      <4> QED BY <4>1
    <3> QED BY <2>2, <2>3, <3>1, NotWaiting
  <2>6. NoneEnds' /\ Count' = Count /\ CmdFrom(L, 1)' = CmdFrom(L, 1) /\ 1 \in 1 .. Count'
    BY <1>8, <2>2, <2>4, NoneEndsSame, SameTransfer
  <2>7. Begins(1)'
    <3>1. (scr.ccs => blk = Count)'
      BY <2>1, <2>4, <2>6
    <3> QED BY <2>4, <2>6, <3>1 DEF Begins
  <2>8. Commands(L, 1)'
    <3>1. (1 > 1 => inflight = None)'
      OBVIOUS
    <3>2. phase' # "wait"
      BY <2>4, <2>5
    <3> QED BY <2>4, <2>6, <2>7, <3>1, <3>2, Zenon DEF Commands
  <2> QED BY <2>4, <2>6, <2>8 DEF Transferring
<1> QED BY <1>5, <1>6, <1>7, <1>8

\* The command of a block, and its check.
LEMMA CommandsMove ==
  ASSUME Base, Driver, call.op \in {"read", "write"}, NEW L, Layout(L), NEW c \in 1 .. Count,
         scr.ccs => c = 1, Commands(L, c)
  PROVE  UNCHANGED <<call, scr>> /\ Transferring(L)'
<1>1. IsTransfer /\ InTransfer /\ more \in Nat
  BY AllTransfers DEF Base, TypeInv, ChipTypes
<1>2. PICK x \in Codes, a \in Int : DataCommand(c) = <<"cmd", x, a, FALSE>> /\ a # TheRca
  <2>1. PICK x \in Codes : x = IF scr.ccs /\ Count > 1 THEN (IF call.op = "read" THEN "READ_MULTI" ELSE "WRITE_MULTI")
                                ELSE (IF call.op = "read" THEN "READ_SINGLE" ELSE "WRITE_SINGLE")
    BY CodeFacts
  <2>2. Addr(call.lba, c - 1) \in Nat
    BY <1>1, SdAssumption DEF InTransfer, Addr
  <2>3. DataCommand(c) = <<"cmd", x, Addr(call.lba, c - 1), FALSE>>
    BY <2>1, Zenon DEF DataCommand
  <2> QED BY <2>2, <2>3 DEF TheRca
<1>3. DataCommand(c)[2] = x /\ DataCommand(c)[3] = a
  BY <1>2
<1>4. PICK r \in Lists : r = Checks(MovesFrom(L, c)) /\ todo = Then(<<"cmd", x, a, FALSE>>, r)
  <2>1. Checks(MovesFrom(L, c)) \in Lists
    BY <1>1, LayoutLists
  <2> QED BY <1>2, <2>1, Zenon DEF Commands, CmdFrom
<1>5. UNCHANGED <<Steady, fifo, out, ret>> /\ (Issued(x, a) \/ Failed(r) \/ Answers(r))
  BY <1>4, CommandStep
<1>6. UNCHANGED <<call, scr, dat, fifo, card, more, out, disk, calls, blk>> /\ Kept
  BY <1>5 DEF Steady, Kept
<1>7. /\ Count' = Count /\ CmdFrom(L, c)' = CmdFrom(L, c) /\ MovesFrom(L, c)' = MovesFrom(L, c)
      /\ DataCommand(c)' = DataCommand(c) /\ Until(c)' = Until(c) /\ c \in 1 .. Count'
  BY <1>6, SameTransfer
<1>8. CASE Issued(x, a)
  <2>1. /\ inflight = None /\ phase' = "wait" /\ todo' = todo /\ intr' = {} /\ inflight' = <<x, a>>
        /\ phase # "wait" /\ "ERR" \notin intr
    BY <1>2, <1>8, IssuedFacts DEF Issued
  <2>2. Begins(c)
    BY <2>1 DEF Commands
  <2>3. Begins(c)'
    <3>1. CASE c = 1
      <4>1. NoneEnds /\ out = <<>> /\ (scr.ccs => blk = Count)
        BY <2>2, <3>1 DEF Begins
      <4> QED BY <1>6, <1>7, <3>1, <4>1, NoneEndsSame DEF Begins
    <3>2. CASE c # 1
      <4>1. ~scr.ccs /\ Moved(c - 1, c - 1) /\ c - 1 \in Nat
        BY <1>1, <2>1, <2>2, <3>2 DEF Begins, InTransfer
      <4>2. Moved(c - 1, c - 1)'
        BY <1>1, <1>6, <2>1, <4>1, MovedSame DEF InTransfer
      <4> QED BY <1>6, <3>2, <4>1, <4>2 DEF Begins
    <3> QED BY <3>1, <3>2
  <2>4. "CMD" \notin intr' /\ "DONE" \notin intr'
    BY <2>1
  <2>5. Commands(L, c)'
    <3>1. todo' = CmdFrom(L, c)' /\ inflight' = <<DataCommand(c)'[2], DataCommand(c)'[3]>>
      BY <1>3, <1>7, <2>1, Zenon DEF Commands
    <3> QED BY <2>1, <2>3, <2>4, <3>1, Zenon DEF Commands, Awaits
  <2> QED BY <1>6, <1>7, <2>5 DEF Transferring
<1>9. CASE Failed(r)
  <2>1. todo' = r /\ err' # SD_OK
    <3>1. SD_ERROR # SD_OK /\ SD_TIMEOUT # SD_OK
      BY DEF SD_ERROR, SD_OK, SD_TIMEOUT
    <3> QED BY <1>9, <3>1 DEF Failed
  <2>2. todo' = Checks(MovesFrom(L, c)') /\ Answered(Moving(c))'
    BY <1>4, <1>7, <2>1 DEF Answered
  <2> QED BY <1>6, <1>7, <2>2 DEF Transferring
<1>10. CASE Answers(r)
  <2>1. /\ phase = "wait" /\ "CMD" \in intr /\ "ERR" \notin intr /\ todo' = r /\ inflight' = inflight
        /\ intr' = intr \ {"CMD"}
    BY <1>10 DEF Answers
  <2>2. inflight = None /\ Moving(c)
    BY <2>1, Zenon DEF Commands, Awaits
  <2>3. PICK k \in Nat, e \in Nat : k = c - 1 /\ e = Until(c)
    BY <1>1 DEF Until, InTransfer
  <2>4. Moved(k, e)'
    BY <1>1, <1>6, <2>1, <2>2, <2>3, MovedSame DEF Moving, InTransfer
  <2>5. Moving(c)'
    BY <1>7, <2>3, <2>4 DEF Moving
  <2>6. todo' = Checks(MovesFrom(L, c)') /\ Answered(Moving(c))'
    BY <1>4, <1>7, <2>1, <2>2, <2>5 DEF Answered
  <2> QED BY <1>6, <1>7, <2>6 DEF Transferring
<1> QED BY <1>5, <1>8, <1>9, <1>10

LEMMA ChecksMove ==
  ASSUME Base, Driver, call.op \in {"read", "write"}, NEW L, Layout(L), NEW c \in 1 .. Count,
         todo = Checks(MovesFrom(L, c)), Answered(Moving(c))
  PROVE  UNCHANGED <<call, scr>> /\ (Transferring(L)' \/ TransferEnds')
<1>1. IsTransfer /\ InTransfer /\ more \in Nat /\ MovesFrom(L, c) \in Lists
  BY AllTransfers, LayoutLists DEF Base, TypeInv, ChipTypes
<1>2. /\ UNCHANGED <<Quiet>>
      /\ \/ err = SD_OK /\ todo' = MovesFrom(L, c)
         \/ todo' = <<>> /\ ret' = Fails
  BY <1>1, CheckStep
<1>3. UNCHANGED <<call, scr, inflight, intr>> /\ Kept
  BY <1>2 DEF Quiet, Steady, Kept
<1>4. CASE err = SD_OK /\ todo' = MovesFrom(L, c)
  <2>1. inflight = None /\ Moving(c)
    BY <1>4 DEF Answered
  <2>2. Count' = Count /\ MovesFrom(L, c)' = MovesFrom(L, c) /\ Until(c)' = Until(c)
    BY <1>3, SameTransfer
  <2>3. PICK k \in Nat, e \in Nat : k = c - 1 /\ e = Until(c)
    BY <1>1 DEF Until, InTransfer
  <2>4. "ERR" \in intr' \/ Moved(k, e)'
    BY <1>1, <1>3, <2>1, <2>3, MovedSame DEF Moving, InTransfer
  <2>5. Moving(c)'
    BY <2>2, <2>3, <2>4 DEF Moving
  <2> QED BY <1>3, <1>4, <2>1, <2>2, <2>5 DEF Transferring
<1>5. CASE todo' = <<>> /\ ret' = Fails
  BY <1>3, <1>5 DEF TransferEnds, Ended, Fails
<1> QED BY <1>2, <1>3, <1>4, <1>5

\* A block is moved.
LEMMA BlockMoves ==
  ASSUME Base, call.op \in {"read", "write"}, InTransfer, NEW c \in 1 .. Count, NEW e \in Nat, e <= Count,
         Moved(c - 1, e), "ERR" \notin intr, UNCHANGED <<disk, card, more, call, scr, calls>>,
         IF call.op = "read"
         THEN "READ" \in intr /\ intr' = intr \ {"READ"} /\ out' = Append(out, fifo) /\ fifo' = None
         ELSE "WRITE" \in intr /\ intr' = intr \ {"WRITE"} /\ out' = out /\ fifo' = <<calls, c>>
  PROVE  Moved(c, e)'
<1>1. PICK k \in Nat : k = c - 1 /\ k + 1 = c /\ k < Count
  BY DEF InTransfer
<1>2. /\ Count' = Count /\ Fresh' = Fresh /\ call.lba \in Nat /\ Count \in Nat /\ more \in Nat /\ Moved(k, e)
      /\ disk \in [Lbas -> Values]
  BY <1>1, SameTransfer DEF InTransfer, Base, TypeInv, ChipTypes
<1>3. CASE call.op = "read"
  <2>1. Got(k, e) /\ "READ" \in intr
    BY <1>2, <1>3 DEF Moved
  <2>2. fifo = disk[call.lba + k] /\ card.pos = call.lba + k + 1 /\ more = e - k - 1
    BY <2>1 DEF Got
  <2>3. out' = [b \in 1 .. c |-> disk[call.lba + b - 1]]
    <3>1. out = [b \in 1 .. k |-> disk[call.lba + b - 1]]
      BY <2>1 DEF Got
    <3>2. \A b \in 1 .. c : call.lba + b - 1 \in Lbas
      BY <1>1, SdAssumption DEF InTransfer, Lbas
    <3>3. PICK g : g = [b \in Nat |-> disk[call.lba + b - 1]]
      OBVIOUS
    <3>4. out = [b \in 1 .. k |-> g[b]] /\ fifo = g[c]
      <4>1. \A b \in 1 .. k : g[b] = disk[call.lba + b - 1]
        BY <1>1, <3>3
      <4>2. g[c] = disk[call.lba + c - 1] /\ call.lba + c - 1 = call.lba + k
        BY <1>1, <1>2, <3>3
      <4> QED BY <2>2, <3>1, <4>1, <4>2
    <3>5. Append([b \in 1 .. k |-> g[b]], g[c]) = [b \in 1 .. c |-> g[b]]
      BY <1>1
    <3>6. \A b \in 1 .. c : g[b] = disk[call.lba + b - 1]
      BY <1>1, <3>3
    <3>7. [b \in 1 .. c |-> g[b]] = [b \in 1 .. c |-> disk[call.lba + b - 1]]
      BY <3>6
    <3> QED BY <1>3, <3>4, <3>5, <3>7
  <2>4. out' = [b \in 1 .. c |-> disk'[call'.lba + b - 1]] /\ (In("data") \/ In("tran"))'
    BY <2>1, <2>3, Zenon DEF Got, In
  <2>5. "READ" \notin intr' /\ fifo' = None /\ card'.pos = call'.lba + c /\ more' = e - c
    BY <1>1, <1>2, <1>3, <2>2
  <2>6. Got(c, e)'
    BY <2>4, <2>5, Zenon DEF Got
  <2> QED BY <1>3, <2>6, Zenon DEF Moved
<1>4. CASE call.op # "read"
  <2>1. Put(k, e) /\ out = <<>> /\ "WRITE" \in intr /\ fifo = None /\ intr' = intr \ {"WRITE"}
        /\ fifo' = <<calls, c>> /\ out' = out
    BY <1>2, <1>4 DEF Moved, Base, FifoInv
  <2>2. fifo # <<calls, k>>
    BY <2>1 DEF None
  <2>3. card.pos = call.lba + k /\ more = e - k /\ Written(k) /\ In("rcv")
    BY <2>1, <2>2 DEF Put
  <2>4. Written(c - 1)' /\ In("rcv")'
    BY <1>1, <2>3, Zenon DEF Written, In
  <2>5. /\ fifo' = <<calls', c>> /\ card'.pos = call'.lba + c - 1 /\ more' = e - c + 1
        /\ c > 0 /\ "WRITE" \notin intr'
    BY <1>1, <1>2, <2>1, <2>3
  <2>6. (Fresh /\ "DONE" \in intr => more = 0)'
    BY <1>2, <2>1 DEF Put
  <2>7. fifo' # None
    BY <2>1 DEF None
  <2>8. Put(c, e)'
    BY <2>4, <2>5, <2>6, <2>7, Zenon DEF Put
  <2> QED BY <1>4, <2>1, <2>8, Zenon DEF Moved
<1> QED BY <1>3, <1>4

LEMMA MovesMove ==
  ASSUME Base, Driver, call.op \in {"read", "write"}, NEW L, Layout(L), NEW c \in 1 .. Count,
         todo = MovesFrom(L, c), inflight = None, Moving(c)
  PROVE  UNCHANGED <<call, scr>> /\ (Transferring(L)' \/ TransferEnds')
<1>1. IsTransfer /\ InTransfer /\ more \in Nat /\ L[c] \in Lists /\ call.op # "init"
  BY AllTransfers, LayoutLists DEF Base, TypeInv, ChipTypes
<1>2. PICK e \in Nat : e = Until(c) /\ e <= Count
  BY <1>1 DEF Until, InTransfer
<1>3. /\ UNCHANGED <<Steady, inflight>>
      /\ \/ /\ "ERR" \notin intr /\ todo' = L[c] /\ phase' = phase
            /\ IF call.op = "read"
               THEN "READ" \in intr /\ intr' = intr \ {"READ"} /\ out' = Append(out, fifo) /\ fifo' = None
               ELSE "WRITE" \in intr /\ intr' = intr \ {"WRITE"} /\ out' = out /\ fifo' = <<calls, c>>
         \/ todo' = <<>> /\ ret' = 0
  <2>1. c \in Nat \ {0}
    BY <1>1 DEF InTransfer
  <2>2. CASE call.op = "read"
    <3>1. todo = Then(<<"get", c>>, L[c])
      BY <2>2, Zenon DEF MovesFrom, MoveOf
    <3> QED BY <1>1, <2>1, <2>2, <3>1, GetStep
  <2>3. CASE call.op # "read"
    <3>1. todo = Then(<<"put", c>>, L[c])
      BY <2>3, Zenon DEF MovesFrom, MoveOf
    <3> QED BY <1>1, <2>1, <2>3, <3>1, PutStep
  <2> QED BY <2>2, <2>3
<1>4. UNCHANGED <<disk, card, more, call, scr, calls, inflight>>
  BY <1>3 DEF Steady
<1>5. phase = "issue"
  <2>1. PICK o \in Steps : o = MoveOf(c) /\ o[1] # "cmd"
    <3>1. MoveOf(c) \in Steps
      BY <1>1, CountFacts
    <3>2. MoveOf(c)[1] = IF call.op = "read" THEN "get" ELSE "put"
      BY DEF MoveOf
    <3> QED BY <3>1, <3>2
  <2> QED BY <1>1, <2>1, NotWaiting DEF MovesFrom
<1>6. CASE todo' = <<>> /\ ret' = 0
  BY <1>4, <1>6 DEF TransferEnds, Ended
<1>7. CASE /\ "ERR" \notin intr /\ todo' = L[c] /\ phase' = phase
           /\ IF call.op = "read"
              THEN "READ" \in intr /\ intr' = intr \ {"READ"} /\ out' = Append(out, fifo) /\ fifo' = None
              ELSE "WRITE" \in intr /\ intr' = intr \ {"WRITE"} /\ out' = out /\ fifo' = <<calls, c>>
  <2>1. Moved(c, e)'
    <3>1. Moved(c - 1, e)
      BY <1>2, <1>7 DEF Moving
    <3> QED BY <1>1, <1>2, <1>4, <1>7, <3>1, BlockMoves
  <2>2. Count' = Count /\ \A b : MovesFrom(L, b)' = MovesFrom(L, b) /\ CmdFrom(L, b)' = CmdFrom(L, b)
                                 /\ Until(b)' = Until(b)
    BY <1>4, SameTransfer
  <2>3. phase' # "wait" /\ inflight' = None
    BY <1>4, <1>5, <1>7
  <2>4. CASE c # Count /\ scr.ccs
    <3>1. PICK d \in 1 .. Count : d = c + 1 /\ d - 1 = c
      BY <1>1, <2>4 DEF InTransfer
    <3>2. todo' = MovesFrom(L, d)'
      BY <1>1, <1>7, <2>2, <2>4, <3>1, LayoutLists
    <3>3. Until(d) = e
      BY <1>2, <2>4 DEF Until
    <3>4. Moving(d)'
      BY <2>1, <2>2, <3>1, <3>3 DEF Moving
    <3>5. d \in 1 .. Count'
      BY <2>2
    <3> QED BY <1>4, <2>3, <3>2, <3>4, <3>5 DEF Transferring
  <2>5. CASE c # Count /\ ~scr.ccs
    <3>1. PICK d \in 1 .. Count : d = c + 1 /\ d - 1 = c /\ d # 1 /\ d > 1
      BY <1>1, <2>5 DEF InTransfer
    <3>2. todo' = CmdFrom(L, d)'
      BY <1>1, <1>7, <2>2, <2>5, <3>1, LayoutLists
    <3>3. e = c
      BY <1>2, <2>5 DEF Until
    <3>4. Begins(d)'
      BY <1>4, <2>1, <2>5, <3>1, <3>3 DEF Begins
    <3>5. Commands(L, d)'
      BY <2>3, <3>2, <3>4, Zenon DEF Commands
    <3>6. d \in 1 .. Count'
      BY <2>2
    <3> QED BY <1>4, <2>5, <3>5, <3>6 DEF Transferring
  <2>6. CASE c = Count
    <3>1. e = Count /\ todo' = Behind
      BY <1>1, <1>2, <1>7, <2>6, LayoutLists DEF Until
    <3>2. Moved(Count, Count)'
      BY <2>1, <2>2, <2>6, <3>1, Zenon
    <3>3. CASE call.op = "read"
      <4>1. todo' = Stops
        BY <3>1, <3>3 DEF Behind
      <4>2. Over'
        BY <1>4, <3>2, <3>3 DEF Over
      <4> QED BY <1>1, <1>4, <2>3, <4>1, <4>2, StopsNext
    <3>4. CASE call.op = "write"
      <4>1. todo' = Then(<<"done">>, Stops)'
        <5>1. Stops' = Stops
          BY <1>4, SameTransfer
        <5> QED BY <3>1, <3>4, <5>1, Zenon DEF Behind
      <4> QED BY <1>4, <2>3, <3>2, <3>4, <4>1 DEF Transferring
    <3> QED BY <3>3, <3>4
  <2> QED BY <2>4, <2>5, <2>6
<1> QED BY <1>3, <1>6, <1>7

\* The wait for the card to be done.
LEMMA DoneMoves ==
  ASSUME Base, Driver, call.op = "write", NEW L, Layout(L),
         todo = Then(<<"done">>, Stops), inflight = None, Moved(Count, Count)
  PROVE  UNCHANGED <<call, scr>> /\ (Transferring(L)' \/ TransferEnds')
<1>1. IsTransfer /\ InTransfer /\ more \in Nat /\ Stops \in Lists
  BY AllTransfers, BehindFacts DEF Base, TypeInv, ChipTypes
<1>2. /\ UNCHANGED <<Steady, inflight, fifo, out>>
      /\ \/ "DONE" \in intr /\ intr' = intr \ {"DONE"} /\ todo' = Stops /\ phase' = phase
         \/ todo' = <<>> /\ ret' = 0
  <2>1. "done" \in {"scr", "done"}
    OBVIOUS
  <2> QED BY <1>1, <2>1, WaitStep
<1>3. UNCHANGED <<call, scr, inflight, more>> /\ Kept
  BY <1>2 DEF Steady, Kept
<1>4. phase = "issue"
  <2>1. PICK o \in Steps : o = <<"done">> /\ o[1] = "done"
    BY StepFacts
  <2> QED BY <1>1, <2>1, NotWaiting
<1>5. CASE todo' = <<>> /\ ret' = 0
  BY <1>3, <1>5 DEF TransferEnds, Ended
<1>6. CASE "DONE" \in intr /\ intr' = intr \ {"DONE"} /\ todo' = Stops /\ phase' = phase
  <2>1. PICK k \in Nat : k = Count
    BY <1>1 DEF InTransfer
  <2>2. Moved(k, k)' /\ Count' = Count /\ Fresh' = Fresh
    BY <1>1, <1>3, <1>6, <2>1, MovedSame, SameTransfer DEF InTransfer
  <2>3. Moved(Count, Count)'
    BY <2>1, <2>2, Zenon
  <2>4. Fresh => more = 0
    BY <1>6 DEF Moved, Put
  <2>5. Over'
    BY <1>3, <2>2, <2>3, <2>4 DEF Over
  <2> QED BY <1>1, <1>3, <1>4, <1>6, <2>5, StopsNext
<1> QED BY <1>2, <1>5, <1>6

\* STOP, and the end of the call.
LEMMA StopMoves ==
  ASSUME Base, Driver, call.op \in {"read", "write"}, NEW L, todo = Command("STOP", 0, Ends), scr.ccs, Over,
         IF phase = "wait" THEN Awaits("STOP", 0, TRUE, TRUE) ELSE inflight = None
  PROVE  UNCHANGED <<call, scr>> /\ Transferring(L)'
<1>1. 0 # TheRca /\ SD_ERROR # SD_OK /\ SD_TIMEOUT # SD_OK
  BY DEF TheRca, SD_ERROR, SD_OK, SD_TIMEOUT
<1>2. UNCHANGED <<Steady, fifo, out>> /\ (Issued("STOP", 0) \/ Failed(Ends) \/ Answers(Ends))
  BY InitLists, CodeFacts, CommandStep DEF Command
<1>3. UNCHANGED <<call, scr>> /\ Kept
  BY <1>2 DEF Steady, Kept
<1>4. inflight = None \/ Inflight("STOP")
  BY DEF Awaits, Inflight, None
<1>5. CASE Issued("STOP", 0)
  <2>1. inflight' = <<"STOP", 0>> /\ intr' = {} /\ phase' = "wait" /\ todo' = todo /\ "CMD" \notin intr'
    BY <1>1, <1>5, IssuedFacts
  <2>2. Over'
    BY <1>3, <2>1, OverSame
  <2> QED BY <1>3, <2>1, <2>2 DEF Transferring, Awaits
<1>6. CASE Failed(Ends)
  <2>1. todo' = Ends /\ err' # SD_OK /\ inflight' = inflight /\ (intr' = intr \/ intr' = {})
    BY <1>1, <1>6 DEF Failed
  <2>2. Over'
    BY <1>3, <2>1, OverSame
  <2>3. (inflight = None \/ (Inflight("STOP") /\ scr.ccs))'
    BY <1>3, <1>4, <2>1 DEF Inflight
  <2> QED BY <2>1, <2>2, <2>3, <1>3 DEF Transferring, Answered
<1>7. CASE Answers(Ends)
  <2>1. todo' = Ends /\ inflight' = inflight /\ intr' = intr \ {"CMD"} /\ phase = "wait" /\ "CMD" \in intr
    BY <1>7 DEF Answers
  <2>2. inflight' = None
    BY <2>1 DEF Awaits
  <2>3. Over'
    BY <1>3, <2>1, OverSame
  <2> QED BY <2>1, <2>2, <2>3, <1>3 DEF Transferring, Answered
<1> QED BY <1>2, <1>3, <1>5, <1>6, <1>7

LEMMA EndMoves ==
  ASSUME Base, Driver, call.op \in {"read", "write"}, todo = Ends, Answered(TRUE), Over
  PROVE  UNCHANGED <<call, scr>> /\ TransferEnds'
<1>1. /\ UNCHANGED <<disk, chip, err, scr, call, out, calls>> /\ todo' = <<>>
      /\ ret' = CASE call.op = "init" -> SD_OK
                   [] call.op # "init" /\ err # SD_OK -> 0
                   [] OTHER -> Count
  BY EndStep
<1>2. Kept /\ intr' = intr /\ inflight' = inflight
  BY <1>1 DEF Kept, chip
<1>3. Over'
  BY <1>2, OverSame
<1>4. CASE err = SD_OK
  BY <1>1, <1>2, <1>3, <1>4 DEF TransferEnds, Ended, Answered
<1>5. CASE err # SD_OK
  BY <1>1, <1>5 DEF TransferEnds, Ended
<1> QED BY <1>1, <1>4, <1>5

\* Every position of a transfer is a list that is not empty.
TransferAt(L) == IsTransfer /\ Layout(L) /\ Transferring(L)
TransfersGoOn == \A L : TransferAt(L) => todo \in Lists /\ ~Ended
LEMMA TransferPositions == TransfersGoOn
<1> SUFFICES ASSUME NEW L, TransferAt(L) PROVE todo \in Lists /\ ~Ended
  BY DEF TransfersGoOn
<1> DEFINE Has(x) == x \in Lists /\ x # <<>>
<1>1. IsTransfer /\ Layout(L) /\ Transferring(L) /\ Count \in Nat \ {0} /\ Count \in Int /\ Stops \in Lists
  BY CountFacts, BehindFacts DEF TransferAt
<1>2. ASSUME NEW r \in Lists
      PROVE  Has(Checks(r)) /\ Has(Then(<<"status">>, r)) /\ Has(Then(<<"done">>, r)) /\ Has(Then(<<"end">>, r))
  BY StepFacts, ThenFacts DEF Checks
<1>3. ASSUME NEW r \in Lists, NEW c \in Codes, NEW a \in Int
      PROVE  Has(Command(c, a, r))
  <2>1. PICK o \in Steps : o = <<"cmd", c, a, FALSE>>
    BY StepFacts
  <2> QED BY <2>1, ThenFacts DEF Command
<1>4. ASSUME NEW c \in 1 .. Count
      PROVE  Has(Checks(MovesFrom(L, c))) /\ Has(CmdFrom(L, c)) /\ Has(MovesFrom(L, c))
  <2>1. L[c] \in Lists /\ MovesFrom(L, c) \in Lists /\ Checks(MovesFrom(L, c)) \in Lists
        /\ DataCommand(c) \in Steps /\ MoveOf(c) \in Steps
    BY <1>1, CountFacts, LayoutLists
  <2> QED BY <1>2, <2>1, ThenFacts DEF CmdFrom, MovesFrom
<1>5. Has(SizeFrom(L)) /\ Has(Checks(SizeFrom(L))) /\ Has(Command("BLOCKCNT", Count, Checks(SizeFrom(L))))
  <2>1. SizeFrom(L) \in Lists /\ Checks(SizeFrom(L)) \in Lists
    BY <1>1, LayoutLists
  <2>2. SizeFrom(L) # <<>>
    <3>1. 1 \in 1 .. Count
      BY <1>1
    <3>2. CmdFrom(L, 1) \in Lists
      BY <1>4, <3>1
    <3>3. PICK k \in Nat \ {0} : k = IF scr.ccs THEN Count ELSE 1
      BY <1>1
    <3>4. <<"blksize", k>> \in Steps
      BY DEF Steps
    <3>5. Then(<<"blksize", k>>, CmdFrom(L, 1)) # <<>>
      BY <3>2, <3>4, ThenFacts
    <3> QED BY <3>3, <3>5, Zenon DEF SizeFrom
  <2> QED BY <1>1, <1>2, <1>3, <2>1, <2>2, CodeFacts
<1>6. Has(StatusFrom(L))
  <2>1. PICK r \in Lists : StatusFrom(L) = Then(<<"status">>, r)
    BY <1>5, Zenon DEF StatusFrom
  <2> QED BY <1>2, <2>1
<1>7. Has(Then(<<"done">>, Stops)) /\ Has(Command("STOP", 0, Ends)) /\ Has(Ends)
  <2>1. Has(Ends)
    <3>1. <<>> \in Lists
      BY ThenFacts
    <3> QED BY <1>2, <3>1 DEF Ends
  <2> QED BY <1>1, <1>2, <1>3, <2>1, InitLists, CodeFacts
<1> HIDE DEF Has
<1>8. Has(todo)
  BY <1>1, <1>4, <1>5, <1>6, <1>7 DEF Transferring, Commands
<1> QED BY <1>8 DEF Has, Ended

LEMMA DriverTransfer ==
  ASSUME Base, Driver, TransferInv, call.op \in {"read", "write"}
  PROVE  TransferInv' /\ call' = call /\ scr' = scr
<1>1. ~Ended
  BY DriverKinds DEF Ended, Is
<1>2. PICK L : Layout(L) /\ Transferring(L)
  BY <1>1 DEF TransferInv
<1>3. UNCHANGED <<call, scr>> /\ (Transferring(L)' \/ TransferEnds')
  <2>1. CASE out = <<>> /\
             \/ todo = StatusFrom(L)
             \/ /\ NoneEnds
                /\ \/ Presets /\ todo \in {Command("BLOCKCNT", Count, Checks(SizeFrom(L))), Checks(SizeFrom(L))}
                   \/ todo = SizeFrom(L)
    BY <1>2, <2>1, BeforeMoves
  <2>2. ASSUME NEW c \in 1 .. Count, scr.ccs => c = 1, Commands(L, c)
        PROVE  UNCHANGED <<call, scr>> /\ (Transferring(L)' \/ TransferEnds')
    BY <1>2, <2>2, CommandsMove
  <2>3. ASSUME NEW c \in 1 .. Count, todo = Checks(MovesFrom(L, c)) /\ Answered(Moving(c))
        PROVE  UNCHANGED <<call, scr>> /\ (Transferring(L)' \/ TransferEnds')
    BY <1>2, <2>3, ChecksMove
  <2>4. ASSUME NEW c \in 1 .. Count, todo = MovesFrom(L, c) /\ inflight = None /\ Moving(c)
        PROVE  UNCHANGED <<call, scr>> /\ (Transferring(L)' \/ TransferEnds')
    BY <1>2, <2>4, MovesMove
  <2>5. CASE call.op = "write" /\ todo = Then(<<"done">>, Stops) /\ inflight = None /\ Moved(Count, Count)
    BY <1>2, <2>5, DoneMoves
  <2>6. CASE todo = Command("STOP", 0, Ends) /\ scr.ccs /\ Over
             /\ IF phase = "wait" THEN Awaits("STOP", 0, TRUE, TRUE) ELSE inflight = None
    BY <2>6, StopMoves
  <2>7. CASE todo = Ends /\ Answered(TRUE) /\ Over
    BY <2>7, EndMoves
  <2> QED BY <1>2, <2>1, <2>2, <2>3, <2>4, <2>5, <2>6, <2>7, Zenon DEF Transferring
<1>4. CASE Transferring(L)'
  <2>1. Layout(L)' /\ ~Ended'
    <3>1. Layout(L)'
      BY <1>2, <1>3, SameTransfer
    <3>2. ~Ended'
      <4>1. (IsTransfer /\ Layout(L) /\ Transferring(L) => ~Ended)'
        <5>1. TransfersGoOn'
          BY TransferPositions, PTL
        <5> QED BY <5>1 DEF TransfersGoOn, TransferAt
      <4>2. IsTransfer'
        BY <1>3, AllTransfers DEF IsTransfer
      <4> QED BY <1>4, <3>1, <4>1, <4>2
    <3> QED BY <3>1, <3>2
  <2> QED BY <1>3, <1>4, <2>1 DEF TransferInv
<1>5. CASE TransferEnds'
  BY <1>3, <1>5 DEF TransferInv, TransferEnds
<1> QED BY <1>3, <1>4, <1>5

-----------------------------------------------------------------------------
(* What every step of the driver leaves as Base demands.                   *)

Cleared == inflight' = None /\ intr' = {} /\ dat' = FALSE /\ more' = 0 /\ fifo' = None
Sends(c, a) == inflight' = <<c, a>> /\ (c = "WIDTH" => kind.wide) /\ (c \in Multis => blk > 0) /\ blk' = blk
Fills == /\ "WRITE" \in intr /\ "ERR" \notin intr /\ "WRITE" \notin intr' /\ "READ" \notin intr'
         /\ <<card.pos, fifo'>> \in asked
LawfulChip ==
  /\ UNCHANGED <<kind, disk, card, busy, dead, call, calls, asked>> /\ (faults' = faults \/ Fault)
  /\ (UNCHANGED <<dat, more>>) \/ Cleared
  /\ blk' \in Nat /\ (blk' = blk \/ blk' > 0 \/ inflight' = None)
  /\ inflight' \in {None, inflight} \/ \E c \in Codes, a \in Int : Sends(c, a)
  /\ intr' \subseteq intr /\ ("ERR" \in intr => "ERR" \in intr' \/ intr' = {})
  /\ fifo' = fifo \/ (fifo' = None /\ "READ" \notin intr') \/ Fills
  /\ reply' \in {"", reply}
LawfulDriver ==
  /\ err' \in {SD_OK, SD_TIMEOUT, SD_ERROR} /\ rca' \in {0, 1}
  /\ phase' = "issue" \/ (phase' = "wait" /\ todo' = todo /\ Is("cmd"))
  /\ scr' \in Kinds /\ started' \in BOOLEAN /\ hostWide' \in BOOLEAN
  /\ started' => scr'.ccs = kind.ccs
  /\ started => started'
  /\ call.op = "init" /\ ~Ended' => ~started'
  /\ out' \in Seq(Values) /\ Len(out') <= AtLeastOne(call.num)

LEMMA LawfulChips ==
  ASSUME Base, LawfulChip
  PROVE  ChipTypes' /\ FifoInv' /\ ChipKnows'
<1>1. /\ ChipTypes /\ FifoInv /\ ChipKnows /\ UNCHANGED <<kind, disk, card, busy, call, calls, asked>>
      /\ intr' \subseteq intr
  BY KnownParts DEF Base, TypeInv, LawfulChip
<1>2. (UNCHANGED <<dat, more>>) \/ Cleared
  BY DEF LawfulChip
<1>3. ChipTypes'
  <2>1. faults' \in Nat /\ faults' <= MaxFault
    <3>1. faults \in Nat /\ faults <= MaxFault /\ MaxFault \in Nat
      BY <1>1, SdAssumption DEF ChipTypes
    <3>2. faults' = faults \/ (faults < MaxFault /\ faults' = faults + 1)
      BY DEF LawfulChip, Fault
    <3> QED BY <3>1, <3>2
  <2>2. inflight' = None \/ \E c \in Codes, a \in Int : inflight' = <<c, a>>
    <3>1. inflight = None \/ \E c \in Codes, a \in Int : inflight = <<c, a>>
      BY <1>1, Zenon DEF ChipTypes
    <3>2. inflight' \in {None, inflight} \/ \E c \in Codes, a \in Int : inflight' = <<c, a>>
      BY Zenon DEF LawfulChip, Sends
    <3> QED BY <3>1, <3>2
  <2>3. dat' \in BOOLEAN /\ more' \in Nat
    <3>1. dat \in BOOLEAN /\ more \in Nat
      BY <1>1, Zenon DEF ChipTypes
    <3>2. CASE UNCHANGED <<dat, more>>
      <4>1. dat' = dat /\ more' = more
        BY <3>2
      <4> QED BY <3>1, <4>1, Zenon
    <3>3. CASE Cleared
      <4>1. dat' = FALSE /\ more' = 0
        BY <3>3 DEF Cleared
      <4> QED BY <4>1
    <3> QED BY <1>2, <3>2, <3>3
  <2>4. dead' \in BOOLEAN
    BY <1>1 DEF ChipTypes, LawfulChip
  <2> QED BY <1>1, <2>1, <2>2, <2>3, <2>4 DEF ChipTypes, Kinds, Lbas, LawfulChip
<1>4. FifoInv'
  <2>1. /\ fifo # None => dat
        /\ "READ" \in intr => fifo # None
        /\ card.st = "rcv" /\ fifo # None => "READ" \notin intr /\ <<card.pos, fifo>> \in asked
        /\ "WRITE" \in intr /\ "ERR" \notin intr => dat /\ more > 0 /\ fifo = None /\ card.st # "data"
        /\ WritesInPlace
    BY <1>1, Zenon DEF FifoInv
  <2>2. /\ fifo' = fifo \/ (fifo' = None /\ "READ" \notin intr') \/ Fills
        /\ "ERR" \in intr => "ERR" \in intr' \/ intr' = {}
    BY DEF LawfulChip
  <2>3. WritesInPlace'
    BY <1>1, <2>1, Zenon DEF WritesInPlace
  <2>4. CASE Cleared
    <3>1. fifo' = None /\ intr' = {}
      BY <2>4 DEF Cleared
    <3> QED BY <2>3, <3>1 DEF FifoInv
  <2>5. CASE (UNCHANGED <<dat, more>>) /\ (fifo' = fifo \/ (fifo' = None /\ "READ" \notin intr'))
    <3>1. fifo' # None => dat'
      BY <2>1, <2>5
    <3>2. "READ" \in intr' => fifo' # None
      BY <1>1, <2>1, <2>5
    <3>3. card'.st = "rcv" /\ fifo' # None => "READ" \notin intr' /\ <<card'.pos, fifo'>> \in asked'
      BY <1>1, <2>1, <2>5
    <3>4. "WRITE" \in intr' /\ "ERR" \notin intr' => dat' /\ more' > 0 /\ fifo' = None /\ card'.st # "data"
      BY <1>1, <2>1, <2>2, <2>5
    <3> QED BY <2>3, <3>1, <3>2, <3>3, <3>4, Zenon DEF FifoInv
  <2>6. CASE (UNCHANGED <<dat, more>>) /\ Fills
    <3>1. "WRITE" \in intr /\ "ERR" \notin intr /\ "WRITE" \notin intr' /\ "READ" \notin intr'
          /\ <<card'.pos, fifo'>> \in asked' /\ dat'
      BY <1>1, <2>1, <2>6 DEF Fills
    <3> QED BY <2>3, <3>1, Zenon DEF FifoInv
  <2> QED BY <1>2, <2>2, <2>4, <2>5, <2>6
<1>5. ChipKnows'
  <2>1. reply' \in {"complete", "complete ccs"} => reply' = IF kind'.ccs THEN "complete ccs" ELSE "complete"
    BY <1>1 DEF LawfulChip, ChipKnows
  <2>2. card'.wide => kind'.wide
    BY <1>1 DEF ChipKnows
  <2>3. (inflight' = None /\ \A c : ~Inflight(c)') \/ (inflight' = inflight /\ \A c : Inflight(c)' = Inflight(c))
        \/ \E c \in Codes, a \in Int : Sends(c, a) /\ \A d : Inflight(d)' => d = c
    <3>1. CASE inflight' = None
      BY <3>1, NothingInflight
    <3>2. CASE inflight' = inflight
      BY <3>2 DEF Inflight
    <3>3. ASSUME NEW c \in Codes, NEW a \in Int, Sends(c, a)
          PROVE  \A d : Inflight(d)' => d = c
      BY <3>3 DEF Inflight, Sends
    <3> QED BY <3>1, <3>2, <3>3 DEF LawfulChip
  <2>4. (Inflight("WIDTH") => kind.wide)'
    BY <1>1, <2>3 DEF ChipKnows, Sends
  <2>5. (\A c \in Multis : Inflight(c) => blk > 0)'
    <3>1. CASE inflight' = None /\ \A c : ~Inflight(c)'
      BY <3>1
    <3>2. CASE inflight' = inflight /\ (\A c : Inflight(c)' = Inflight(c)) /\ inflight' # None
      <4>1. blk' = blk \/ blk' > 0
        BY <3>2 DEF LawfulChip
      <4> QED BY <1>1, <3>2, <4>1 DEF ChipKnows
    <3>3. ASSUME NEW c \in Codes, NEW a \in Int, Sends(c, a), \A d : Inflight(d)' => d = c
          PROVE  \A d \in Multis : Inflight(d)' => blk' > 0
      BY <3>3 DEF Sends
    <3> QED BY <2>3, <3>1, <3>2, <3>3, NothingInflight
  <2> QED BY <2>1, <2>2, <2>4, <2>5, Zenon DEF ChipKnows
<1> QED BY <1>3, <1>4, <1>5

LEMMA Lawfuls ==
  ASSUME Base, ~Ended, LawfulChip, LawfulDriver
  PROVE  Base'
<1>1. ChipTypes' /\ FifoInv' /\ ChipKnows'
  BY LawfulChips
<1>2. UNCHANGED <<kind, call, calls, asked>>
  BY DEF LawfulChip
<1>3. DriverTypes'
  BY <1>2 DEF Base, TypeInv, DriverTypes, LawfulDriver
<1>4. DriverKnows'
  <2>1. DriverKnows /\ Count' = Count
    BY <1>2, KnownParts, Zenon DEF Base, Count
  <2>2. (phase = "wait" => Is("cmd"))'
    <3>1. todo' = todo /\ Is("cmd") => Is("cmd")'
      BY DEF Is, Op
    <3> QED BY <3>1 DEF LawfulDriver
  <2>3. call'.op # "none"
    BY <1>2, <2>1 DEF DriverKnows
  <2>4. (call.op \in {"read", "write"} => started /\ call.lba + Count <= Sectors)'
    BY <1>2, <2>1 DEF DriverKnows, LawfulDriver
  <2>5. (call.op = "write" => \A c \in 1 .. Count : <<call.lba + c - 1, <<calls, c>>>> \in asked)'
    BY <1>2, <2>1, Zenon DEF DriverKnows
  <2>6. (started => scr.ccs = kind.ccs)' /\ (call.op = "init" /\ ~Ended => ~started)'
    BY <1>2 DEF LawfulDriver
  <2> QED BY <2>2, <2>3, <2>4, <2>5, <2>6, Zenon DEF DriverKnows
<1>5. KnownInv'
  <2>1. (KnownInv <=> DriverKnows /\ ChipKnows)'
    BY KnownParts, PTL
  <2> QED BY <1>1, <1>4, <2>1
<1> QED BY <1>1, <1>3, <1>5 DEF Base, TypeInv

\* What a step of the driver rests on, by the step.
Ready ==
  /\ todo \in Lists
  /\ Is("cmd") /\ phase = "issue" => (Op[2] = "WIDTH" => kind.wide) /\ (Op[2] \in Multis => blk > 0)
  /\ Is("words") => "READ" \notin intr
  /\ Is("get") /\ "READ" \in intr /\ "ERR" \notin intr => fifo \in Values /\ Len(out) < Count
  /\ Is("put") /\ "WRITE" \in intr /\ "ERR" \notin intr => <<card.pos, <<calls, Op[2]>>>> \in asked
  /\ Is("end") /\ call.op = "init" => scr.ccs = kind.ccs
  /\ Is("tried") => call.op = "init"

Typical ==
  /\ blk \in Nat /\ err \in {SD_OK, SD_TIMEOUT, SD_ERROR} /\ rca \in {0, 1} /\ phase \in {"issue", "wait"}
  /\ scr \in Kinds /\ kind \in Kinds /\ started \in BOOLEAN /\ hostWide \in BOOLEAN
  /\ out \in Seq(Values) /\ Len(out) <= AtLeastOne(call.num)
  /\ started => scr.ccs = kind.ccs
  /\ call.op = "init" /\ ~Ended => ~started
  /\ phase = "wait" => Is("cmd")
LEMMA Typicals ==
  ASSUME Base
  PROVE  Typical
BY DEF Base, TypeInv, ChipTypes, DriverTypes, KnownInv, Typical

LEMMA ChipSame ==
  ASSUME Base, UNCHANGED <<kind, disk, card, busy, inflight, intr, dat, blk, more, fifo, dead, call, calls, asked>>,
         faults' = faults \/ Fault, reply' \in {"", reply}
  PROVE  LawfulChip
BY Typicals DEF Typical, LawfulChip

LEMMA DriverSame ==
  ASSUME Base, ~Ended, UNCHANGED <<kind, call, scr, started, out>>, rca' \in {0, 1}, hostWide' \in BOOLEAN,
         err' \in {SD_OK, SD_TIMEOUT, SD_ERROR},
         phase' = "issue" \/ (phase' = "wait" /\ todo' = todo /\ Is("cmd"))
  PROVE  LawfulDriver
BY Typicals DEF Typical, LawfulDriver

LEMMA CommandsLaw ==
  ASSUME Base, Ready, Issue \/ Answer
  PROVE  Base'
<1>1. Is("cmd") /\ ~Ended /\ Typical
  BY Typicals, Zenon DEF Issue, Answer, Is, Ended
<1>2. Op[2] \in Codes /\ Op[3] \in Int
  <2>1. todo \in Seq(Steps) /\ todo # <<>>
    BY <1>1 DEF Ready, Lists, Ended
  <2>2. Op \in Steps
    BY <2>1 DEF Op
  <2>3. Op[1] = "cmd"
    BY <1>1, Zenon DEF Is
  <2> QED BY <2>2, <2>3, StepKinds
<1>3. CASE Issue
  <2>1. /\ UNCHANGED <<kind, disk, card, busy, dat, blk, more, fifo, hostWide, dead, rca, scr,
                       started, call, out, ret, calls, asked>>
        /\ phase = "issue"
    BY <1>3, Zenon DEF Issue
  <2>2. \/ /\ inflight = None /\ "ERR" \notin intr /\ phase' = "wait" /\ intr' = {} /\ reply' = "" /\ todo' = todo
           /\ faults' = faults /\ inflight' = <<Op[2], IF Op[3] = TheRca THEN rca ELSE Op[3]>>
           /\ err' = IF Op[4] THEN err ELSE SD_OK
        \/ /\ faults' = faults \/ Fault
           /\ err' = SD_TIMEOUT /\ reply' = "" /\ inflight' = inflight /\ intr' = intr /\ phase' = phase
    <3>1. \A come : GivesUp(come) => faults' = faults \/ Fault
      BY GivesUpFacts
    <3> QED BY <1>3, <3>1, Zenon DEF Issue, Next_
  <2>3. CASE /\ inflight = None /\ "ERR" \notin intr /\ phase' = "wait" /\ intr' = {} /\ reply' = "" /\ todo' = todo
             /\ faults' = faults /\ inflight' = <<Op[2], IF Op[3] = TheRca THEN rca ELSE Op[3]>>
             /\ err' = IF Op[4] THEN err ELSE SD_OK
    <3>1. Sends(Op[2], IF Op[3] = TheRca THEN rca ELSE Op[3])
      BY <1>1, <2>1, <2>3 DEF Ready, Sends
    <3>2. (IF Op[3] = TheRca THEN rca ELSE Op[3]) \in Int
      BY <1>1, <1>2 DEF Typical
    <3>3. LawfulChip
      <4>1. inflight' \in {None, inflight} \/ \E c \in Codes, a \in Int : Sends(c, a)
        BY <1>2, <3>1, <3>2
      <4> QED BY <1>1, <2>1, <2>3, <4>1 DEF LawfulChip, Typical
    <3>4. LawfulDriver
      <4>1. err' \in {err, SD_OK}
        BY <2>3
      <4> QED BY <1>1, <2>1, <2>3, <4>1, DriverSame DEF Typical
    <3> QED BY <1>1, <3>3, <3>4, Lawfuls
  <2>4. CASE /\ faults' = faults \/ Fault
             /\ err' = SD_TIMEOUT /\ reply' = "" /\ inflight' = inflight /\ intr' = intr /\ phase' = phase
    <3>1. LawfulChip
      BY <2>1, <2>4, ChipSame
    <3>2. LawfulDriver
      BY <1>1, <2>1, <2>4, DriverSame DEF Typical
    <3> QED BY <1>1, <3>1, <3>2, Lawfuls
  <2> QED BY <2>2, <2>3, <2>4
<1>4. CASE Answer
  <2>1. /\ UNCHANGED <<kind, disk, card, busy, inflight, dat, blk, more, fifo, hostWide, dead, rca, scr,
                       started, call, out, ret, calls, asked>>
        /\ phase' = "issue"
    BY <1>4, Zenon DEF Answer
  <2>2. \/ intr' = {} /\ err' \in {SD_TIMEOUT, SD_ERROR} /\ reply' = "" /\ faults' = faults
        \/ intr' = intr \ {"CMD"} /\ UNCHANGED <<err, reply, faults>>
        \/ (faults' = faults \/ Fault) /\ intr' = {} /\ err' = SD_TIMEOUT /\ reply' = ""
    BY <1>4, GivesUpFacts, Zenon DEF Answer
  <2>3. LawfulChip
    <3>1. intr' \subseteq intr /\ ("ERR" \in intr => "ERR" \in intr' \/ intr' = {})
      BY <2>2
    <3>2. reply' \in {"", reply} /\ (faults' = faults \/ Fault)
      BY <2>2
    <3> QED BY <1>1, <2>1, <3>1, <3>2 DEF LawfulChip, Typical
  <2>4. err' \in {SD_OK, SD_TIMEOUT, SD_ERROR}
    BY <1>1, <2>2 DEF Typical
  <2>5. LawfulDriver
    BY <1>1, <2>1, <2>4, DriverSame DEF Typical
  <2> QED BY <1>1, <2>3, <2>5, Lawfuls
<1> QED BY <1>3, <1>4

\* The steps that leave the controller alone.
LEMMA ChecksLaw ==
  ASSUME Base, Ready, AppCheck \/ Check \/ Status \/ Clock \/ Try \/ TakeRca \/ Width
  PROVE  Base'
<1>1. ~Ended /\ ~Is("cmd") /\ Typical
  <2>1. PICK w \in {"appck", "check", "status", "clk", "try", "rca", "width"} : Is(w)
    BY Zenon DEF AppCheck, Check, Status, Clock, Try, TakeRca, Width
  <2> QED BY <2>1, Typicals DEF Is, Ended
<1>2. /\ UNCHANGED <<kind, disk, card, busy, inflight, intr, dat, blk, more, fifo, dead, call, calls, asked, scr, started, out>>
      /\ faults' = faults \/ Fault
      /\ reply' \in {"", reply} /\ rca' \in {rca, 0, 1} /\ hostWide' \in {hostWide, TRUE}
      /\ err' \in {err, SD_TIMEOUT, SD_ERROR} /\ phase' \in {phase, "issue"}
  <2>1. CASE AppCheck
    <3>1. /\ UNCHANGED <<kind, disk, controller, hostWide, phase, rca, scr, started, call, out, ret,
                         calls, faults, asked>>
          /\ reply' \in {"", reply} /\ err' \in {SD_ERROR, err}
      BY <2>1 DEF AppCheck
    <3> QED BY <3>1 DEF controller
  <2>2. CASE Check
    BY <2>2 DEF Check, chip, Return
  <2>3. CASE Status
    <3>1. /\ UNCHANGED <<kind, disk, chip, rca, scr, started, call, out, calls, asked>>
          /\ (faults' = faults \/ Fault) /\ err' \in {err, SD_TIMEOUT} /\ phase' \in {phase, "issue"}
      BY <2>3, GivesUpFacts DEF Status, Return
    <3> QED BY <3>1 DEF chip
  <2>4. CASE Clock
    <3>1. /\ UNCHANGED <<kind, disk, chip, err, rca, scr, started, call, out, calls, asked>>
          /\ (faults' = faults \/ Fault) /\ phase' \in {phase, "issue"}
      BY <2>4, GivesUpFacts DEF Clock, Return
    <3> QED BY <3>1 DEF chip
  <2>5. CASE Try
    <3>1. /\ UNCHANGED <<kind, disk, chip, err, rca, scr, started, call, out, calls, asked, faults>>
          /\ phase' \in {phase, "issue"}
      BY <2>5 DEF Try, Return
    <3> QED BY <3>1 DEF chip
  <2>6. CASE TakeRca
    <3>1. /\ UNCHANGED <<kind, disk, chip, err, phase, scr, started, call, out, calls, asked, faults>>
          /\ rca' \in {0, 1}
      BY <2>6 DEF TakeRca
    <3> QED BY <3>1 DEF chip
  <2>7. CASE Width
    BY <2>7 DEF Width, controller
  <2> QED BY <2>1, <2>2, <2>3, <2>4, <2>5, <2>6, <2>7
<1>3. LawfulChip
  BY <1>2, ChipSame
<1>4. LawfulDriver
  <2>1. phase' = "issue"
    BY <1>1, <1>2 DEF Typical
  <2>2. rca' \in {0, 1} /\ err' \in {SD_OK, SD_TIMEOUT, SD_ERROR}
    BY <1>1, <1>2 DEF Typical
  <2>3. hostWide' \in BOOLEAN
    BY <1>1, <1>2, Zenon DEF Typical
  <2> QED BY <1>1, <1>2, <2>1, <2>2, <2>3, DriverSame
<1> QED BY <1>1, <1>3, <1>4, Lawfuls

LEMMA MovesLaw ==
  ASSUME Base, Ready, Move
  PROVE  Base'
<1>1. ~Ended /\ ~Is("cmd") /\ Typical
  <2>1. PICK w \in {"get", "put", "scr", "done"} : Is(w)
    BY Zenon DEF Move
  <2> QED BY <2>1, Typicals DEF Is, Ended
<1>2. UNCHANGED <<kind, disk, card, busy, inflight, reply, dat, blk, more, hostWide, dead, rca, scr,
                  started, call, calls, asked>>
  BY Zenon DEF Move
<1>3. phase = "issue"
  BY <1>1 DEF Typical
<1>4. ASSUME out' \in Seq(Values), Len(out') <= AtLeastOne(call.num), err' \in {err, SD_TIMEOUT, SD_ERROR},
             phase' = "issue"
      PROVE  LawfulDriver
  <2>1. err' \in {SD_OK, SD_TIMEOUT, SD_ERROR}
    BY <1>1, <1>4 DEF Typical
  <2> QED BY <1>1, <1>2, <1>4, <2>1 DEF Typical, LawfulDriver
<1>5. ASSUME intr' \subseteq intr, "ERR" \in intr => "ERR" \in intr' \/ intr' = {}, faults' = faults \/ Fault,
             fifo' = fifo \/ (fifo' = None /\ "READ" \notin intr') \/ Fills
      PROVE  LawfulChip
  BY <1>1, <1>2, <1>5 DEF Typical, LawfulChip
<1>6. CASE /\ intr' = {} /\ err' \in {SD_TIMEOUT, SD_ERROR} /\ phase' = "issue" /\ UNCHANGED <<fifo, out>>
           /\ (faults' = faults \/ Fault)
  BY <1>1, <1>4, <1>5, <1>6, Lawfuls DEF Typical
<1>7. CASE \E flag \in {"READ", "WRITE", "DONE"} :
             /\ "ERR" \notin intr /\ flag \in intr /\ intr' = intr \ {flag} /\ UNCHANGED <<phase, err, faults>>
             /\ \/ UNCHANGED <<fifo, out>>
                \/ flag = "READ" /\ Is("get") /\ out' = Append(out, fifo) /\ fifo' = None
                \/ flag = "WRITE" /\ Is("put") /\ fifo' = <<calls, Op[2]>> /\ out' = out
  <2>1. PICK flag \in {"READ", "WRITE", "DONE"} :
             /\ "ERR" \notin intr /\ flag \in intr /\ intr' = intr \ {flag} /\ UNCHANGED <<phase, err, faults>>
             /\ \/ UNCHANGED <<fifo, out>>
                \/ flag = "READ" /\ Is("get") /\ out' = Append(out, fifo) /\ fifo' = None
                \/ flag = "WRITE" /\ Is("put") /\ fifo' = <<calls, Op[2]>> /\ out' = out
    BY <1>7
  <2>2. CASE UNCHANGED <<fifo, out>>
    BY <1>1, <1>3, <1>4, <1>5, <2>1, <2>2, Lawfuls DEF Typical
  <2>3. CASE flag = "READ" /\ Is("get") /\ out' = Append(out, fifo) /\ fifo' = None
    <3>1. fifo \in Values /\ Len(out) < Count
      BY <2>1, <2>3 DEF Ready
    <3>2. out' \in Seq(Values) /\ Len(out') = Len(out) + 1
      BY <1>1, <2>3, <3>1 DEF Typical
    <3>3. Len(out') <= AtLeastOne(call.num)
      <4>1. Len(out) \in Nat /\ Count \in Nat
        <5>1. call.num \in Nat
          BY DEF Base, TypeInv, DriverTypes
        <5> QED BY <1>1, <5>1 DEF Typical, Count, AtLeastOne
      <4> QED BY <3>1, <3>2, <4>1 DEF Count
    <3>4. LawfulDriver
      BY <1>3, <1>4, <2>1, <3>2, <3>3
    <3>5. LawfulChip
      BY <1>5, <2>1, <2>3
    <3> QED BY <1>1, <3>4, <3>5, Lawfuls
  <2>4. CASE flag = "WRITE" /\ Is("put") /\ fifo' = <<calls, Op[2]>> /\ out' = out
    <3>1. Fills
      <4>1. <<card.pos, fifo'>> \in asked
        BY <2>1, <2>4 DEF Ready
      <4>2. "READ" \notin intr
        BY <2>1, <2>4 DEF Base, FifoInv
      <4> QED BY <2>1, <2>4, <4>1, <4>2 DEF Fills
    <3>2. LawfulChip
      BY <1>5, <2>1, <3>1
    <3>3. LawfulDriver
      BY <1>1, <1>3, <1>4, <2>1, <2>4 DEF Typical
    <3> QED BY <1>1, <3>2, <3>3, Lawfuls
  <2> QED BY <2>1, <2>2, <2>3, <2>4
<1>8. CASE Is("get") /\ Await("READ", out' = Append(out, fifo) /\ fifo' = None)
  <2>1. \/ /\ "ERR" \notin intr /\ "READ" \in intr /\ intr' = intr \ {"READ"}
           /\ out' = Append(out, fifo) /\ fifo' = None /\ UNCHANGED <<phase, err, faults>>
        \/ /\ intr' = {} /\ err' \in {SD_TIMEOUT, SD_ERROR} /\ phase' = "issue" /\ UNCHANGED <<fifo, out>>
           /\ (faults' = faults \/ Fault)
    BY <1>8, GivesUpFacts, Zenon DEF Await, Return
  <2> QED BY <1>6, <1>7, <1>8, <2>1
<1>9. CASE Is("put") /\ Await("WRITE", fifo' = <<calls, Op[2]>> /\ out' = out)
  <2>1. \/ /\ "ERR" \notin intr /\ "WRITE" \in intr /\ intr' = intr \ {"WRITE"}
           /\ fifo' = <<calls, Op[2]>> /\ out' = out /\ UNCHANGED <<phase, err, faults>>
        \/ /\ intr' = {} /\ err' \in {SD_TIMEOUT, SD_ERROR} /\ phase' = "issue" /\ UNCHANGED <<fifo, out>>
           /\ (faults' = faults \/ Fault)
    BY <1>9, GivesUpFacts, Zenon DEF Await, Return
  <2> QED BY <1>6, <1>7, <1>9, <2>1
<1>10. CASE Await("READ", UNCHANGED <<fifo, out>>) \/ Await("DONE", UNCHANGED <<fifo, out>>)
  <2>1. \/ \E flag \in {"READ", "DONE"} :
           /\ "ERR" \notin intr /\ flag \in intr /\ intr' = intr \ {flag}
           /\ UNCHANGED <<fifo, out>> /\ UNCHANGED <<phase, err, faults>>
        \/ /\ intr' = {} /\ err' \in {SD_TIMEOUT, SD_ERROR} /\ phase' = "issue" /\ UNCHANGED <<fifo, out>>
           /\ (faults' = faults \/ Fault)
    BY <1>10, GivesUpFacts, Zenon DEF Await, Return
  <2> QED BY <1>6, <1>7, <2>1
<1> QED BY <1>8, <1>9, <1>10, Zenon DEF Move

LEMMA SizesLaw ==
  ASSUME Base, Ready, BlkSize \/ Reset
  PROVE  Base'
<1>1. ~Ended /\ ~Is("cmd") /\ Typical
  <2>1. PICK w \in {"blksize", "reset"} : Is(w)
    BY Zenon DEF BlkSize, Reset
  <2> QED BY <2>1, Typicals DEF Is, Ended
<1>2. phase = "issue"
  BY <1>1 DEF Typical
<1>3. CASE BlkSize
  <2>1. Op[2] \in Nat /\ Op[2] > 0
    <3>1. todo \in Seq(Steps) /\ todo # <<>>
      BY <1>1 DEF Ready, Lists, Ended
    <3>2. Op \in Steps
      BY <3>1 DEF Op
    <3>3. Op[1] = "blksize"
      BY <1>3, Zenon DEF BlkSize, Is
    <3> QED BY <3>2, <3>3, StepKinds
  <2>2. /\ blk' = Op[2]
        /\ UNCHANGED <<kind, disk, card, busy, inflight, reply, intr, dat, more, fifo, hostWide, dead,
                       phase, err, rca, scr, started, call, out, ret, calls, faults, asked>>
    BY <1>3, Zenon DEF BlkSize
  <2>3. LawfulChip
    BY <2>1, <2>2 DEF LawfulChip
  <2>4. LawfulDriver
    BY <1>1, <1>2, <2>2, DriverSame DEF Typical
  <2> QED BY <1>1, <2>3, <2>4, Lawfuls
<1>4. CASE Reset
  <2>1. /\ UNCHANGED <<kind, disk, card, busy, dead, err, rca, scr, started, call, out, calls, asked>>
        /\ hostWide' = FALSE /\ reply' = "" /\ (faults' = faults \/ Fault) /\ phase' \in {phase, "issue"}
        /\ \/ UNCHANGED <<inflight, intr, dat, blk, more, fifo>>
           \/ inflight' = None /\ intr' = {} /\ dat' = FALSE /\ blk' = 0 /\ more' = 0 /\ fifo' = None
    BY <1>4, Zenon DEF Reset, Return
  <2>2. LawfulChip
    <3>1. CASE UNCHANGED <<inflight, intr, dat, blk, more, fifo>>
      BY <2>1, <3>1, ChipSame
    <3>2. CASE inflight' = None /\ intr' = {} /\ dat' = FALSE /\ blk' = 0 /\ more' = 0 /\ fifo' = None
      BY <2>1, <3>2 DEF LawfulChip, Cleared
    <3> QED BY <2>1, <3>1, <3>2
  <2>3. LawfulDriver
    BY <1>1, <1>2, <2>1, DriverSame DEF Typical
  <2> QED BY <1>1, <2>2, <2>3, Lawfuls
<1> QED BY <1>3, <1>4

LEMMA ScrLaw ==
  ASSUME Base, Ready, Tried \/ Words \/ End
  PROVE  Base'
<1>1. ~Ended /\ ~Is("cmd") /\ Typical
  <2>1. PICK w \in {"tried", "words", "end"} : Is(w)
    BY Zenon DEF Tried, Words, End
  <2> QED BY <2>1, Typicals DEF Is, Ended
<1>2. phase = "issue"
  BY <1>1 DEF Typical
<1>3. CASE Tried
  <2>1. /\ UNCHANGED <<kind, disk, chip, err, rca, started, call, out, calls, faults, asked>>
        /\ phase' \in {phase, "issue"} /\ (scr' = scr \/ scr' = [scr EXCEPT !.ccs = (reply = "complete ccs")])
    <3>1. UNCHANGED <<kind, disk, chip, err, rca, started, call, out, calls, faults, asked>>
      BY <1>3, Zenon DEF Tried
    <3>2. CASE err = SD_ERROR
      BY <1>3, <3>1, <3>2 DEF Tried, Return
    <3>3. CASE err # SD_ERROR /\ ~Complete
      BY <1>3, <3>1, <3>3 DEF Tried
    <3>4. CASE err # SD_ERROR /\ Complete /\ Op[2] = 0
      BY <1>3, <3>1, <3>4 DEF Tried, Return
    <3>5. CASE err # SD_ERROR /\ Complete /\ Op[2] # 0
      BY <1>3, <3>1, <3>5 DEF Tried
    <3> QED BY <3>2, <3>3, <3>4, <3>5
  <2>2. scr' \in Kinds
    <3>1. (reply = "complete ccs") \in BOOLEAN
      OBVIOUS
    <3> QED BY <1>1, <2>1, <3>1 DEF Typical, Kinds
  <2>3. ~started
    <3>1. Is("tried")
      BY <1>3, Zenon DEF Tried
    <3> QED BY <1>1, <3>1 DEF Ready, Typical
  <2>4. LawfulChip
    BY <2>1, ChipSame DEF chip
  <2>5. LawfulDriver
    BY <1>1, <1>2, <2>1, <2>2, <2>3 DEF LawfulDriver, Typical, chip
  <2> QED BY <1>1, <2>4, <2>5, Lawfuls
<1>4. CASE Words
  <2>1. /\ UNCHANGED <<kind, disk, card, busy, inflight, reply, intr, dat, blk, more, hostWide, dead, phase,
                       err, rca, started, call, out, ret, calls, faults, asked>>
        /\ scr' = [kind EXCEPT !.ccs = scr.ccs] /\ fifo' = None /\ Is("words")
    BY <1>4, Zenon DEF Words
  <2>2. scr' \in Kinds /\ scr'.ccs = scr.ccs
    <3>1. scr.ccs \in BOOLEAN
      BY <1>1 DEF Typical, Kinds
    <3> QED BY <1>1, <2>1, <3>1 DEF Typical, Kinds
  <2>3. "READ" \notin intr
    BY <2>1 DEF Ready
  <2>4. LawfulChip
    BY <1>1, <2>1, <2>3 DEF LawfulChip, Typical
  <2>5. LawfulDriver
    BY <1>1, <1>2, <2>1, <2>2 DEF LawfulDriver, Typical
  <2> QED BY <1>1, <2>4, <2>5, Lawfuls
<1>5. CASE End
  <2>1. /\ UNCHANGED <<kind, disk, chip, err, rca, scr, call, out, calls, faults, asked>>
        /\ started' = (started \/ call.op = "init") /\ Is("end") /\ todo' = <<>> /\ phase' = "issue"
    BY <1>5, Zenon DEF End, Return
  <2>2. started' \in BOOLEAN /\ (started => started') /\ (started' => started \/ call.op = "init")
    <3>1. (started \/ call.op = "init") \in BOOLEAN
      OBVIOUS
    <3> QED BY <2>1, <3>1, Zenon
  <2>3. started' => scr.ccs = kind.ccs
    BY <1>1, <2>1, <2>2 DEF Ready, Typical
  <2>4. LawfulChip
    BY <2>1, ChipSame DEF chip
  <2>5. LawfulDriver
    BY <1>1, <2>1, <2>2, <2>3 DEF LawfulDriver, Typical, chip, Ended
  <2> QED BY <1>1, <2>4, <2>5, Lawfuls
<1> QED BY <1>3, <1>4, <1>5

LEMMA ReadyDriver ==
  ASSUME Base, Ready, Driver
  PROVE  Base'
BY CommandsLaw, ChecksLaw, MovesLaw, SizesLaw, ScrLaw, Zenon DEF Driver

\* A list whose first step rests on nothing.
Plain(o) ==
  /\ o[1] \notin {"words", "get", "put", "end", "tried"}
  /\ o[1] = "cmd" => o[2] \notin Multis \cup {"WIDTH"}
PlainList(x) == \E o \in Steps, r \in Lists : x = Then(o, r) /\ Plain(o)

LEMMA PlainReady ==
  ASSUME PlainList(todo)
  PROVE  Ready
<1>1. PICK o \in Steps, r \in Lists : todo = Then(o, r) /\ Plain(o)
  BY DEF PlainList
<1>2. Op = o /\ \A w : Is(w) <=> o[1] = w
  BY <1>1, AtFront
<1>3. todo \in Lists
  BY <1>1, ThenFacts
<1> QED BY <1>1, <1>2, <1>3 DEF Ready, Plain

LEMMA PlainLists ==
  /\ \A r \in Lists : /\ PlainList(Checks(r)) /\ PlainList(Then(<<"status">>, r)) /\ PlainList(Then(<<"done">>, r))
                      /\ PlainList(Then(<<"clk">>, r)) /\ PlainList(Then(<<"reset">>, r))
                      /\ PlainList(Then(<<"rca">>, r)) /\ PlainList(Then(<<"scr">>, r))
  /\ \A r \in Lists, k \in Nat \ {0} : PlainList(Then(<<"blksize", k>>, r))
  /\ \A r \in Lists, k \in Nat : PlainList(Then(<<"try", k>>, r))
  /\ \A c \in Codes \ (Multis \cup {"WIDTH"}), a \in Int, r \in Lists :
       PlainList(Command(c, a, r)) /\ PlainList(AppCmd(c, a, r))
  /\ \A c \in Codes, a \in Int, r \in Lists : PlainList(AppCommand(c, a, r)) /\ PlainList(AppChecks(c, a, r))
<1>1. ASSUME NEW r \in Lists, NEW w \in {"check", "status", "done", "clk", "reset", "rca", "scr", "appck"}
      PROVE  PlainList(Then(<<w>>, r))
  <2>1. PICK o \in Steps : o = <<w>> /\ o[1] = w
    BY StepFacts
  <2> QED BY <2>1 DEF PlainList, Plain
<1>2. ASSUME NEW r \in Lists, NEW k \in Nat \ {0}
      PROVE  PlainList(Then(<<"blksize", k>>, r))
  <2>1. PICK o \in Steps : o = <<"blksize", k>> /\ o[1] = "blksize"
    <3>1. <<"blksize", k>> \in Steps
      BY DEF Steps
    <3> QED BY <3>1
  <2> QED BY <2>1 DEF PlainList, Plain
<1>3. ASSUME NEW r \in Lists, NEW k \in Nat
      PROVE  PlainList(Then(<<"try", k>>, r))
  <2>1. PICK o \in Steps : o = <<"try", k>> /\ o[1] = "try"
    <3>1. <<"try", k>> \in Steps
      BY DEF Steps
    <3> QED BY <3>1
  <2> QED BY <2>1 DEF PlainList, Plain
<1>4. ASSUME NEW c \in Codes, c \notin Multis \cup {"WIDTH"}, NEW a \in Int, NEW r \in Lists, NEW keep \in BOOLEAN
      PROVE  PlainList(Then(<<"cmd", c, a, keep>>, r))
  <2>1. PICK o \in Steps : o = <<"cmd", c, a, keep>> /\ o[1] = "cmd" /\ o[2] = c
    <3>1. <<"cmd", c, a, keep>> \in Steps
      BY DEF Steps
    <3> QED BY <3>1
  <2> QED BY <1>4, <2>1 DEF PlainList, Plain
<1>5. ASSUME NEW c \in Codes, NEW a \in Int, NEW r \in Lists
      PROVE  PlainList(AppCommand(c, a, r)) /\ PlainList(AppChecks(c, a, r))
  <2>1. AppCmd(c, a, r) \in Lists /\ AppChecks(c, a, r) \in Lists
    BY StepThen
  <2>2. "APP" \in Codes /\ TheRca \in Int /\ "APP" \notin Multis \cup {"WIDTH"}
    BY CodeFacts DEF Multis
  <2> QED BY <1>1, <1>4, <2>1, <2>2 DEF AppCommand, AppChecks, Command
<1>6. \A c \in Codes \ (Multis \cup {"WIDTH"}), a \in Int, r \in Lists :
        PlainList(Command(c, a, r)) /\ PlainList(AppCmd(c, a, r))
  BY <1>4 DEF Command, AppCmd
<1> QED BY <1>1, <1>2, <1>3, <1>5, <1>6 DEF Checks

\* sd_init's positions.
LEMMA InitReady ==
  ASSUME Base, call.op = "init", Initialising
  PROVE  Ready
<1> USE CodeFacts, InitLists
<1>1. /\ PlainList(Resets) /\ PlainList(Clock0) /\ PlainList(Clocks) /\ PlainList(Asks) /\ PlainList(Rca)
      /\ PlainList(Scr)
  <2>1. Checks(Clocks) \in Lists
    BY StepThen
  <2> QED BY <2>1, PlainLists DEF Resets, Clock0, Clocks, Asks, Rca, Scr
<1>2. PlainList(Checks(Scr)) /\ PlainList(Checks(Asks)) /\ PlainList(Checks(Clocks)) /\ PlainList(Checks(IfCond))
      /\ PlainList(Checks(Widens)) /\ PlainList(Checks(TryFrom(Tries)))
  BY PlainLists, SdAssumption
<1>3. Checks(Scr) \in Lists /\ Checks(Asks) \in Lists /\ Checks(IfCond) \in Lists /\ Checks(Widens) \in Lists
      /\ Checks(TryFrom(Tries)) \in Lists
  BY StepThen, SdAssumption
<1>4. {"GO_IDLE", "IF_COND", "ALL_SEND_CID", "SEND_REL_ADDR", "CARD_SELECT", "SCR", "OP_COND"}
        \subseteq Codes \ (Multis \cup {"WIDTH"})
  BY DEF Multis, Codes
<1>5. PlainList(Idle) /\ PlainList(IfCond) /\ PlainList(Cid) /\ PlainList(RelAddr) /\ PlainList(Select)
  BY <1>3, <1>4, PlainLists DEF Idle, IfCond, Cid, RelAddr, Select
<1>6. PlainList(Sizes)
  <2>1. AppCommand("SCR", 0, Checks(Scr)) \in Lists
    BY <1>3, StepThen
  <2> QED BY <2>1, PlainLists DEF Sizes
<1>7. \A c \in {"SCR", "WIDTH"}, a \in {0, 4} : \A r \in {Checks(Scr), Checks(Widens)} :
        PlainList(AppCommand(c, a, r)) /\ PlainList(AppChecks(c, a, r))
  BY <1>3, PlainLists
<1>8. PlainList(AppCmd("SCR", 0, Checks(Scr)))
  BY <1>3, <1>4, PlainLists
<1>9. \A k \in Nat : OpConds(k) => PlainList(todo) \/ todo = TriedFrom(k)
  BY <1>4, PlainLists DEF OpConds, TryFrom
<1>10. ASSUME NEW o \in Steps, NEW r \in Lists, todo = Then(o, r), o[1] \notin {"get", "put"},
              o[1] = "cmd" => o[2] \notin Multis /\ kind.wide,
              o[1] = "words" => "READ" \notin intr,
              o[1] = "end" => scr.ccs = kind.ccs
       PROVE  Ready
  <2>1. Op = o /\ \A w : Is(w) <=> o[1] = w
    BY <1>10, AtFront
  <2>2. todo \in Lists
    BY <1>10, ThenFacts
  <2> QED BY <1>10, <2>1, <2>2 DEF Ready
<1>11. CASE Waking
  <2>1. PlainList(todo) \/ \E k \in Nat : todo = TriedFrom(k)
    BY <1>1, <1>2, <1>5, <1>9, <1>11 DEF Waking
  <2>2. ASSUME NEW k \in Nat, todo = TriedFrom(k)
        PROVE  Ready
    <3>1. PICK o \in Steps : o = <<"tried", k>> /\ o[1] = "tried"
      <4>1. <<"tried", k>> \in Steps
        BY DEF Steps
      <4> QED BY <4>1
    <3> QED BY <1>10, <2>2, <3>1 DEF TriedFrom
  <2> QED BY <2>1, <2>2, PlainReady
<1>12. CASE Naming
  <2>1. PlainList(todo)
    BY <1>1, <1>2, <1>5, <1>6, <1>7, <1>8, <1>12 DEF Naming
  <2> QED BY <2>1, PlainReady
<1>13. CASE Reading
  <2>1. PlainList(todo) \/ (todo = WordsEnd /\ "READ" \notin intr)
    BY <1>1, <1>2, <1>8, <1>13 DEF Reading
  <2>2. CASE todo = WordsEnd /\ "READ" \notin intr
    <3>1. PICK o \in Steps : o = <<"words">> /\ o[1] = "words"
      BY StepFacts
    <3> QED BY <1>10, <2>2, <3>1 DEF WordsEnd
  <2> QED BY <2>1, <2>2, PlainReady
<1>14. CASE Widening
  <2>1. \/ PlainList(todo)
        \/ todo = AppCmd("WIDTH", 4, Checks(Widens)) /\ kind.wide
        \/ todo = Widens
    BY <1>2, <1>7, <1>14 DEF Widening, Wider
  <2>2. CASE todo = AppCmd("WIDTH", 4, Checks(Widens)) /\ kind.wide
    <3>1. PICK o \in Steps : o = <<"cmd", "WIDTH", 4, TRUE>> /\ o[1] = "cmd" /\ o[2] = "WIDTH"
      <4>1. \A keep \in BOOLEAN : <<"cmd", "WIDTH", 4, keep>> \in Steps
        BY DEF Steps
      <4>2. PICK keep \in BOOLEAN : keep = TRUE
        OBVIOUS
      <4>3. PICK o \in Steps : o = <<"cmd", "WIDTH", 4, keep>> /\ o[1] = "cmd" /\ o[2] = "WIDTH"
        BY <4>1
      <4> QED BY <4>2, <4>3, Zenon
    <3>2. "WIDTH" \notin Multis
      BY DEF Multis
    <3> QED BY <1>3, <1>10, <2>2, <3>1, <3>2 DEF AppCmd
  <2>3. CASE todo = Widens
    <3>1. PICK o \in Steps : o = <<"width">> /\ o[1] = "width"
      BY StepFacts
    <3> QED BY <1>10, <2>3, <3>1 DEF Widens
  <2> QED BY <2>1, <2>2, <2>3, PlainReady
<1>15. CASE todo = Ends /\ Agreed
  <2>1. PICK o \in Steps : o = <<"end">> /\ o[1] = "end"
    BY StepFacts
  <2>2. scr.ccs = kind.ccs
    BY <1>15 DEF Agreed
  <2>3. <<>> \in Lists
    BY ThenFacts
  <2> QED BY <1>10, <1>15, <2>1, <2>2, <2>3 DEF Ends
<1> QED BY <1>11, <1>12, <1>13, <1>14, <1>15 DEF Initialising

\* The positions of a transfer.
LEMMA TransferReady ==
  ASSUME Base, call.op \in {"read", "write"}, NEW L, Layout(L), Transferring(L)
  PROVE  Ready
<1> USE CodeFacts, InitLists
<1>1. IsTransfer /\ InTransfer /\ call.op # "init" /\ Count \in Nat \ {0} /\ Count \in Int /\ Stops \in Lists
  BY AllTransfers, CountFacts, BehindFacts
<1>2. "STOP" \in Codes \ (Multis \cup {"WIDTH"}) /\ "BLOCKCNT" \in Codes \ (Multis \cup {"WIDTH"})
  BY DEF Multis, Codes
<1>3. SizeFrom(L) \in Lists /\ Checks(SizeFrom(L)) \in Lists
      /\ \A c \in 1 .. Count : L[c] \in Lists /\ MovesFrom(L, c) \in Lists /\ Checks(MovesFrom(L, c)) \in Lists
  BY <1>1, LayoutLists
<1>4. PlainList(Command("BLOCKCNT", Count, Checks(SizeFrom(L)))) /\ PlainList(Checks(SizeFrom(L)))
      /\ PlainList(Command("STOP", 0, Ends)) /\ PlainList(Then(<<"done">>, Stops))
      /\ \A c \in 1 .. Count : PlainList(Checks(MovesFrom(L, c)))
  BY <1>1, <1>2, <1>3, PlainLists
<1>5. PlainList(SizeFrom(L))
  <2>1. CmdFrom(L, 1) \in Lists
    <3>1. 1 \in 1 .. Count
      BY <1>1
    <3> QED BY <1>1, <3>1, LayoutLists
  <2>2. PICK k \in Nat \ {0} : k = IF scr.ccs THEN Count ELSE 1
    BY <1>1
  <2>3. PlainList(Then(<<"blksize", k>>, CmdFrom(L, 1)))
    BY <2>1, PlainLists
  <2> QED BY <2>2, <2>3, Zenon DEF SizeFrom
<1>6. PlainList(StatusFrom(L))
  <2>1. Command("BLOCKCNT", Count, Checks(SizeFrom(L))) \in Lists
    BY <1>1, <1>3, StepThen
  <2>2. PICK r \in Lists : StatusFrom(L) = Then(<<"status">>, r)
    BY <1>3, <2>1, Zenon DEF StatusFrom
  <2> QED BY <2>2, PlainLists
<1>7. ASSUME NEW o \in Steps, NEW r \in Lists, todo = Then(o, r), o[1] \notin {"words", "tried"},
             o[1] = "cmd" /\ phase = "issue" => o[2] # "WIDTH" /\ (o[2] \in Multis => blk > 0),
             o[1] = "get" /\ "READ" \in intr /\ "ERR" \notin intr => fifo \in Values /\ Len(out) < Count,
             o[1] = "put" /\ "WRITE" \in intr /\ "ERR" \notin intr => <<card.pos, <<calls, o[2]>>>> \in asked
      PROVE  Ready
  <2>1. Op = o /\ \A w : Is(w) <=> o[1] = w
    BY <1>7, AtFront
  <2>2. todo \in Lists
    BY <1>7, ThenFacts
  <2> QED BY <1>1, <1>7, <2>1, <2>2 DEF Ready
<1>8. ASSUME NEW c \in 1 .. Count, scr.ccs => c = 1, Commands(L, c)
      PROVE  Ready
  <2>1. PICK o \in Steps : o = DataCommand(c)
    BY <1>1, CountFacts
  <2>2. o[1] = "cmd" /\ o[2] # "WIDTH" /\ (o[2] \in Multis => scr.ccs)
    <3>1. o[1] = "cmd" /\ o[2] = IF scr.ccs /\ Count > 1 THEN (IF call.op = "read" THEN "READ_MULTI" ELSE "WRITE_MULTI")
                                   ELSE (IF call.op = "read" THEN "READ_SINGLE" ELSE "WRITE_SINGLE")
      BY <2>1 DEF DataCommand
    <3> QED BY <3>1 DEF Multis
  <2>3. phase = "issue" /\ o[2] \in Multis => blk > 0
    <3>1. SUFFICES ASSUME phase = "issue", scr.ccs PROVE blk > 0
      BY <2>2
    <3>2. Begins(1) /\ c = 1
      BY <1>8, <3>1 DEF Commands
    <3>3. blk = Count
      BY <3>1, <3>2 DEF Begins
    <3> QED BY <1>1, <3>3
  <2> QED BY <1>3, <1>7, <1>8, <2>1, <2>2, <2>3 DEF Commands, CmdFrom
<1>9. ASSUME NEW c \in 1 .. Count, todo = MovesFrom(L, c), Moving(c)
      PROVE  Ready
  <2>1. PICK o \in Steps : o = MoveOf(c)
    BY <1>1, CountFacts
  <2>2. o[1] = (IF call.op = "read" THEN "get" ELSE "put") /\ o[2] = c
    BY <2>1 DEF MoveOf
  <2>3. PICK k \in Nat : k = c - 1 /\ k < Count
    BY <1>1
  <2>4. "ERR" \notin intr => Moved(k, Until(c))
    BY <1>9, <2>3 DEF Moving
  <2>5. o[1] = "get" /\ "READ" \in intr /\ "ERR" \notin intr => fifo \in Values /\ Len(out) < Count
    <3>1. SUFFICES ASSUME call.op = "read", "READ" \in intr, Got(k, Until(c)) PROVE fifo \in Values /\ Len(out) < Count
      BY <2>2, <2>4 DEF Moved
    <3>2. fifo = disk[call.lba + k] /\ out = [b \in 1 .. k |-> disk[call.lba + b - 1]]
      BY <3>1, Zenon DEF Got
    <3>3. call.lba + k \in Lbas
      BY <1>1, <2>3, SdAssumption DEF InTransfer, Lbas
    <3>4. disk \in [Lbas -> Values]
      BY DEF Base, TypeInv, ChipTypes
    <3>5. Len(out) = k
      <4>1. DOMAIN out = 1 .. k
        BY <3>2
      <4>2. out \in Seq(Values)
        BY DEF Base, TypeInv, DriverTypes
      <4>3. DOMAIN out = 1 .. Len(out) /\ Len(out) \in Nat
        BY <4>2
      <4> QED BY <4>1, <4>3
    <3> QED BY <2>3, <3>2, <3>3, <3>4, <3>5
  <2>6. o[1] = "put" /\ "WRITE" \in intr /\ "ERR" \notin intr => <<card.pos, <<calls, o[2]>>>> \in asked
    <3>1. SUFFICES ASSUME call.op # "read", "WRITE" \in intr, "ERR" \notin intr, Put(k, Until(c))
                   PROVE  <<card.pos, <<calls, c>>>> \in asked
      BY <2>2, <2>4 DEF Moved
    <3>2. fifo = None /\ fifo # <<calls, k>>
      BY <3>1 DEF Base, FifoInv, None
    <3>3. card.pos = call.lba + k
      BY <3>1, <3>2 DEF Put
    <3>4. <<call.lba + c - 1, <<calls, c>>>> \in asked
      BY <3>1 DEF Base, KnownInv
    <3>5. card.pos = call.lba + c - 1
      BY <1>1, <2>3, <3>3 DEF InTransfer
    <3> QED BY <3>4, <3>5
  <2>7. todo = Then(o, L[c]) /\ L[c] \in Lists
    BY <1>3, <1>9, <2>1 DEF MovesFrom
  <2>8. o[1] \notin {"words", "tried", "cmd"}
    BY <2>2
  <2> QED BY <1>7, <2>5, <2>6, <2>7, <2>8
<1>10. CASE todo = Ends
  <2>1. PICK o \in Steps : o = <<"end">> /\ o[1] = "end"
    BY StepFacts
  <2>2. <<>> \in Lists
    BY ThenFacts
  <2> QED BY <1>7, <1>10, <2>1, <2>2 DEF Ends
<1>11. \/ PlainList(todo) \/ todo = Ends
       \/ \E c \in 1 .. Count : (scr.ccs => c = 1) /\ Commands(L, c)
       \/ \E c \in 1 .. Count : todo = MovesFrom(L, c) /\ Moving(c)
  BY <1>4, <1>5, <1>6, Zenon DEF Transferring
<1> QED BY <1>8, <1>9, <1>10, <1>11, PlainReady

LEMMA DriverKeeps ==
  ASSUME SdInv, Driver
  PROVE  SdInv'
<1>1. Base /\ InitInv /\ TransferInv /\ ~Ended
  BY DriverKinds DEF SdInv, Is, Ended
<1>2. call.op \in {"init", "read", "write"}
  <2>1. call.op \in {"none", "init", "read", "write"}
    BY <1>1 DEF Base, TypeInv, DriverTypes
  <2>2. call.op # "none"
    BY <1>1 DEF Base, KnownInv
  <2> QED BY <2>1, <2>2
<1>3. CASE call.op = "init"
  <2>1. InitInv' /\ call'.op = "init"
    BY <1>1, <1>3, DriverInit
  <2>2. Ready
    BY <1>1, <1>3, InitReady DEF InitInv
  <2>3. Base'
    BY <1>1, <2>2, ReadyDriver
  <2>4. TransferInv'
    BY <2>1 DEF TransferInv
  <2> QED BY <2>1, <2>3, <2>4 DEF SdInv
<1>4. CASE call.op \in {"read", "write"}
  <2>1. TransferInv' /\ call' = call
    BY <1>1, <1>4, DriverTransfer
  <2>2. PICK L : Layout(L) /\ Transferring(L)
    BY <1>1, <1>4 DEF TransferInv
  <2>3. Ready
    BY <1>1, <1>4, <2>2, TransferReady
  <2>4. Base'
    BY <1>1, <2>3, ReadyDriver
  <2>5. InitInv'
    BY <1>4, <2>1 DEF InitInv, Returned
  <2> QED BY <2>1, <2>4, <2>5 DEF SdInv
<1> QED BY <1>2, <1>3, <1>4

-----------------------------------------------------------------------------
(* The first state and the calls.                                          *)

LEMMA AtInit == Init => SdInv
<1> SUFFICES ASSUME Init PROVE SdInv
  OBVIOUS
<1>1. card \in CardTypes /\ ~card.wide /\ card.st = "idle"
  <2>1. card = [st |-> "idle", app |-> FALSE, wide |-> FALSE, preset |-> -1, left |-> 0, pos |-> 0]
    BY DEF Init, Card, Open
  <2>2. "idle" \in CardStates
    BY DEF CardStates
  <2> QED BY <2>1, <2>2 DEF CardTypes
<1>2. disk = [l \in Lbas |-> Original(l)]
  BY DEF Init
<1>3. ASSUME NEW l \in Lbas PROVE disk[l] = Original(l) /\ disk[l] \in Values
  <2>1. l \in Nat
    BY SdAssumption DEF Lbas
  <2> QED BY <1>2, <2>1 DEF Original, Values
<1>4. disk \in [Lbas -> Values]
  BY <1>2, <1>3
<1>5. kind \in Kinds /\ scr \in Kinds
  BY DEF Init, Kinds
<1>6. call \in [op : {"none", "init", "read", "write"}, lba : Nat, num : Nat] /\ call.op = "none" /\ call.num = 0
  BY DEF Init
<1>7. out = <<>>
  BY DEF Init
<1>8. <<>> \in Seq(Values)
  OBVIOUS
<1>9. out \in Seq(Values) /\ Len(out) <= AtLeastOne(call.num)
  BY <1>6, <1>7, <1>8 DEF AtLeastOne
<1>10. TypeInv
  <2>1. ChipTypes
    <3>1. inflight = None /\ intr = {} /\ busy = 0 /\ faults = 0 /\ blk = 0 /\ more = 0 /\ dat = FALSE /\ dead = FALSE
      BY DEF Init
    <3>2. 0 <= MaxBusy /\ 0 <= MaxFault
      BY SdAssumption
    <3> QED BY <1>1, <1>4, <1>5, <3>1, <3>2 DEF ChipTypes
  <2>2. DriverTypes
    BY <1>5, <1>6, <1>9 DEF Init, DriverTypes
  <2> QED BY <2>1, <2>2 DEF TypeInv
<1>11. FifoInv
  <2>1. WritesInPlace
    BY <1>3 DEF WritesInPlace
  <2> QED BY <1>1, <2>1 DEF Init, FifoInv
<1>12. KnownInv
  BY <1>1, <1>6 DEF Init, KnownInv, Inflight, Ended
<1> QED BY <1>6, <1>10, <1>11, <1>12 DEF SdInv, Base, InitInv, TransferInv, Returned

LEMMA BeginBase ==
  ASSUME Base, NEW op \in {"init", "read", "write"}, NEW l \in Nat, NEW n \in Nat, NEW ops, Begin(op, l, n, ops),
         asked \subseteq asked', \A w \in asked' : w[2] \in Values,
         IF op = "init" THEN ~started ELSE started /\ l + AtLeastOne(n) <= Sectors,
         op = "write" => \A c \in 1 .. AtLeastOne(n) : <<l + c - 1, <<calls', c>>>> \in asked'
  PROVE  Base' /\ scr' = scr /\ call'.op = op /\ call'.lba = l /\ call'.num = n /\ out' = <<>>
         /\ todo' = Append(ops, <<"end">>)
<1>1. /\ UNCHANGED <<kind, disk, card, busy, inflight, reply, intr, dat, blk, more, fifo, hostWide, dead,
                     err, rca, scr, started, ret, faults>>
      /\ calls' = calls + 1 /\ call' = [op |-> op, lba |-> l, num |-> n] /\ out' = <<>> /\ phase' = "issue"
      /\ todo' = Append(ops, <<"end">>)
  BY DEF Begin, chip
<1>2. call'.op = op /\ call'.lba = l /\ call'.num = n /\ Count' = AtLeastOne(n)
      /\ call' \in [op : {"none", "init", "read", "write"}, lba : Nat, num : Nat]
  BY <1>1 DEF Count
<1>3. ChipTypes'
  BY <1>1 DEF Base, TypeInv, ChipTypes, Kinds, Lbas
<1>4. DriverTypes'
  <2>1. out' \in Seq(Values) /\ Len(out') = 0 /\ 0 <= AtLeastOne(call'.num)
    BY <1>1, <1>2 DEF AtLeastOne
  <2>2. calls' \in Nat
    BY <1>1 DEF Base, TypeInv, DriverTypes
  <2> QED BY <1>1, <1>2, <2>1, <2>2 DEF Base, TypeInv, DriverTypes
<1>5. FifoInv'
  <2>1. FifoInv
    BY DEF Base
  <2>2. WritesInPlace'
    BY <1>1, <2>1 DEF FifoInv, WritesInPlace
  <2> QED BY <1>1, <2>1, <2>2 DEF FifoInv
<1>6. KnownInv'
  <2>1. KnownInv
    BY DEF Base
  <2>2. \A c : Inflight(c)' = Inflight(c)
    BY <1>1 DEF Inflight
  <2> QED BY <1>1, <1>2, <2>1, <2>2 DEF KnownInv
<1> QED BY <1>1, <1>2, <1>3, <1>4, <1>5, <1>6 DEF Base, TypeInv

LEMMA BeginInitKeeps ==
  ASSUME SdInv, BeginInit
  PROVE  SdInv'
<1>1. Begin("init", 0, 0, InitOps) /\ ~started /\ asked' = asked /\ Base
  BY DEF BeginInit, SdInv
<1>2. \A w \in asked' : w[2] \in Values
  BY <1>1 DEF Base, TypeInv, DriverTypes
<1>3. Base' /\ call'.op = "init" /\ todo' = Append(InitOps, <<"end">>)
  <2>1. 0 \in Nat /\ "init" \in {"init", "read", "write"}
    OBVIOUS
  <2> QED BY <1>1, <1>2, <2>1, BeginBase
<1>4. Initialising'
  <2>1. todo' = Resets
    BY <1>3, InitPrograms
  <2> QED BY <2>1 DEF Initialising, Waking
<1>5. ~Ended'
  <2>1. (Initialising => todo \in Lists /\ ~Ended)'
    BY InitPositions, PTL
  <2> QED BY <1>4, <2>1
<1> QED BY <1>3, <1>4, <1>5 DEF SdInv, InitInv, TransferInv, Returned

LEMMA SameOps ==
  ASSUME scr' = scr, NEW l, NEW n
  PROVE  ReadOps(l, n)' = ReadOps(l, n) /\ WriteOps(l, n)' = WriteOps(l, n)
<1>1. ASSUME NEW single, NEW multi, NEW move
      PROVE  Transfer(single, multi, move, l, n)' = Transfer(single, multi, move, l, n)
  <2> DEFINE F(c) == (IF scr.ccs THEN <<>> ELSE Checked(single, Addr(l, c - 1))) \o << <<move, c>> >>
  <2>1. \A c : F(c)' = F(c)
    BY Zenon DEF Addr
  <2>2. [c \in 1 .. n |-> F(c)]' = [c \in 1 .. n |-> F(c)]
    BY <2>1
  <2>3. Addr(l, 0)' = Addr(l, 0)
    BY Zenon DEF Addr
  <2> QED BY <2>2, <2>3, Zenon DEF Transfer
<1>2. StopOps(n)' = StopOps(n)
  BY Zenon DEF StopOps
<1> QED BY <1>1, <1>2, Zenon DEF ReadOps, WriteOps

LEMMA BeginTransferKeeps ==
  ASSUME SdInv, BeginRead \/ BeginWrite
  PROVE  SdInv'
<1>1. PICK op \in {"read", "write"}, l \in Lbas, n \in Nums :
        /\ started /\ l + AtLeastOne(n) <= Sectors
        /\ Begin(op, l, n, IF op = "read" THEN ReadOps(l, AtLeastOne(n)) ELSE WriteOps(l, AtLeastOne(n)))
        /\ IF op = "read" THEN asked' = asked
           ELSE asked' = asked \union {<<l + c - 1, <<calls', c>>>> : c \in 1 .. AtLeastOne(n)}
  <2>1. CASE BeginRead
    <3>1. PICK l \in Lbas, n \in Nums : l + AtLeastOne(n) <= Sectors /\ Begin("read", l, n, ReadOps(l, AtLeastOne(n)))
      BY <2>1 DEF BeginRead
    <3> QED BY <2>1, <3>1 DEF BeginRead
  <2>2. CASE BeginWrite
    <3>1. PICK l \in Lbas, n \in Nums :
            /\ l + AtLeastOne(n) <= Sectors /\ Begin("write", l, n, WriteOps(l, AtLeastOne(n)))
            /\ asked' = asked \union {<<l + c - 1, <<calls', c>>>> : c \in 1 .. AtLeastOne(n)}
      BY <2>2 DEF BeginWrite
    <3> QED BY <2>2, <3>1 DEF BeginWrite
  <2> QED BY <2>1, <2>2
<1> DEFINE ops == IF op = "read" THEN ReadOps(l, AtLeastOne(n)) ELSE WriteOps(l, AtLeastOne(n))
<1>2. l \in Nat /\ n \in Nat /\ Base
  BY SdAssumption DEF Lbas, SdInv
<1>3. asked \subseteq asked' /\ (op = "write" => \A c \in 1 .. AtLeastOne(n) : <<l + c - 1, <<calls', c>>>> \in asked')
  BY <1>1
<1>4. \A w \in asked' : w[2] \in Values
  <2>1. \A w \in asked : w[2] \in Values
    BY <1>2 DEF Base, TypeInv, DriverTypes
  <2>2. calls' \in Nat
    BY <1>1, <1>2 DEF Begin, Base, TypeInv, DriverTypes
  <2>3. ASSUME NEW c \in 1 .. AtLeastOne(n) PROVE <<l + c - 1, <<calls', c>>>>[2] \in Values
    BY <1>2, <2>2 DEF Values, AtLeastOne
  <2> QED BY <1>1, <2>1, <2>3
<1>5. Base' /\ scr' = scr /\ call'.op = op /\ call'.lba = l /\ call'.num = n /\ out' = <<>>
      /\ todo' = Append(ops, <<"end">>)
  <2>1. op \in {"init", "read", "write"} /\ op # "init"
    BY <1>1
  <2>2. Begin(op, l, n, ops)
    BY <1>1
  <2> HIDE DEF ops
  <2> QED BY <1>1, <1>2, <1>3, <1>4, <2>1, <2>2, BeginBase
<1>6. PICK k : k = AtLeastOne(n)
  OBVIOUS
<1>7. Program_' = ops
  <2>1. Count' = k
    BY <1>5, <1>6 DEF Count
  <2>2. Program_' = IF op = "read" THEN ReadOps(l, k)' ELSE WriteOps(l, k)'
    BY <1>5, <2>1, Zenon DEF Program_
  <2> QED BY <1>5, <1>6, <2>2, SameOps, Zenon
<1> HIDE DEF ops
<1>8. PICK L : Layout(L)' /\ todo' = StatusFrom(L)'
  <2>1. (IsTransfer => HasLayout)'
    BY TransferProgram, PTL
  <2>2. IsTransfer'
    <3>1. scr' \in Kinds
      BY <1>5 DEF Base, TypeInv, DriverTypes
    <3> QED BY <1>1, <1>2, <1>5, <3>1 DEF IsTransfer
  <2>3. HasLayout'
    BY <2>1, <2>2
  <2> QED BY <1>5, <1>7, <2>3, Zenon DEF HasLayout
<1>9. Transferring(L)'
  BY <1>5, <1>8 DEF Transferring
<1>10. ~Ended'
  <2>1. TransfersGoOn'
    BY TransferPositions, PTL
  <2>2. IsTransfer'
    <3>1. scr' \in Kinds
      BY <1>5 DEF Base, TypeInv, DriverTypes
    <3> QED BY <1>1, <1>2, <1>5, <3>1 DEF IsTransfer
  <2> QED BY <1>8, <1>9, <2>1, <2>2 DEF TransfersGoOn, TransferAt
<1>11. TransferInv'
  BY <1>8, <1>9, <1>10 DEF TransferInv
<1>12. InitInv'
  <2>1. call'.op # "init"
    BY <1>1, <1>5
  <2> QED BY <2>1 DEF InitInv, Returned
<1> QED BY <1>5, <1>11, <1>12 DEF SdInv

\* Only the card's supply of life and the bound on faults change.
Frozen ==
  /\ UNCHANGED <<kind, disk, card, busy, inflight, reply, intr, dat, blk, more, fifo, software>>
  /\ faults' \in Nat /\ faults' <= MaxFault /\ dead' \in BOOLEAN

LEMMA FrozenFacts ==
  ASSUME Frozen
  PROVE  /\ kind' = kind /\ disk' = disk /\ card' = card /\ busy' = busy /\ inflight' = inflight /\ reply' = reply
         /\ intr' = intr /\ dat' = dat /\ blk' = blk /\ more' = more /\ fifo' = fifo
         /\ todo' = todo /\ phase' = phase /\ err' = err /\ rca' = rca /\ scr' = scr /\ started' = started
         /\ call' = call /\ out' = out /\ ret' = ret /\ calls' = calls /\ asked' = asked /\ hostWide' = hostWide
BY DEF Frozen, software

LEMMA FrozenBase ==
  ASSUME Base, Frozen
  PROVE  Base'
<1>1. ChipTypes'
  BY FrozenFacts DEF Base, TypeInv, ChipTypes, Kinds, Lbas, Frozen
<1>2. DriverTypes' /\ DriverKnows'
  BY DriverStands, KnownParts DEF Frozen, Base, TypeInv
<1>3. FifoInv'
  <2>1. FifoInv
    BY DEF Base
  <2>2. WritesInPlace'
    BY <2>1, FrozenFacts DEF FifoInv, WritesInPlace
  <2> QED BY <2>1, <2>2, FrozenFacts DEF FifoInv
<1>4. ChipKnows'
  BY FrozenFacts, CardStands, KnownParts DEF Base
<1>5. KnownInv'
  <2>1. (KnownInv <=> DriverKnows /\ ChipKnows)'
    BY KnownParts, PTL
  <2> QED BY <1>2, <1>4, <2>1
<1> QED BY <1>1, <1>2, <1>3, <1>5 DEF Base, TypeInv

LEMMA FrozenInit ==
  ASSUME InitInv, Frozen
  PROVE  InitInv'
<1>1. \A c : Inflight(c)' = Inflight(c)
  BY FrozenFacts, Zenon DEF Inflight
<1>2. (Calm' <=> Calm) /\ (Known' <=> Known)
  <2>1. Known' <=> Known
    BY FrozenFacts DEF Known
  <2>2. (\A c \in DataCommands : ~Inflight(c))' <=> \A c \in DataCommands : ~Inflight(c)
    BY <1>1
  <2> QED BY <2>1, <2>2, FrozenFacts DEF Calm
<1>3. \A st : In(st)' = In(st)
  BY FrozenFacts, Zenon DEF In
<1>4. ScrComes' = ScrComes /\ Full' = Full
  BY <1>3, FrozenFacts, Zenon DEF ScrComes, Full
<1>5. Wider' = Wider /\ Agreed' = Agreed
  BY <1>4, FrozenFacts, Zenon DEF Wider, Agreed
<1>6. Waking => Waking'
  <2>1. \A k : OpConds(k)' = OpConds(k)
    BY FrozenFacts, Zenon DEF OpConds
  <2> QED BY <1>2, <2>1, FrozenFacts, Zenon DEF Waking
<1>7. Naming => Naming'
  BY <1>1, <1>2, <1>3, FrozenFacts, Zenon DEF Naming, Awaits, Answered
<1>8. Reading => Reading'
  BY <1>1, <1>2, <1>3, <1>4, FrozenFacts, Zenon DEF Reading, Awaits, Answered
<1>9. Widening => Widening'
  BY <1>1, <1>5, FrozenFacts, Zenon DEF Widening, Awaits, Answered
<1>10. Initialising => Initialising'
  BY <1>5, <1>6, <1>7, <1>8, <1>9, FrozenFacts, Zenon DEF Initialising
<1>11. Ended' = Ended
  BY FrozenFacts, Zenon DEF Ended
<1> QED BY <1>5, <1>10, <1>11, FrozenFacts, Zenon DEF InitInv, Returned

LEMMA FrozenTransferring ==
  ASSUME Base, call.op \in {"read", "write"}, Frozen, NEW L, Transferring(L)
  PROVE  Transferring(L)'
<1>1. /\ Count' = Count /\ Presets' = Presets /\ StatusFrom(L)' = StatusFrom(L) /\ SizeFrom(L)' = SizeFrom(L)
      /\ \A c : /\ CmdFrom(L, c)' = CmdFrom(L, c) /\ MovesFrom(L, c)' = MovesFrom(L, c)
                /\ DataCommand(c)' = DataCommand(c) /\ Until(c)' = Until(c)
      /\ Stops' = Stops /\ Fresh' = Fresh
  BY FrozenFacts, SameTransfer
<1>2. NoneEnds' <=> NoneEnds
  BY FrozenFacts DEF NoneEnds, In
<1>3. \A k, e : Got(k, e)' = Got(k, e)
  BY <1>1, FrozenFacts, ZenonT(60) DEF Got, In
<1>4. \A k, e : Put(k, e)' = Put(k, e)
  <2>1. \A k : Written(k)' = Written(k)
    BY FrozenFacts, Zenon DEF Written
  <2> QED BY <1>1, <2>1, FrozenFacts, ZenonT(60) DEF Put, In
<1>5. \A k, e : Moved(k, e)' = Moved(k, e)
  BY <1>3, <1>4, FrozenFacts, Zenon DEF Moved
<1>6. \A c : Moving(c)' = Moving(c) /\ Begins(c)' = Begins(c)
  BY <1>1, <1>2, <1>5, FrozenFacts, Zenon DEF Moving, Begins
<1>7. \A c : Commands(L, c) => Commands(L, c)'
  BY <1>1, <1>6, FrozenFacts, Zenon DEF Commands, Awaits
<1>8. Over' = Over
  BY <1>1, <1>5, FrozenFacts, Zenon DEF Over
<1>9. Inflight("STOP")' = Inflight("STOP")
  BY FrozenFacts, Zenon DEF Inflight
<1> QED BY <1>1, <1>2, <1>5, <1>6, <1>7, <1>8, <1>9, FrozenFacts, Zenon DEF Transferring, Awaits, Answered

LEMMA FrozenKeeps ==
  ASSUME SdInv, Frozen
  PROVE  SdInv'
<1>1. Base' /\ InitInv'
  BY FrozenBase, FrozenInit DEF SdInv
<1>2. ASSUME call.op \in {"read", "write"}, NEW L, Layout(L), Transferring(L)
      PROVE  Layout(L)' /\ Transferring(L)'
  BY <1>2, FrozenFacts, SameTransfer, FrozenTransferring DEF SdInv
<1>3. call.op \in {"read", "write"} /\ ~Ended => \E L : Layout(L)' /\ Transferring(L)'
  BY <1>2, Zenon DEF TransferInv, SdInv
<1>4. Ended' = Ended
  BY FrozenFacts, Zenon DEF Ended
<1>5. call.op \in {"read", "write"} /\ Ended /\ ret # 0 => Over' /\ inflight' = None
  <2> SUFFICES ASSUME call.op \in {"read", "write"}, Ended, ret # 0 PROVE Over' /\ inflight' = None
    OBVIOUS
  <2>1. Over /\ inflight = None
    BY Zenon DEF TransferInv, SdInv
  <2>2. Kept /\ intr' = intr
    BY FrozenFacts DEF Kept
  <2> QED BY <2>1, <2>2, FrozenFacts, OverSame DEF SdInv
<1>6. TransferInv'
  BY <1>3, <1>4, <1>5, FrozenFacts, Zenon DEF TransferInv
<1> QED BY <1>1, <1>6 DEF SdInv

LEMMA RestartKeeps ==
  ASSUME SdInv, Restart
  PROVE  SdInv'
<1>1. /\ UNCHANGED <<kind, disk, card, busy, inflight, reply, intr, dat, blk, more, fifo, hostWide, dead, calls, asked>>
      /\ faults < MaxFault /\ faults' = faults + 1
      /\ todo' = <<>> /\ phase' = "issue" /\ err' = SD_OK /\ rca' = 0 /\ started' = FALSE
      /\ call' = [op |-> "none", lba |-> 0, num |-> 0] /\ out' = <<>>
  BY DEF Restart, chip
<1>2. scr' \in Kinds
  BY DEF Restart, Kinds
<1>3. call' \in [op : {"none", "init", "read", "write"}, lba : Nat, num : Nat] /\ call'.op = "none" /\ call'.num = 0
  BY <1>1
<1>4. ChipTypes'
  <2>1. faults' \in Nat /\ faults' <= MaxFault
    BY <1>1, SdAssumption DEF SdInv, Base, TypeInv, ChipTypes
  <2> QED BY <1>1, <2>1 DEF SdInv, Base, TypeInv, ChipTypes, Kinds, Lbas
<1>5. DriverTypes'
  <2>1. <<>> \in Seq(Values)
    OBVIOUS
  <2>2. out' \in Seq(Values) /\ Len(out') <= AtLeastOne(call'.num)
    BY <1>1, <1>3, <2>1 DEF AtLeastOne
  <2> QED BY <1>1, <1>2, <1>3, <2>2 DEF SdInv, Base, TypeInv, DriverTypes
<1>6. FifoInv'
  <2>1. FifoInv
    BY DEF SdInv, Base
  <2>2. WritesInPlace'
    BY <1>1, <2>1 DEF FifoInv, WritesInPlace
  <2> QED BY <1>1, <2>1, <2>2 DEF FifoInv
<1>7. KnownInv'
  <2>1. KnownInv
    BY DEF SdInv, Base
  <2>2. \A c : Inflight(c)' = Inflight(c)
    BY <1>1 DEF Inflight
  <2> QED BY <1>1, <1>3, <2>1, <2>2 DEF KnownInv, Ended
<1> QED BY <1>3, <1>4, <1>5, <1>6, <1>7 DEF SdInv, Base, TypeInv, InitInv, TransferInv, Returned

-----------------------------------------------------------------------------
(* The theorems.                                                           *)

LEMMA NextKeeps ==
  ASSUME SdInv, [Next]_vars
  PROVE  SdInv'
<1>1. CASE Client
  BY <1>1, BeginInitKeeps, BeginTransferKeeps DEF Client
<1>2. CASE Driver
  BY <1>2, DriverKeeps
<1>3. CASE Device
  BY <1>3, DeviceKeeps
<1>4. CASE Die
  <2>1. Frozen
    <3>1. faults' \in Nat /\ faults' <= MaxFault
      BY <1>4, SdAssumption DEF Die, SdInv, Base, TypeInv, ChipTypes
    <3> QED BY <1>4, <3>1 DEF Die, Frozen
  <2> QED BY <2>1, FrozenKeeps
<1>5. CASE Restart
  BY <1>5, RestartKeeps
<1>6. CASE UNCHANGED vars
  <2>1. UNCHANGED <<kind, disk, card, busy, inflight, reply, intr, dat, blk, more, fifo, software>>
    BY <1>6 DEF vars, chip, driver, software
  <2>2. faults' = faults /\ dead' = dead
    BY <1>6 DEF vars, chip
  <2>3. Frozen
    BY <2>1, <2>2 DEF Frozen, SdInv, Base, TypeInv, ChipTypes
  <2> QED BY <2>3, FrozenKeeps
<1> QED BY <1>1, <1>2, <1>3, <1>4, <1>5, <1>6 DEF Next

LEMMA TransfersExact ==
  ASSUME SdInv
  PROVE  ReadIsWhole /\ WriteIsWhole
<1>1. call.num \in Nat /\ Count \in Nat \ {0} /\ Count = AtLeastOne(call.num)
  BY DEF SdInv, Base, TypeInv, DriverTypes, Count, AtLeastOne
<1>2. Blocks = 1 .. Count
  BY <1>1 DEF Blocks
<1>3. ReadIsWhole
  <2> SUFFICES ASSUME call.op = "read", Ended, ret # 0
               PROVE  out = [c \in Blocks |-> disk[call.lba + c - 1]]
    BY DEF ReadIsWhole
  <2>1. Got(Count, Count)
    BY DEF SdInv, TransferInv, Over, Moved
  <2>2. out = [c \in 1 .. Count |-> disk[call.lba + c - 1]]
    BY <2>1, Zenon DEF Got
  <2> QED BY <1>2, <2>2, Zenon
<1>4. WriteIsWhole
  <2> SUFFICES ASSUME call.op = "write", Ended, ret # 0, NEW c \in Blocks
               PROVE  disk[call.lba + c - 1] = <<calls, c>> \/ (~scr.ccs /\ c > 1 /\ c = call.num)
    BY DEF WriteIsWhole
  <2>1. Put(Count, Count) /\ (Fresh => more = 0)
    BY DEF SdInv, TransferInv, Over, Moved
  <2>2. CASE Written(Count)
    BY <1>2, <2>2 DEF Written
  <2>3. CASE more = Count - Count + 1 /\ Written(Count - 1)
    <3>1. ~scr.ccs /\ Count # 1
      BY <1>1, <2>1, <2>3 DEF Fresh
    <3>2. CASE c = Count
      BY <1>1, <3>1, <3>2 DEF AtLeastOne
    <3>3. CASE c # Count
      <4>1. c \in 1 .. Count - 1
        BY <1>1, <1>2, <3>3
      <4> QED BY <2>3, <4>1 DEF Written
    <3> QED BY <3>2, <3>3
  <2> QED BY <2>1, <2>2, <2>3 DEF Put
<1> QED BY <1>3, <1>4

\* The invariant of sd_init, sd_readblock and sd_writeblock over the controller and the
\* card they drive: what is typed, what the FIFO holds, what driver and card know of each
\* other, and for every position inside a call what has been brought about there.
THEOREM SdInvariant == Spec => []SdInv
<1>1. Init => SdInv
  BY AtInit
<1>2. SdInv /\ [Next]_vars => SdInv'
  BY NextKeeps
<1> QED BY <1>1, <1>2, PTL DEF Spec

\* For cards of any size, calls of any length and any number of faults and restarts: a
\* call that reports its blocks has moved those blocks, and no block of the card ever
\* holds anything but what was there or what was to be written to it.
THEOREM SdBlocksExact == Spec => []BlocksExact
<1>1. SdInv => BlocksExact
  <2> SUFFICES ASSUME SdInv PROVE BlocksExact
    OBVIOUS
  <2>1. TypeOK
    BY DEF SdInv, Base, TypeInv, ChipTypes, DriverTypes, TypeOK
  <2>2. WritesInPlace
    BY DEF SdInv, Base, FifoInv
  <2> QED BY <2>1, <2>2, TransfersExact DEF BlocksExact
<1> QED BY <1>1, SdInvariant, PTL

\* When sd_init reports SD_OK the driver addresses the card as it wants to be addressed,
\* knows its address, and both sides use the same width of the bus.
THEOREM SdInitAgrees == Spec => []InitAgrees
<1>1. SdInv => InitAgrees
  BY DEF SdInv, InitInv, InitAgrees, Agreed, Full, In
<1> QED BY <1>1, SdInvariant, PTL
=============================================================================
