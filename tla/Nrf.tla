-------------------------------- MODULE Nrf --------------------------------
(***************************************************************************)
(* The nrf24l01+ driver (labs/17-nrf24l01p/code): nrf_init, nrf_get_pkts,  *)
(* the two sends and the readers of nrf-public.c, for the tests' program   *)
(* that drives two chips from one pi and sends from each to the other.     *)
(*                                                                         *)
(* Each access to a chip that can see what the air does is a step of its   *)
(* own.  What nrf-driver.c leaves unimplemented() is modelled by its       *)
(* comments and by what the code around it expects: nrf_rx_mode,           *)
(* nrf_tx_mode, do_tx, in both sends the setting of the addresses, in      *)
(* nrf_tx_send_noack the wait for the packet to leave, in nrf_tx_send_ack  *)
(* the clearing of the TX interrupt. A packet is <<sender, number>>, sent  *)
(* to the other chip's pipe 1; strangers in the room may send to either. A *)
(* byte is <<packet, index>>.                                              *)
(***************************************************************************)
EXTENDS Timeout, Sequences, SequencesExt

CONSTANTS
  MsgBytes,    \* p->msg_nbytes
  QueueMax,    \* bytes a recvq holds, CQ_N - 1
  ReadSizes,   \* the <nbytes> clients read
  Limits,      \* the timeouts they give, in ticks of the counter
  Retran,      \* retran_attempts
  MaxSend, MaxFaults  \* bounds on sends; on strangers' packets, losses and reboots together

ASSUME NrfAssumption ==
  /\ MsgBytes \in Nat \ {0} /\ QueueMax \in Nat /\ Retran \in Nat
  /\ ReadSizes \subseteq Nat \ {0} /\ Limits \subseteq Nat

Nics == {1, 2}
Other(n) == 3 - n
RxDepth == 3       \* packets a chip's RX FIFO holds
None == <<>>

VARIABLES
  acked,                 \* acked_p, the same for both
  mode, rx, rx_dr,       \* chips: "old" (not configured yet), "rx" or "tx"; RX FIFO; RX_DR
  tx, tries, heard, tx_ds, max_rt, \* their sending half: packet, attempts, acceptance, TX_DS, MAX_RT
  recvq,                 \* nrf_pipe_t's queue of each nic
  pc, nic, back, cnt, hand, \* the driver: where, for which nic, where nrf_get_pkts returns to
  want, limit, res,      \* the client's call and its result
  fault,                 \* "none" or the panic that stopped the program
  nsent, sent, entered, out, \* history of a session: sends begun, returned; RX FIFO; clients
  strays, losses, reboots

chips   == <<mode, rx, rx_dr, tx, tries, heard, tx_ds, max_rt>>
driver  == <<pc, nic, back, cnt, hand, want, limit, res, fault>>
history == <<nsent, sent, entered, out>>
counts  == <<strays, losses, reboots>>
vars    == <<acked, chips, recvq, driver, history, counts, clock>>

BytesOf(p) == [i \in 1 .. MsgBytes |-> <<p, i>>]
BytesOfAll(ps) == FlattenSeq([i \in DOMAIN ps |-> BytesOf(ps[i])])

Init ==
  /\ acked \in BOOLEAN
  /\ mode = [n \in Nics |-> "old"] /\ rx = [n \in Nics |-> <<>>]
  /\ rx_dr = [n \in Nics |-> FALSE]
  /\ tx = [n \in Nics |-> None] /\ tries = 0 /\ heard = FALSE
  /\ tx_ds = FALSE /\ max_rt = FALSE
  /\ recvq = [n \in Nics |-> <<>>]
  /\ pc = "init" /\ nic = 1 /\ back = "idle" /\ cnt = 0 /\ hand = None
  /\ want = 0 /\ limit = 0 /\ res = 0 /\ fault = "none"
  /\ nsent = 0 /\ sent = [n \in Nics |-> <<>>]
  /\ entered = [n \in Nics |-> <<>>] /\ out = [n \in Nics |-> <<>>]
  /\ strays = 0 /\ losses = 0 /\ reboots = 0
  /\ ClockInit

Running == fault = "none"
MoreFaults == strays + losses + reboots < MaxFaults

-----------------------------------------------------------------------------
(* nrf_init, for one nic after the other.                                  *)

BugFlushed(s) == s
\* nrf_rx_flush and nrf_tx_flush
Flushed(s) == <<>>

\* a chip in TX goes on by itself until the packet is acknowledged or given up
Sending(n) == mode[n] = "tx" /\ tx[n] # None /\ tries <= Retran

\* CONFIG = 0 keeps the chip deaf until nrf_rx_mode at the end, so the whole
\* of nrf_init is one step.  The 100 ms of nrf_gpio_init before it outlast the
\* attempts of a send that an earlier session left behind.
NrfInit ==
  /\ Running /\ pc = "init" /\ \A n \in Nics : ~Sending(n)
  /\ mode' = [mode EXCEPT ![nic] = "rx"]
  /\ rx' = [rx EXCEPT ![nic] = Flushed(rx[nic])]
  /\ rx_dr' = [rx_dr EXCEPT ![nic] = FALSE]
  /\ tx' = [tx EXCEPT ![nic] = Flushed(tx[nic])]
  /\ tx_ds' = FALSE /\ max_rt' = FALSE
  /\ recvq' = [recvq EXCEPT ![nic] = <<>>]
  /\ entered' = [entered EXCEPT ![nic] = <<>>]
  /\ IF nic = 1 THEN nic' = 2 /\ pc' = "init" ELSE nic' = 1 /\ pc' = "idle"
  /\ UNCHANGED <<acked, tries, heard, back, cnt, hand, want, limit, res, fault,
                 nsent, sent, out, counts, clock>>

-----------------------------------------------------------------------------
(* nrf_get_pkts(nic), returning to `back`.                                 *)

Goto(label) == pc' = label /\ UNCHANGED <<nic, back, want, limit, res>>
Panic(why)  == fault' = why /\ UNCHANGED <<pc, nic, back, want, limit, res>>

HasPacket ==
  /\ Running /\ pc = "has"
  /\ Goto(IF rx[nic] = <<>> THEN back ELSE "pipeid")
  /\ cnt' = 0
  /\ UNCHANGED <<acked, chips, recvq, hand, fault, history, counts, clock>>

\* nrf_rx_get_pipeid: the FIFO was seen to hold something
GetPipeid ==
  /\ Running /\ pc = "pipeid"
  /\ IF rx[nic] = <<>> THEN Panic("empty_pipeid") ELSE Goto("payload") /\ fault' = fault
  /\ UNCHANGED <<acked, chips, recvq, cnt, hand, history, counts, clock>>

\* nrf_getn(NRF_R_RX_PAYLOAD) takes the packet from the chip
ReadPayload ==
  /\ Running /\ pc = "payload"
  /\ hand' = Head(rx[nic]) /\ rx' = [rx EXCEPT ![nic] = Tail(@)]
  /\ Goto("push")
  /\ UNCHANGED <<acked, mode, rx_dr, tx, tries, heard, tx_ds, max_rt, recvq,
                 cnt, fault, history, counts, clock>>

\* cq_push_n's test
Fits == Len(recvq[nic]) + MsgBytes <= QueueMax

PushPacket ==
  /\ Running /\ pc = "push"
  /\ IF Fits
       THEN /\ recvq' = [recvq EXCEPT ![nic] = @ \o BytesOf(hand)]
            /\ hand' = None /\ Goto("clear") /\ fault' = fault
       ELSE Panic("recvq_full") /\ UNCHANGED <<recvq, hand>>
  /\ UNCHANGED <<acked, chips, cnt, history, counts, clock>>

\* nrf_rx_intr_clr, tot_msgs and cnt
ClearRxIntr ==
  /\ Running /\ pc = "clear"
  /\ rx_dr' = [rx_dr EXCEPT ![nic] = FALSE]
  /\ cnt' = cnt + 1
  /\ Goto("more")
  /\ UNCHANGED <<acked, mode, rx, tx, tries, heard, tx_ds, max_rt, recvq, hand,
                 fault, history, counts, clock>>

BugMore == FALSE
BugAlwaysMore == TRUE
\* while(!nrf_rx_fifo_empty(n))
More == rx[nic] # <<>>

CheckMore ==
  /\ Running /\ pc = "more"
  /\ Goto(IF More THEN "pipeid" ELSE back)
  /\ UNCHANGED <<acked, chips, recvq, cnt, hand, fault, history, counts, clock>>

GetPkts == HasPacket \/ GetPipeid \/ ReadPayload \/ PushPacket \/ ClearRxIntr \/ CheckMore

-----------------------------------------------------------------------------
(* nrf_tx_send_ack and nrf_tx_send_noack of a message from `nic`.          *)

CallSend ==
  /\ Running /\ pc = "idle" /\ nsent < MaxSend
  /\ nic' \in Nics /\ nsent' = nsent + 1
  /\ pc' = "has" /\ back' = "drain"
  /\ UNCHANGED <<acked, chips, recvq, cnt, hand, want, limit, res, fault, sent,
                 entered, out, counts, clock>>

\* while(nrf_get_pkts(n));
Drained == cnt = 0

\* nrf_tx_mode once drained
TxMode ==
  /\ Running /\ pc = "drain"
  /\ IF Drained THEN mode' = [mode EXCEPT ![nic] = "tx"] /\ Goto("check")
                ELSE mode' = mode /\ Goto("has")
  /\ UNCHANGED <<acked, rx, rx_dr, tx, tries, heard, tx_ds, max_rt, recvq, cnt,
                 hand, fault, history, counts, clock>>

\* the assertions before do_tx, and do_tx
DoTx ==
  /\ Running /\ pc = "check"
  /\ tries' = 0 /\ heard' = FALSE
  /\ CASE tx[nic] # None -> Panic("tx_not_empty") /\ tx' = tx
       [] tx[nic] = None /\ acked /\ rx[nic] # <<>> -> Panic("rx_not_empty") /\ tx' = tx
       [] OTHER -> /\ tx' = [tx EXCEPT ![nic] = <<nic, nsent>>]
                   /\ Goto("wait") /\ fault' = fault
  /\ UNCHANGED <<acked, mode, rx, rx_dr, tx_ds, max_rt, recvq, cnt, hand,
                 history, counts, clock>>

\* Packet p reaches chip n, which takes it if it listens and has room.
Arrives(n, p) ==
  IF mode[n] = "rx" /\ Len(rx[n]) < RxDepth
  THEN /\ rx' = [rx EXCEPT ![n] = Append(@, p)]
       /\ rx_dr' = [rx_dr EXCEPT ![n] = TRUE]
       /\ entered' = [entered EXCEPT ![n] = Append(@, p)]
  ELSE UNCHANGED <<rx, rx_dr, entered>>

\* One attempt of a chip to send: the packet or its acknowledgement may be
\* lost, and a packet heard twice is acknowledged again and dropped.
Transmit == \E n \in Nics, lost, ackLost \in BOOLEAN :
  LET o     == Other(n)
      comes == ~lost /\ ~heard /\ mode[o] = "rx" /\ Len(rx[o]) < RxDepth
      done  == ~acked \/ (heard' /\ ~lost /\ ~ackLost)
  IN /\ Sending(n) /\ ~(lost /\ ackLost) /\ (acked \/ ~ackLost)
     /\ losses' = losses + (IF lost \/ ackLost THEN 1 ELSE 0) /\ (losses' = losses \/ MoreFaults)
     /\ heard' = (heard \/ comes)
     /\ IF comes THEN Arrives(o, tx[n]) ELSE UNCHANGED <<rx, rx_dr, entered>>
     /\ tx' = IF done THEN [tx EXCEPT ![n] = None] ELSE tx
     /\ tx_ds' = (tx_ds \/ done)
     /\ tries' = IF done THEN tries ELSE tries + 1
     /\ max_rt' = (~done /\ tries' > Retran)
     /\ UNCHANGED <<acked, mode, recvq, driver, nsent, sent, out, strays, reboots, clock>>

BugSucceeded == tx_ds \/ max_rt
\* nrf_has_tx_intr
Succeeded == tx_ds
BugGivesUp == FALSE
GivesUp == max_rt

\* the loop that waits for TX_DS or, when acknowledged, MAX_RT, and nrf_rx_mode
SendDone ==
  /\ Running /\ pc = "wait"
  /\ IF Succeeded
       THEN /\ tx_ds' = FALSE /\ mode' = [mode EXCEPT ![nic] = "rx"]
            /\ sent' = [sent EXCEPT ![nic] = Append(@, <<nic, nsent>>)]
            /\ Goto("idle") /\ fault' = fault
       ELSE /\ GivesUp \/ (acked /\ Len(rx[nic]) = RxDepth)
            /\ Panic(IF GivesUp THEN "max_rt" ELSE "rx_full")
            /\ UNCHANGED <<tx_ds, mode, sent>>
  /\ UNCHANGED <<acked, rx, rx_dr, tx, tries, heard, max_rt, recvq, cnt, hand,
                 nsent, entered, out, counts, clock>>

-----------------------------------------------------------------------------
(* nrf_get_data_exact_noblk, _timeout and nrf_get_data_exact.              *)

CallRead ==
  /\ Running /\ pc = "idle"
  /\ nic' \in Nics /\ want' \in ReadSizes /\ limit' \in Limits
  /\ back' \in {"noblk", "timeout", "exact"}
  /\ IF back' = "noblk" THEN UNCHANGED clock ELSE TimeoutStart
  /\ pc' = "has"
  /\ UNCHANGED <<acked, chips, recvq, cnt, hand, res, fault, history, counts>>

Return(r) == pc' = "done" /\ res' = r /\ UNCHANGED <<nic, back, want, limit>>

\* neither n == 0 nor n < nbytes
Enough == Len(recvq[nic]) >= want

\* nrf_pipe_nbytes_avail's assertion, and the pop
ReadAvail ==
  /\ Running /\ pc \in {"noblk", "timeout", "exact"}
  /\ CASE cnt > 0 /\ recvq[nic] = <<>> -> Panic("no_bytes") /\ UNCHANGED <<recvq, out>>
       [] Enough ->
            /\ out' = [out EXCEPT ![nic] = @ \o SubSeq(recvq[nic], 1, want)]
            /\ recvq' = [recvq EXCEPT ![nic] = SubSeq(@, want + 1, Len(@))]
            /\ Return(want) /\ fault' = fault
       [] OTHER ->
            /\ IF pc = "noblk" THEN Return(0) ELSE Goto("expire")
            /\ UNCHANGED <<recvq, out, fault>>
  /\ UNCHANGED <<acked, chips, cnt, hand, nsent, sent, entered, counts, clock>>

TimedOut == -1

\* timeout_usec, after any time the caller was away
Expire == \E gap \in Gaps :
  /\ Running /\ pc = "expire" /\ TimeoutUpdate(gap)
  /\ CASE time_usecs' < limit -> Goto("has") /\ fault' = fault
       [] time_usecs' >= limit /\ back = "timeout" -> Return(TimedOut) /\ fault' = fault
       [] OTHER -> Panic("no_traffic")
  /\ UNCHANGED <<acked, chips, recvq, cnt, hand, history, counts>>

\* the client looks at the result; the timeout_t is gone
ReadReturns ==
  /\ Running /\ pc = "done"
  /\ pc' = "idle" /\ res' = 0 /\ want' = 0 /\ limit' = 0 /\ cnt' = 0
  /\ counter' = 0 /\ time_last' = 0 /\ time_usecs' = 0 /\ elapsed' = 0
  /\ UNCHANGED <<acked, chips, recvq, nic, back, hand, fault, history, counts>>

-----------------------------------------------------------------------------

\* someone else sends to chip n's address
Stray == \E n \in Nics :
  /\ MoreFaults /\ strays' = strays + 1
  /\ mode[n] = "rx" /\ Arrives(n, <<0, strays'>>)
  /\ UNCHANGED <<acked, mode, tx, tries, heard, tx_ds, max_rt, recvq, driver,
                 nsent, sent, out, losses, reboots, clock>>

\* The pi restarts at any moment, after a panic too; the chips keep power.
Reboot ==
  /\ MoreFaults /\ reboots' = reboots + 1
  /\ pc' = "init" /\ nic' = 1 /\ back' = "drain" /\ cnt' = 0 /\ hand' = None
  /\ want' = 0 /\ limit' = 0 /\ res' = 0 /\ fault' = "none"
  /\ recvq' = [n \in Nics |-> <<>>]
  /\ sent' = [n \in Nics |-> <<>>] /\ out' = [n \in Nics |-> <<>>]
  /\ entered' = [n \in Nics |-> <<>>]
  /\ counter' = 0 /\ time_last' = 0 /\ time_usecs' = 0 /\ elapsed' = 0
  /\ UNCHANGED <<acked, chips, nsent, strays, losses>>

Driver == \/ NrfInit \/ GetPkts \/ TxMode \/ DoTx \/ SendDone
          \/ ReadAvail \/ Expire \/ ReadReturns
Next == CallSend \/ CallRead \/ Driver \/ Transmit \/ Stray \/ Reboot

\* The program runs, and a chip with something to send sends.
Spec == Init /\ [][Next]_vars /\ WF_vars(Driver) /\ WF_vars(Transmit)

-----------------------------------------------------------------------------

Only(p, o) == IF p[1] = o THEN <<p>> ELSE <<>>
SentBy(ps, o) == FlattenSeq([i \in DOMAIN ps |-> Only(ps[i], o)])
FromPeer(n) == SentBy(entered[n], Other(n))
Holding(n) == IF n = nic /\ hand # None THEN BytesOf(hand) ELSE <<>>
Up == pc # "init"
InGetPkts == pc \in {"has", "pipeid", "payload", "push", "clear", "more"}

\* One value of every variable's type, and no more in a queue or FIFO than
\* it holds (nrf_pipe_t, the chip's three-packet FIFO).
TypeOK ==
  /\ ClockTypeOK
  /\ mode \in [Nics -> {"old", "rx", "tx"}] /\ rx_dr \in [Nics -> BOOLEAN]
  /\ nic \in Nics /\ tries \in 0 .. Retran + 1 /\ {heard, tx_ds, max_rt, acked} \subseteq BOOLEAN
  /\ \A n \in Nics : Len(rx[n]) <= RxDepth /\ Len(recvq[n]) <= QueueMax

\* Every byte a client has read, in order, is a byte of a packet its chip
\* accepted in this session, and none is skipped, repeated or left over from
\* before a restart, and nothing is held beyond its place (nrf_get_pkts, cq_pop_n, nrf_init).
BytesConserved ==
  /\ TypeOK
  /\ Up => \A n \in Nics :
             BytesOfAll(entered[n]) = out[n] \o recvq[n] \o Holding(n) \o BytesOfAll(rx[n])

\* A packet left in the FIFO outside nrf_get_pkts still has its interrupt
\* pending: one that arrives between reading and clearing is read in the same
\* call, whatever the moment (the loop of nrf_get_pkts).
NoLostInterrupt ==
  (Up /\ Running) => \A n \in Nics :
    (rx[n] # <<>> /\ ~(InGetPkts /\ nic = n)) => rx_dr[n]

\* A send with acknowledgement that returns has delivered its message exactly
\* once, and in order, however many attempts and acknowledgements were lost;
\* one that has not returned has delivered it at most once (nrf_tx_send_ack).
AckedExactlyOnce ==
  (acked /\ Up) => \A n \in Nics :
    FromPeer(n) \in {sent[Other(n)], Append(sent[Other(n)], <<Other(n), nsent>>)}
    /\ (pc = "idle" => FromPeer(n) = sent[Other(n)])

\* The program stops only for what it cannot prevent: strangers between the
\* last drain and TX mode, a receiver that did not answer any attempt, a queue
\* no client reads, or no traffic; none of the other assertions of the driver
\* can fail (nrf_tx_send_ack, nrf_get_pkts, nrf_pipe_nbytes_avail).
StopsOnlyWhen ==
  /\ fault \in {"none", "rx_not_empty", "max_rt", "recvq_full", "no_traffic"}
  /\ fault = "rx_not_empty" => strays > 0
  /\ fault = "max_rt" => losses > 0 \/ Len(rx[Other(nic)]) = RxDepth
  /\ fault = "recvq_full" => Len(recvq[nic]) + MsgBytes > QueueMax

\* A timed read that gives up has really waited, and notices within one round
\* of its loop, although the counter wraps meanwhile (timeout_usec).
TimeoutsHonest ==
  (pc = "done" /\ res = TimedOut) =>
    elapsed >= limit /\ \E gap \in Gaps : elapsed - gap < limit \/ limit = 0

\* Every call returns or stops the program (the loops of the sends, of
\* nrf_get_pkts and of nrf_get_data_exact).
CallsEnd == (Up /\ pc # "idle") ~> (pc = "idle" \/ ~Running)
=============================================================================
