----------------------------- MODULE NrfProofs -----------------------------
(***************************************************************************)
(* For every message size, queue, timeout, number of attempts, width of    *)
(* the counter and number of faults: the driver of the radio loses no      *)
(* interrupt and no byte, delivers an acknowledged message exactly once,   *)
(* and a timed read gives up neither early nor late.                       *)
(***************************************************************************)
EXTENDS Nrf, FiniteSetTheorems, SequenceTheorems, TLAPS

-----------------------------------------------------------------------------
(* Interrupts.                                                             *)

\* The chips whose FIFO nobody is looking at: all but the one nrf_get_pkts
\* reads, and during initialisation those that have been initialised.
Unattended(n) == IF pc = "init" THEN n < nic ELSE ~(InGetPkts /\ nic = n)

\* A chip with packets that is unattended has its interrupt pending.
Pending == \A n \in Nics : Unattended(n) /\ rx[n] # <<>> => rx_dr[n]

IntrInv ==
  /\ DOMAIN rx = Nics /\ rx_dr \in [Nics -> BOOLEAN]
  /\ nic \in Nics
  /\ Pending

LEMMA IntrInit == Init => IntrInv
  BY DEF Init, IntrInv, Pending, Unattended, Nics

\* What reaches a chip raises its interrupt.
LEMMA ArrivalKeeps ==
  ASSUME IntrInv, NEW n \in Nics, NEW p, Arrives(n, p), UNCHANGED <<pc, nic>>
  PROVE  IntrInv'
<1>1. CASE UNCHANGED <<rx, rx_dr>>
  BY <1>1 DEF IntrInv, Pending, Unattended, InGetPkts
<1>2. CASE /\ rx' = [rx EXCEPT ![n] = Append(@, p)]
           /\ rx_dr' = [rx_dr EXCEPT ![n] = TRUE]
  <2>1. DOMAIN rx' = Nics /\ rx_dr' \in [Nics -> BOOLEAN] /\ nic' \in Nics
    BY <1>2 DEF IntrInv
  <2>2. ASSUME NEW m \in Nics, Unattended(m)', rx'[m] # <<>> PROVE rx_dr'[m]
    <3>1. CASE m = n
      BY <1>2, <3>1 DEF IntrInv
    <3>2. CASE m # n
      BY <1>2, <2>2, <3>2 DEF IntrInv, Pending, Unattended, InGetPkts
    <3>3. QED BY <3>1, <3>2
  <2>3. QED BY <2>1, <2>2 DEF IntrInv, Pending
<1>3. QED BY <1>1, <1>2 DEF Arrives

LEMMA IntrNext == IntrInv /\ [Next]_vars => IntrInv'
<1> SUFFICES ASSUME IntrInv, [Next]_vars PROVE IntrInv'
  OBVIOUS
<1> USE DEF IntrInv, Pending, Unattended, InGetPkts, Nics
<1>1. CASE CallSend
  BY <1>1 DEF CallSend, chips
<1>2. CASE CallRead
  BY <1>2 DEF CallRead, chips
<1>3. CASE NrfInit
  <2>1. CASE nic = 1
    BY <1>3, <2>1 DEF NrfInit, Flushed
  <2>2. CASE nic = 2
    BY <1>3, <2>2 DEF NrfInit, Flushed
  <2>3. QED BY <2>1, <2>2
<1>4. CASE HasPacket
  BY <1>4 DEF HasPacket, Goto, chips
<1>5. CASE GetPipeid
  BY <1>5 DEF GetPipeid, Goto, Panic, chips
<1>6. CASE ReadPayload
  BY <1>6 DEF ReadPayload, Goto
<1>7. CASE PushPacket
  BY <1>7 DEF PushPacket, Goto, Panic, chips
<1>8. CASE ClearRxIntr
  BY <1>8 DEF ClearRxIntr, Goto
<1>9. CASE CheckMore
  BY <1>9 DEF CheckMore, More, Goto, chips
<1>10. CASE TxMode
  BY <1>10 DEF TxMode, Goto
<1>11. CASE DoTx
  BY <1>11 DEF DoTx, Goto, Panic
<1>12. CASE SendDone
  BY <1>12 DEF SendDone, Goto, Panic
<1>13. CASE ReadAvail
  BY <1>13 DEF ReadAvail, Goto, Panic, Return, chips
<1>14. CASE Expire
  BY <1>14 DEF Expire, Goto, Panic, Return, chips
<1>15. CASE ReadReturns
  BY <1>15 DEF ReadReturns, chips
<1>16. CASE Transmit
  <2>1. PICK n \in Nics : \/ Arrives(Other(n), tx[n])
                         \/ UNCHANGED <<rx, rx_dr, entered>>
    BY <1>16 DEF Transmit
  <2>2. UNCHANGED <<pc, nic>>
    BY <1>16 DEF Transmit, driver
  <2>3. Other(n) \in Nics
    BY DEF Other
  <2>4. QED BY <2>1, <2>2, <2>3, ArrivalKeeps
<1>17. CASE Stray
  <2>1. PICK n \in Nics : Arrives(n, <<0, strays'>>)
    BY <1>17 DEF Stray
  <2>2. UNCHANGED <<pc, nic>>
    BY <1>17 DEF Stray, driver
  <2>3. QED BY <2>1, <2>2, ArrivalKeeps
<1>18. CASE Reboot
  BY <1>18 DEF Reboot, chips
<1>19. CASE UNCHANGED vars
  BY <1>19 DEF vars, chips, driver
<1>20. QED
  BY <1>1, <1>2, <1>3, <1>4, <1>5, <1>6, <1>7, <1>8, <1>9, <1>10, <1>11, <1>12,
     <1>13, <1>14, <1>15, <1>16, <1>17, <1>18, <1>19
     DEF Next, Driver, GetPkts

\* A packet left in the FIFO outside nrf_get_pkts has its interrupt pending.
THEOREM RadioLosesNoInterrupt == Spec => []NoLostInterrupt
<1>1. IntrInv => NoLostInterrupt
  BY DEF IntrInv, Pending, Unattended, NoLostInterrupt, Up
<1>2. QED BY IntrInit, IntrNext, <1>1, PTL DEF Spec

-----------------------------------------------------------------------------
(* Time.                                                                   *)

Returns == {"drain", "noblk", "timeout", "exact"}

\* in a read, whose timeout_t is the clock
Reading == \/ pc \in {"noblk", "timeout", "exact", "expire", "done"}
           \/ InGetPkts /\ back # "drain"

\* The sum is the time that has passed, whatever the counter did meanwhile.
ClockRight == ClockTypeOK /\ time_usecs = elapsed /\ time_last = counter

\* A read that has not given up has time left, or has only just begun.
TimeLeft == (Running /\ pc # "done") => elapsed < limit \/ elapsed = 0

TimeInv ==
  /\ ClockRight
  /\ want \in Nat /\ limit \in Nat
  /\ InGetPkts => back \in Returns
  /\ pc \in Returns => back = pc
  /\ pc = "expire" => back \in Returns \ {"drain"}
  /\ ~Reading => elapsed = 0
  /\ TimeLeft
  /\ TimeoutsHonest

LEMMA TimeInit == Init => TimeInv
<1> SUFFICES ASSUME Init PROVE TimeInv
  OBVIOUS
<1>1. ClockRight
  BY TimeoutAssumption, SMT DEF Init, ClockInit, ClockRight, ClockTypeOK
<1>2. QED
  BY <1>1 DEF Init, ClockInit, TimeInv, Reading, TimeLeft, TimeoutsHonest,
              InGetPkts, Returns

\* The remainder of a number below m and of one between m and 2 * m.
LEMMA SmallMod ==
  ASSUME NEW m \in Nat \ {0}, NEW a \in 0 .. m - 1
  PROVE  a % m = a /\ (a + m) % m = a
  OBVIOUS

\* Two readings of the counter, less than a wrap apart, give the time between.
LEMMA ReadingIsRight ==
  ASSUME ClockRight, NEW gap \in Gaps, TimeoutUpdate(gap)
  PROVE  ClockRight' /\ elapsed' = elapsed + gap /\ gap \in Nat
<1>1. /\ Tick \in Nat \ {0} /\ gap \in 0 .. Tick - 1 /\ gap \in Nat
      /\ counter \in 0 .. Tick - 1 /\ time_last = counter
  BY TimeoutAssumption DEF ClockRight, ClockTypeOK
<1>2. counter' \in 0 .. Tick - 1 /\ Passed(counter') = gap
  <2>1. counter' = (counter + gap) % Tick
    BY DEF TimeoutUpdate
  <2>2. CASE counter + gap < Tick
    <3>1. counter' = counter + gap
      BY <1>1, <2>1, <2>2, SmallMod
    <3>2. (counter' + Tick) - time_last = gap + Tick
      BY <1>1, <3>1
    <3>3. QED BY <1>1, <2>2, <3>1, <3>2, SmallMod DEF Passed
  <2>3. CASE counter + gap >= Tick
    <3>1. PICK c \in 0 .. Tick - 1 : c + Tick = counter + gap
      BY <1>1, <2>3
    <3>2. counter' = c
      BY <1>1, <2>1, <3>1, SmallMod
    <3>3. (counter' + Tick) - time_last = gap
      BY <1>1, <3>1, <3>2
    <3>4. QED BY <1>1, <3>2, <3>3, SmallMod DEF Passed
  <2>4. QED BY <1>1, <2>2, <2>3
<1>3. QED BY <1>1, <1>2 DEF TimeoutUpdate, ClockRight, ClockTypeOK

LEMMA TimeNext == TimeInv /\ [Next]_vars => TimeInv'
<1> SUFFICES ASSUME TimeInv, [Next]_vars PROVE TimeInv'
  OBVIOUS
<1> USE DEF TimeInv, Reading, TimeLeft, TimeoutsHonest, InGetPkts, Returns, Running
<1>0. ASSUME UNCHANGED clock PROVE ClockRight' /\ elapsed' = elapsed
  BY <1>0 DEF ClockRight, ClockTypeOK, clock
<1>1. CASE CallSend
  BY <1>0, <1>1 DEF CallSend
<1>2. CASE CallRead
  <2>1. want' \in Nat /\ limit' \in Nat
    BY <1>2, NrfAssumption DEF CallRead
  <2>2. ClockRight' /\ elapsed' = 0
    BY <1>0, <1>2 DEF CallRead, TimeoutStart, ClockRight, ClockTypeOK
  <2>3. QED BY <1>2, <2>1, <2>2 DEF CallRead
<1>3. CASE NrfInit
  BY <1>0, <1>3 DEF NrfInit
<1>4. CASE HasPacket
  BY <1>0, <1>4 DEF HasPacket, Goto
<1>5. CASE GetPipeid
  BY <1>0, <1>5 DEF GetPipeid, Goto, Panic
<1>6. CASE ReadPayload
  BY <1>0, <1>6 DEF ReadPayload, Goto
<1>7. CASE PushPacket
  BY <1>0, <1>7 DEF PushPacket, Goto, Panic
<1>8. CASE ClearRxIntr
  BY <1>0, <1>8 DEF ClearRxIntr, Goto
<1>9. CASE CheckMore
  BY <1>0, <1>9 DEF CheckMore, Goto
<1>10. CASE TxMode
  BY <1>0, <1>10 DEF TxMode, Goto
<1>11. CASE DoTx
  BY <1>0, <1>11 DEF DoTx, Goto, Panic
<1>12. CASE SendDone
  BY <1>0, <1>12 DEF SendDone, Goto, Panic
<1>13. CASE ReadAvail
  BY <1>0, <1>13 DEF ReadAvail, Goto, Panic, Return, TimedOut
<1>14. CASE Expire
  <2>1. PICK gap \in Gaps :
          /\ pc = "expire" /\ fault = "none" /\ TimeoutUpdate(gap)
          /\ CASE time_usecs' < limit -> Goto("has") /\ fault' = fault
               [] time_usecs' >= limit /\ back = "timeout" ->
                    Return(TimedOut) /\ fault' = fault
               [] OTHER -> Panic("no_traffic")
    BY <1>14 DEF Expire
  <2>2. ClockRight' /\ elapsed' = elapsed + gap /\ gap \in Nat /\ elapsed \in Nat
    BY <2>1, ReadingIsRight DEF ClockRight, ClockTypeOK
  <2>3. time_usecs' = elapsed'
    BY <2>2 DEF ClockRight
  <2>4. CASE time_usecs' < limit
    BY <2>1, <2>2, <2>3, <2>4 DEF Goto
  <2>5. CASE time_usecs' >= limit /\ back = "timeout"
    <3>1. Return(TimedOut) /\ fault' = fault
      BY <2>1, <2>2, <2>3, <2>5
    <3>2. elapsed' >= limit' /\ elapsed' - gap = elapsed
      BY <2>2, <2>3, <2>5, <3>1 DEF Return
    <3>3. elapsed' - gap < limit' \/ limit' = 0
      BY <2>1, <2>2, <3>1, <3>2 DEF Return
    <3>4. QED BY <2>1, <2>2, <3>1, <3>2, <3>3 DEF Return
  <2>6. CASE time_usecs' >= limit /\ back # "timeout"
    BY <2>1, <2>2, <2>3, <2>6 DEF Panic
  <2>7. QED BY <2>2, <2>3, <2>4, <2>5, <2>6
<1>15. CASE ReadReturns
  <2>1. ClockRight' /\ elapsed' = 0
    BY <1>15, TimeoutAssumption DEF ReadReturns, ClockRight, ClockTypeOK
  <2>2. QED BY <1>15, <2>1 DEF ReadReturns
<1>16. CASE Transmit
  BY <1>0, <1>16 DEF Transmit, driver
<1>17. CASE Stray
  BY <1>0, <1>17 DEF Stray, driver
<1>18. CASE Reboot
  <2>1. ClockRight' /\ elapsed' = 0
    BY <1>18, TimeoutAssumption DEF Reboot, ClockRight, ClockTypeOK
  <2>2. QED BY <1>18, <2>1 DEF Reboot
<1>19. CASE UNCHANGED vars
  BY <1>0, <1>19 DEF vars, driver
<1>20. QED
  BY <1>1, <1>2, <1>3, <1>4, <1>5, <1>6, <1>7, <1>8, <1>9, <1>10, <1>11, <1>12,
     <1>13, <1>14, <1>15, <1>16, <1>17, <1>18, <1>19
     DEF Next, Driver, GetPkts

\* A timed read that gives up has waited its limit, and one reading of the
\* counter earlier it had not, through any number of wraps.
THEOREM TimedReadsAreHonest == Spec => []TimeoutsHonest
<1>1. TimeInv => TimeoutsHonest
  BY DEF TimeInv
<1>2. QED BY TimeInit, TimeNext, <1>1, PTL DEF Spec

-----------------------------------------------------------------------------
(* The driver's assertions.                                                *)

Packet == (0 .. 2) \X Nat
Byte   == Packet \X (1 .. MsgBytes)

StopTypes ==
  /\ nic \in Nics /\ cnt \in Nat /\ want \in Nat /\ nsent \in Nat /\ tries \in Nat
  /\ strays \in Nat /\ losses \in Nat
  /\ {acked, heard, tx_ds, max_rt} \subseteq BOOLEAN
  /\ mode \in [Nics -> {"old", "rx", "tx"}]
  /\ rx \in [Nics -> Seq(Packet)] /\ \A n \in Nics : Len(rx[n]) <= RxDepth
  /\ tx \in [Nics -> Packet \cup {None}]
  /\ recvq \in [Nics -> Seq(Byte)]

\* Which chips listen and which have something to send, by the driver's place.
ChipInv ==
  \A n \in Nics :
    /\ pc = "init" => (n < nic => mode[n] = "rx" /\ tx[n] = None)
    /\ pc # "init" =>
         /\ IF pc \in {"check", "wait"} /\ n = nic
              THEN mode[n] = "tx" ELSE mode[n] = "rx"
         /\ (pc = "wait" /\ n = nic) \/ tx[n] = None

\* What nrf_get_pkts has found: a packet in the FIFO, one in its hand, bytes
\* in the queue.
GetPktsInv ==
  /\ pc \in {"pipeid", "payload"} => rx[nic] # <<>>
  /\ pc = "push" => hand \in Packet
  /\ pc = "clear" => recvq[nic] # <<>>
  /\ pc = "more" => cnt > 0
  /\ pc \in {"pipeid", "payload", "push", "more"} \cup Returns /\ cnt > 0
       => recvq[nic] # <<>>

\* What a send has reached: once drained only a stranger's packet can be in
\* the FIFO, and while it sends nothing comes.
SendInv ==
  /\ (pc = "drain" /\ cnt = 0) \/ pc = "check" => rx[nic] = <<>> \/ strays > 0
  /\ pc = "wait" /\ acked => rx[nic] = <<>>
  /\ pc = "wait" => (max_rt => losses > 0 \/ Len(rx[Other(nic)]) = RxDepth)
  /\ pc = "wait" /\ tx_ds => tx[nic] = None /\ ~max_rt
  /\ pc = "wait" /\ max_rt => tries > Retran
  /\ pc \notin {"init", "wait"} => ~max_rt /\ ~tx_ds

\* Why the program has stopped.
FaultInv ==
  /\ fault \in {"none", "rx_not_empty", "max_rt", "recvq_full", "no_traffic"}
  /\ fault = "rx_not_empty" => strays > 0
  /\ fault = "max_rt" => pc = "wait" /\ max_rt
  /\ fault = "recvq_full" => pc = "push" /\ ~Fits

StopInv ==
  /\ StopTypes /\ ChipInv /\ GetPktsInv /\ SendInv /\ FaultInv
  /\ InGetPkts \/ pc \in Returns \cup {"expire"} => back \in Returns

LEMMA StopInit == Init => StopInv
<1> SUFFICES ASSUME Init PROVE StopInv
  OBVIOUS
<1> USE DEF Init, Nics
<1>1. StopTypes
  <2>1. <<>> \in Seq(Packet) /\ <<>> \in Seq(Byte) /\ Len(<<>>) = 0
    BY EmptySeq
  <2>2. rx \in [Nics -> Seq(Packet)] /\ recvq \in [Nics -> Seq(Byte)]
    BY <2>1
  <2>3. \A n \in Nics : Len(rx[n]) <= RxDepth
    BY <2>1 DEF RxDepth
  <2>4. tx \in [Nics -> Packet \cup {None}] /\ mode \in [Nics -> {"old", "rx", "tx"}]
    OBVIOUS
  <2>5. {acked, heard, tx_ds, max_rt} \subseteq BOOLEAN
    OBVIOUS
  <2>6. QED BY <2>2, <2>3, <2>4, <2>5 DEF StopTypes
<1>2. ChipInv /\ GetPktsInv /\ SendInv /\ FaultInv
  BY DEF ChipInv, GetPktsInv, SendInv, FaultInv, Returns
<1>3. QED BY <1>1, <1>2 DEF StopInv, InGetPkts, Returns

\* A packet enters a FIFO, at its end and with room.
LEMMA ArrivalFacts ==
  ASSUME StopTypes, NEW n \in Nics, NEW p \in Packet, Arrives(n, p)
  PROVE  /\ rx' \in [Nics -> Seq(Packet)]
         /\ \A m \in Nics : /\ Len(rx'[m]) <= RxDepth
                            /\ rx[m] # <<>> => rx'[m] # <<>>
                            /\ Len(rx[m]) = RxDepth => rx'[m] = rx[m]
                            /\ m # n \/ mode[n] # "rx" => rx'[m] = rx[m]
<1> DEFINE longer == Append(rx[n], p)
<1>1. rx[n] \in Seq(Packet) /\ Len(rx[n]) \in Nat
  BY LenProperties DEF StopTypes
<1>2. /\ longer \in Seq(Packet) /\ Len(longer) = Len(rx[n]) + 1
      /\ longer # <<>>
  BY <1>1, AppendProperties
<1> HIDE DEF longer
<1>3. CASE mode[n] = "rx" /\ Len(rx[n]) < RxDepth
  <2>1. rx' = [rx EXCEPT ![n] = longer]
    BY <1>3 DEF Arrives, longer
  <2>2. QED BY <1>1, <1>2, <1>3, <2>1 DEF StopTypes, RxDepth
<1>4. CASE ~(mode[n] = "rx" /\ Len(rx[n]) < RxDepth)
  BY <1>4 DEF Arrives, StopTypes
<1>5. QED BY <1>3, <1>4

LEMMA StrayKeeps ==
  ASSUME StopInv, Stray
  PROVE  StopInv'
<1> USE DEF StopInv
<1>1. PICK n \in Nics : /\ Arrives(n, <<0, strays'>>) /\ strays' = strays + 1
                       /\ UNCHANGED <<acked, mode, tx, tries, heard, tx_ds, max_rt,
                            recvq, pc, nic, back, cnt, hand, want, fault, nsent, losses>>
  BY DEF Stray, driver
<1>2. strays' \in Nat /\ strays' > 0
  BY <1>1 DEF StopTypes
<1>3. <<0, strays'>> \in Packet
  BY <1>2 DEF Packet
<1>4. /\ rx' \in [Nics -> Seq(Packet)]
      /\ \A m \in Nics : /\ Len(rx'[m]) <= RxDepth
                         /\ rx[m] # <<>> => rx'[m] # <<>>
                         /\ Len(rx[m]) = RxDepth => rx'[m] = rx[m]
                         /\ m # n \/ mode[n] # "rx" => rx'[m] = rx[m]
  BY <1>1, <1>3, ArrivalFacts
<1>5. nic \in Nics /\ Other(nic) \in Nics
  BY DEF StopTypes, Nics, Other
<1>6. StopTypes'
  BY <1>1, <1>2, <1>4 DEF StopTypes
<1>7. ChipInv'
  BY <1>1 DEF ChipInv
<1>8. GetPktsInv'
  BY <1>1, <1>4, <1>5 DEF GetPktsInv
<1>9. SendInv'
  <2>1. pc = "wait" => rx'[nic] = rx[nic]
    BY <1>1, <1>4, <1>5 DEF ChipInv
  <2>2. pc = "wait" => (max_rt => losses > 0 \/ Len(rx'[Other(nic)]) = RxDepth)
    BY <1>4, <1>5 DEF SendInv
  <2>3. QED BY <1>1, <1>2, <2>1, <2>2 DEF SendInv, Other
<1>10. FaultInv' /\ (InGetPkts \/ pc \in Returns \cup {"expire"} => back \in Returns)'
  BY <1>1, <1>2 DEF FaultInv, InGetPkts, Fits
<1>11. QED BY <1>6, <1>7, <1>8, <1>9, <1>10

LEMMA TransmitKeeps ==
  ASSUME StopInv, Transmit
  PROVE  StopInv'
<1> USE DEF StopInv
<1>1. PICK n \in Nics, lost \in BOOLEAN, ackLost \in BOOLEAN :
        LET comes == ~lost /\ ~heard /\ mode[Other(n)] = "rx" /\ Len(rx[Other(n)]) < RxDepth
            done  == ~acked \/ (heard' /\ ~lost /\ ~ackLost)
        IN /\ Sending(n) /\ (acked \/ ~ackLost)
           /\ losses' = losses + (IF lost \/ ackLost THEN 1 ELSE 0)
           /\ heard' = (heard \/ comes)
           /\ IF comes THEN Arrives(Other(n), tx[n]) ELSE UNCHANGED <<rx, rx_dr, entered>>
           /\ tx' = IF done THEN [tx EXCEPT ![n] = None] ELSE tx
           /\ tx_ds' = (tx_ds \/ done)
           /\ tries' = IF done THEN tries ELSE tries + 1
           /\ max_rt' = (~done /\ tries' > Retran)
  BY DEF Transmit
<1>2. UNCHANGED <<acked, mode, recvq, pc, nic, back, cnt, hand, want, fault, nsent, strays>>
  BY DEF Transmit, driver
<1>3. /\ Other(n) \in Nics /\ Other(n) # n /\ nic \in Nics
      /\ mode[n] = "tx" /\ tx[n] \in Packet /\ tx[n] # None
  BY <1>1 DEF Other, Nics, Sending, StopTypes
<1>4. pc = "init" \/ (pc = "wait" /\ n = nic /\ mode[Other(n)] = "rx")
  BY <1>3 DEF ChipInv
<1>5. /\ rx' \in [Nics -> Seq(Packet)]
      /\ rx'[n] = rx[n]
      /\ \A m \in Nics : /\ Len(rx'[m]) <= RxDepth
                         /\ rx[m] # <<>> => rx'[m] # <<>>
                         /\ Len(rx[m]) = RxDepth => rx'[m] = rx[m]
  <2>1. CASE Arrives(Other(n), tx[n])
    BY <1>3, <2>1, ArrivalFacts
  <2>2. CASE UNCHANGED rx
    BY <1>3, <2>2 DEF StopTypes
  <2>3. QED BY <1>1, <2>1, <2>2
<1>6. StopTypes'
  <2>1. losses' \in Nat /\ tries' \in Nat /\ {heard', tx_ds', max_rt'} \subseteq BOOLEAN
    BY <1>1 DEF StopTypes
  <2>2. tx' \in [Nics -> Packet \cup {None}]
    BY <1>1 DEF StopTypes
  <2>3. QED BY <1>2, <1>5, <2>1, <2>2 DEF StopTypes
<1>7. ChipInv'
  <2>1. \A m \in Nics : tx[m] = None => tx'[m] = None
    BY <1>1 DEF StopTypes
  <2>2. QED BY <1>2, <2>1 DEF ChipInv
<1>8. GetPktsInv'
  BY <1>2, <1>4 DEF GetPktsInv, Returns
<1>9. SendInv'
  <2>1. CASE pc = "init"
    BY <1>2, <2>1 DEF SendInv
  <2>2. CASE pc = "wait" /\ n = nic /\ mode[Other(n)] = "rx"
    <3>1. ~tx_ds
      BY <1>3, <2>2 DEF SendInv
    <3>2. tx_ds' => tx'[nic] = None /\ ~max_rt'
      BY <1>1, <2>2, <3>1 DEF StopTypes
    <3>3. ASSUME max_rt' PROVE losses' > 0 \/ Len(rx'[Other(nic)]) = RxDepth
      <4>1. CASE lost \/ ackLost
        BY <1>1, <4>1 DEF StopTypes
      <4>2. CASE ~lost /\ ~ackLost
        <5>1. ~(~acked \/ (heard' /\ ~lost /\ ~ackLost))
          BY <1>1, <3>3
        <5>2. ~heard'
          BY <4>2, <5>1
        <5>3. ~(Len(rx[Other(n)]) < RxDepth)
          BY <1>1, <2>2, <4>2, <5>2
        <5>4. Len(rx[Other(n)]) = RxDepth
          <6> DEFINE l == Len(rx[Other(n)])
          <6>1. l \in Nat /\ l <= RxDepth
            BY <1>3, LenProperties DEF StopTypes
          <6> HIDE DEF l
          <6>2. ~(l < RxDepth) => l = RxDepth
            BY <6>1 DEF RxDepth
          <6>3. QED BY <5>3, <6>2 DEF l
        <5>5. QED BY <1>3, <1>5, <2>2, <5>4
      <4>3. QED BY <4>1, <4>2
    <3>4. acked => rx'[nic] = <<>>
      BY <1>5, <2>2 DEF SendInv
    <3>5. max_rt' => tries' > Retran
      BY <1>1
    <3>6. QED BY <1>2, <2>2, <3>2, <3>3, <3>4, <3>5 DEF SendInv, Other
  <2>3. QED BY <1>4, <2>1, <2>2
<1>10. FaultInv' /\ (InGetPkts \/ pc \in Returns \cup {"expire"} => back \in Returns)'
  <2>1. fault # "max_rt"
    <3>1. tries <= Retran /\ tries \in Nat /\ Retran \in Nat
      BY <1>1, NrfAssumption DEF Sending, StopTypes
    <3>2. QED BY <3>1 DEF FaultInv, SendInv
  <2>2. QED BY <1>2, <2>1 DEF FaultInv, InGetPkts, Fits
<1>11. QED BY <1>6, <1>7, <1>8, <1>9, <1>10

\* Pushing a packet leaves bytes in the queue.
LEMMA PushFacts ==
  ASSUME NEW q \in Seq(Byte), NEW p \in Packet
  PROVE  q \o BytesOf(p) \in Seq(Byte) /\ q \o BytesOf(p) # <<>>
<1>1. MsgBytes \in Nat /\ MsgBytes > 0
  BY NrfAssumption
<1>2. BytesOf(p) \in [1 .. MsgBytes -> Byte]
  BY DEF BytesOf, Byte
<1>3. BytesOf(p) \in Seq(Byte) /\ Len(BytesOf(p)) = MsgBytes
  BY <1>1, <1>2
<1>4. q \o BytesOf(p) \in Seq(Byte) /\ Len(q \o BytesOf(p)) = Len(q) + MsgBytes
  BY <1>3, ConcatProperties
<1>5. Len(q) \in Nat
  BY LenProperties
<1>6. QED BY <1>1, <1>4, <1>5, EmptySeq

LEMMA StopNext == StopInv /\ [Next]_vars => StopInv'
<1> SUFFICES ASSUME StopInv, [Next]_vars PROVE StopInv'
  OBVIOUS
<1> USE DEF StopInv, ChipInv, GetPktsInv, SendInv, FaultInv, InGetPkts, Returns,
            Goto, Panic, Running
<1>0. /\ nic \in Nics /\ rx[nic] \in Seq(Packet) /\ recvq[nic] \in Seq(Byte)
      /\ cnt \in Nat
  BY DEF StopTypes
<1>1. CASE CallSend
  BY <1>1 DEF CallSend, StopTypes, chips, counts
<1>2. CASE CallRead
  BY <1>2, NrfAssumption DEF CallRead, StopTypes, chips, counts, history
<1>3. CASE NrfInit
  <2>1. StopTypes'
    <3>1. <<>> \in Seq(Packet) /\ <<>> \in Seq(Byte) /\ Len(<<>>) = 0
      BY EmptySeq
    <3>2. /\ rx' = [rx EXCEPT ![nic] = <<>>] /\ tx' = [tx EXCEPT ![nic] = None]
          /\ recvq' = [recvq EXCEPT ![nic] = <<>>] /\ mode' = [mode EXCEPT ![nic] = "rx"]
      BY <1>3 DEF NrfInit, Flushed, None
    <3>3. /\ rx' \in [Nics -> Seq(Packet)] /\ recvq' \in [Nics -> Seq(Byte)]
          /\ tx' \in [Nics -> Packet \cup {None}]
          /\ mode' \in [Nics -> {"old", "rx", "tx"}]
      BY <3>1, <3>2 DEF StopTypes
    <3>4. \A n \in Nics : Len(rx'[n]) <= RxDepth
      BY <3>1, <3>2 DEF StopTypes, RxDepth
    <3>5. /\ nic' \in Nics /\ {acked', heard', tx_ds', max_rt'} \subseteq BOOLEAN
      BY <1>3 DEF NrfInit, StopTypes, Nics
    <3>6. QED BY <1>3, <3>3, <3>4, <3>5 DEF NrfInit, StopTypes, counts
  <2>2. ChipInv'
    BY <1>3 DEF NrfInit, StopTypes, Flushed, None, Nics
  <2>3. (GetPktsInv /\ SendInv /\ FaultInv)'
    BY <1>3 DEF NrfInit
  <2>4. (InGetPkts \/ pc \in Returns \cup {"expire"} => back \in Returns)'
    BY <1>3 DEF NrfInit
  <2>5. QED BY <2>1, <2>2, <2>3, <2>4
<1>4. CASE HasPacket
  BY <1>4 DEF HasPacket, StopTypes, chips, counts, history
<1>5. CASE GetPipeid
  BY <1>5 DEF GetPipeid, StopTypes, chips, counts, history
<1>6. CASE ReadPayload
  <2>1. Head(rx[nic]) \in Packet /\ Tail(rx[nic]) \in Seq(Packet)
        /\ Len(Tail(rx[nic])) = Len(rx[nic]) - 1 /\ Len(rx[nic]) \in Nat
    BY <1>0, <1>6, HeadTailProperties, LenProperties DEF ReadPayload
  <2>2. rx' \in [Nics -> Seq(Packet)] /\ \A n \in Nics : Len(rx'[n]) <= RxDepth
    BY <1>6, <2>1 DEF ReadPayload, StopTypes, RxDepth
  <2>3. QED BY <1>6, <2>1, <2>2 DEF ReadPayload, StopTypes, counts, history
<1>7. CASE PushPacket
  <2>1. CASE Fits
    <3>1. recvq' = [recvq EXCEPT ![nic] = recvq[nic] \o BytesOf(hand)]
      BY <1>7, <2>1 DEF PushPacket
    <3>2. recvq' \in [Nics -> Seq(Byte)] /\ recvq'[nic] # <<>>
      BY <1>0, <1>7, <3>1, PushFacts DEF PushPacket, StopTypes
    <3>3. QED BY <1>7, <2>1, <3>2 DEF PushPacket, StopTypes, chips, counts, history
  <2>2. CASE ~Fits
    BY <1>7, <2>2 DEF PushPacket, StopTypes, chips, counts, history, Fits
  <2>3. QED BY <2>1, <2>2
<1>8. CASE ClearRxIntr
  BY <1>8 DEF ClearRxIntr, StopTypes, counts, history
<1>9. CASE CheckMore
  BY <1>9 DEF CheckMore, More, StopTypes, chips, counts, history
<1>10. CASE TxMode
  <2>1. CASE cnt = 0
    <3>1. rx' = rx /\ tx' = tx /\ mode' = [mode EXCEPT ![nic] = "tx"]
      BY <1>10, <2>1 DEF TxMode, Drained
    <3>2. \A n \in Nics : mode'[n] = IF n = nic THEN "tx" ELSE "rx"
      BY <1>10, <3>1 DEF TxMode, StopTypes
    <3>3. StopTypes'
      BY <1>10, <3>1 DEF TxMode, StopTypes, counts, history
    <3>4. QED
      BY <1>10, <2>1, <3>1, <3>2, <3>3 DEF TxMode, Drained, counts, history
  <2>2. CASE cnt # 0
    BY <1>10, <2>2 DEF TxMode, Drained, StopTypes, counts, history
  <2>3. QED BY <2>1, <2>2
<1>11. CASE DoTx
  <2>1. tx[nic] = None
    BY <1>0, <1>11 DEF DoTx
  <2>2. <<nic, nsent>> \in Packet
    BY <1>0 DEF StopTypes, Packet, Nics
  <2>3. CASE acked /\ rx[nic] # <<>>
    BY <1>11, <2>1, <2>3 DEF DoTx, StopTypes, counts, history
  <2>4. CASE ~(acked /\ rx[nic] # <<>>)
    BY <1>11, <2>1, <2>2, <2>4 DEF DoTx, StopTypes, counts, history
  <2>5. QED BY <2>3, <2>4
<1>12. CASE SendDone
  <2>1. CASE tx_ds
    BY <1>12, <2>1 DEF SendDone, Succeeded, StopTypes, counts, history
  <2>2. CASE ~tx_ds
    <3>1. GivesUp
      BY <1>12, <2>2, EmptySeq DEF SendDone, Succeeded, RxDepth
    <3>2. QED BY <1>12, <2>2, <3>1 DEF SendDone, Succeeded, GivesUp, StopTypes, counts, history
  <2>3. QED BY <2>1, <2>2
<1>13. CASE ReadAvail
  <2>1. ~(cnt > 0 /\ recvq[nic] = <<>>)
    BY <1>13 DEF ReadAvail
  <2>2. CASE Enough
    <3>1. SubSeq(recvq[nic], want + 1, Len(recvq[nic])) \in Seq(Byte)
      <4>1. want + 1 \in Nat /\ want + 1 >= 1 /\ Len(recvq[nic]) \in Nat
        BY <1>0, LenProperties DEF StopTypes
      <4>2. \A i \in want + 1 .. Len(recvq[nic]) : recvq[nic][i] \in Byte
        BY <1>0, <4>1, ElementOfSeq
      <4>3. QED BY <4>1, <4>2, SubSeqProperties
    <3>2. recvq' \in [Nics -> Seq(Byte)]
      BY <1>13, <2>1, <2>2, <3>1 DEF ReadAvail, StopTypes
    <3>3. QED BY <1>13, <2>1, <2>2, <3>2 DEF ReadAvail, Return, StopTypes, chips, counts
  <2>3. CASE ~Enough
    BY <1>13, <2>1, <2>3 DEF ReadAvail, Return, StopTypes, chips, counts, history
  <2>4. QED BY <2>2, <2>3
<1>14. CASE Expire
  BY <1>14 DEF Expire, Return, StopTypes, chips, counts, history
<1>15. CASE ReadReturns
  BY <1>15 DEF ReadReturns, StopTypes, chips, counts, history
<1>16. CASE Transmit
  BY <1>16, TransmitKeeps
<1>17. CASE Stray
  BY <1>17, StrayKeeps
<1>18. CASE Reboot
  <2>1. recvq' \in [Nics -> Seq(Byte)]
    BY <1>18, EmptySeq DEF Reboot
  <2>2. QED BY <1>18, <2>1 DEF Reboot, StopTypes, chips, counts, history, Nics
<1>19. CASE UNCHANGED vars
  BY <1>19 DEF vars, chips, driver, counts, history, StopTypes, Fits, Other
<1>20. QED
  BY <1>1, <1>2, <1>3, <1>4, <1>5, <1>6, <1>7, <1>8, <1>9, <1>10, <1>11, <1>12,
     <1>13, <1>14, <1>15, <1>16, <1>17, <1>18, <1>19
     DEF Next, Driver, GetPkts

\* The program stops only for strangers, an unanswered packet, a full queue or
\* no traffic: no other assertion of the driver can fail.
THEOREM RadioStopsOnlyWhen == Spec => []StopsOnlyWhen
<1>1. ASSUME StopInv PROVE StopsOnlyWhen
  <2>1. Len(recvq[nic]) \in Nat /\ MsgBytes \in Nat /\ QueueMax \in Nat
    BY <1>1, NrfAssumption, LenProperties DEF StopInv, StopTypes
  <2>2. fault = "recvq_full" => Len(recvq[nic]) + MsgBytes > QueueMax
    BY <1>1, <2>1 DEF StopInv, FaultInv, Fits
  <2>3. fault = "max_rt" => losses > 0 \/ Len(rx[Other(nic)]) = RxDepth
    BY <1>1 DEF StopInv, FaultInv, SendInv
  <2>4. QED BY <1>1, <2>2, <2>3 DEF StopInv, FaultInv, StopsOnlyWhen
<1>2. QED BY StopInit, StopNext, <1>1, PTL DEF Spec

-----------------------------------------------------------------------------
(* Sequences.  Induction on a length takes the least counterexample.       *)

\* Every nonempty set of naturals has a least element.
LEMMA NatLeast ==
  ASSUME NEW T \in SUBSET Nat, T # {}
  PROVE  \E m \in T : \A n \in T : m <= n
<1> DEFINE Ups == {0 .. m : m \in T}
<1>1. Ups \subseteq FiniteSubsetsOf(Nat) /\ Ups # {}
  <2>1. \A m \in T : 0 .. m \subseteq Nat /\ IsFiniteSet(0 .. m)
    BY FS_Interval
  <2> QED BY <2>1 DEF FiniteSubsetsOf
<1>2. PICK U \in Ups : \A V \in Ups : ~ (<<V, U>> \in StrictSubsetOrdering(Nat))
  BY <1>1, FS_StrictSubsetOrderingWellFounded, WFMin
<1>3. PICK m \in T : U = 0 .. m
  OBVIOUS
<1>4. \A n \in T : m <= n
  <2> TAKE n \in T
  <2>1. <<0 .. n, 0 .. m>> \notin StrictSubsetOrdering(Nat)
    BY <1>2, <1>3
  <2>2. ~ (0 .. n \subseteq 0 .. m /\ 0 .. n # 0 .. m)
    BY <2>1 DEF StrictSubsetOrdering
  <2>3. n < m => (0 .. n \subseteq 0 .. m /\ m \in 0 .. m /\ m \notin 0 .. n)
    OBVIOUS
  <2> QED BY <2>2, <2>3
<1> QED BY <1>4


-----------------------------------------------------------------------------
(* Flattening a sequence of sequences.                                     *)

\* Three sequences append in either order.
LEMMA Associates ==
  ASSUME NEW E, NEW a \in Seq(E), NEW b \in Seq(E), NEW c \in Seq(E)
  PROVE  (a \o b) \o c = a \o (b \o c)
  BY ConcatAssociative

\* f flattens the first n elements of s, prefix by prefix.
IsFlat(f, s, n) ==
  f = [i \in 1 .. n |-> IF i = 1 THEN s[i] ELSE f[i - 1] \o s[i]]

LEMMA FlatExists ==
  ASSUME NEW s, NEW n \in Nat
  PROVE  \E f : IsFlat(f, s, n)
<1> DEFINE T == {m \in Nat : ~ \E f : IsFlat(f, s, m)}
<1>1. SUFFICES ASSUME T # {} PROVE FALSE
  OBVIOUS
<1>2. PICK m \in T : \A i \in T : m <= i
  BY <1>1, NatLeast
<1>3. m # 0
  <2>1. IsFlat([i \in 1 .. 0 |-> s], s, 0)
    BY DEF IsFlat
  <2> QED BY <2>1, <1>2
<1>4. PICK f : IsFlat(f, s, m - 1)
  BY <1>2, <1>3
<1> DEFINE g == [i \in 1 .. m |-> IF i = m THEN (IF m = 1 THEN s[m] ELSE f[m - 1] \o s[m]) ELSE f[i]]
<1>5. \A i \in 1 .. m : g[i] = IF i = 1 THEN s[i] ELSE g[i - 1] \o s[i]
  <2> TAKE i \in 1 .. m
  <2>1. ASSUME i # m PROVE g[i] = f[i] /\ f[i] = IF i = 1 THEN s[i] ELSE f[i - 1] \o s[i]
    <3>1. i \in 1 .. m - 1
      BY <2>1, <1>2
    <3> QED BY <1>4, <2>1, <3>1 DEF IsFlat
  <2>2. i # 1 => g[i - 1] = f[i - 1]
    OBVIOUS
  <2>3. i = m => g[i] = IF m = 1 THEN s[m] ELSE f[m - 1] \o s[m]
    OBVIOUS
  <2> HIDE DEF g
  <2> QED BY <2>1, <2>2, <2>3
<1>6. IsFlat(g, s, m)
  <2>1. g = [i \in 1 .. m |-> g[i]]
    OBVIOUS
  <2> HIDE DEF g
  <2> QED BY <1>5, <2>1, Zenon DEF IsFlat
<1> QED BY <1>2, <1>6

\* s and t agree on their first m elements, as far as t has n.
Agree(s, t, m, n) == \A i \in 1 .. m : i <= n => s[i] = t[i]

\* Two flattenings agree as far as the sequences do.
LEMMA FlatAgree ==
  ASSUME NEW m \in Nat, NEW n \in Nat, NEW s, NEW t, NEW f, NEW g,
         IsFlat(f, s, m), IsFlat(g, t, n), Agree(s, t, m, n)
  PROVE  Agree(f, g, m, n)
<1> DEFINE T == {i \in 1 .. m : i <= n /\ f[i] # g[i]}
<1>1. SUFFICES ASSUME T # {} PROVE FALSE
  BY DEF Agree
<1>2. T \in SUBSET Nat
  OBVIOUS
<1>3. PICK i \in T : \A j \in T : i <= j
  BY <1>1, <1>2, NatLeast
<1>4. i \in 1 .. m /\ i \in 1 .. n /\ s[i] = t[i]
  BY DEF Agree
<1>5. f[i] = (IF i = 1 THEN s[i] ELSE f[i - 1] \o s[i]) /\ g[i] = IF i = 1 THEN t[i] ELSE g[i - 1] \o t[i]
  BY <1>4 DEF IsFlat
<1>6. i # 1 => f[i - 1] = g[i - 1]
  BY <1>3, <1>4
<1> QED BY <1>4, <1>5, <1>6

\* Flattening keeps the type of the elements.
LEMMA FlatType ==
  ASSUME NEW E, NEW s \in Seq(Seq(E)), NEW f, IsFlat(f, s, Len(s))
  PROVE  \A i \in 1 .. Len(s) : f[i] \in Seq(E)
<1> DEFINE T == {i \in 1 .. Len(s) : f[i] \notin Seq(E)}
<1>1. SUFFICES ASSUME T # {} PROVE FALSE
  OBVIOUS
<1>2. T \in SUBSET Nat
  OBVIOUS
<1>3. PICK i \in T : \A j \in T : i <= j
  BY <1>1, <1>2, NatLeast
<1>4. i \in 1 .. Len(s) /\ s[i] \in Seq(E)
  BY ElementOfSeq
<1>5. f[i] = IF i = 1 THEN s[i] ELSE f[i - 1] \o s[i]
  BY <1>4 DEF IsFlat
<1>6. i # 1 => f[i - 1] \in Seq(E)
  BY <1>3, <1>4
<1>7. i # 1 => f[i - 1] \o s[i] \in Seq(E)
  BY <1>4, <1>6, ConcatProperties
<1> QED BY <1>4, <1>5, <1>7

LEMMA FlattenIsFlat ==
  ASSUME NEW E, NEW s \in Seq(E)
  PROVE  IF s = <<>> THEN FlattenSeq(s) = <<>>
                     ELSE \E f : IsFlat(f, s, Len(s)) /\ FlattenSeq(s) = f[Len(s)]
<1>1. Len(s) \in Nat /\ (Len(s) = 0 <=> s = <<>>)
  BY LenProperties, EmptySeq
<1>2. CASE s = <<>>
  BY <1>1, <1>2, Zenon DEF FlattenSeq
<1>3. CASE s # <<>>
  <2> DEFINE f == CHOOSE f : IsFlat(f, s, Len(s))
  <2>1. IsFlat(f, s, Len(s))
    BY <1>1, FlatExists, Zenon
  <2>2. FlattenSeq(s) = f[Len(s)]
    BY <1>1, <1>3, Zenon DEF FlattenSeq, IsFlat
  <2> QED BY <1>3, <2>1, <2>2, Zenon
<1> QED BY <1>2, <1>3

LEMMA FlattenType ==
  ASSUME NEW E, NEW s \in Seq(Seq(E))
  PROVE  FlattenSeq(s) \in Seq(E)
<1>1. CASE s = <<>>
  BY <1>1, FlattenIsFlat, EmptySeq
<1>2. CASE s # <<>>
  <2>1. PICK f : IsFlat(f, s, Len(s)) /\ FlattenSeq(s) = f[Len(s)]
    BY <1>2, FlattenIsFlat
  <2>2. Len(s) \in 1 .. Len(s)
    BY <1>2, LenProperties, EmptySeq
  <2> QED BY <2>1, <2>2, FlatType
<1> QED BY <1>1, <1>2

\* A sequence longer by one flattens to what it did, and the last element.
LEMMA FlattenAppend ==
  ASSUME NEW E, NEW s \in Seq(Seq(E)), NEW x \in Seq(E)
  PROVE  FlattenSeq(Append(s, x)) = FlattenSeq(s) \o x
<1> DEFINE t == Append(s, x)
<1>1. /\ t \in Seq(Seq(E)) /\ Len(t) = Len(s) + 1 /\ t[Len(s) + 1] = x /\ t # <<>>
      /\ \A i \in 1 .. Len(s) : t[i] = s[i]
      /\ Len(s) \in Nat /\ (Len(s) = 0 <=> s = <<>>)
  BY AppendProperties, LenProperties, EmptySeq
<1> HIDE DEF t
<1>2. PICK g : IsFlat(g, t, Len(t)) /\ FlattenSeq(t) = g[Len(t)]
  BY <1>1, FlattenIsFlat
<1>3. Len(t) \in 1 .. Len(t)
  BY <1>1
<1>4. g[Len(t)] = IF Len(t) = 1 THEN t[Len(t)] ELSE g[Len(t) - 1] \o t[Len(t)]
  BY <1>2, <1>3 DEF IsFlat
<1>5. CASE s = <<>>
  <2>1. FlattenSeq(s) = <<>>
    BY <1>5, FlattenIsFlat
  <2>2. FlattenSeq(t) = x /\ <<>> \o x = x
    BY <1>1, <1>2, <1>4, <1>5, ConcatEmptySeq
  <2> QED BY <2>1, <2>2 DEF t
<1>6. CASE s # <<>>
  <2>1. PICK f : IsFlat(f, s, Len(s)) /\ FlattenSeq(s) = f[Len(s)]
    BY <1>6, FlattenIsFlat
  <2>2. Agree(f, g, Len(s), Len(t))
    <3>1. Agree(s, t, Len(s), Len(t))
      BY <1>1 DEF Agree
    <3>2. Len(s) \in Nat /\ Len(t) \in Nat
      BY <1>1
    <3>3. IsFlat(f, s, Len(s)) /\ IsFlat(g, t, Len(t))
      BY <1>2, <2>1
    <3> QED BY <3>1, <3>2, <3>3, FlatAgree, Zenon
  <2>3. f[Len(s)] = g[Len(s)]
    BY <1>1, <1>6, <2>2 DEF Agree
  <2>4. FlattenSeq(t) = g[Len(s)] \o x
    <3>1. Len(t) # 1 /\ Len(t) - 1 = Len(s) /\ t[Len(t)] = x
      BY <1>1, <1>6
    <3> QED BY <1>2, <1>4, <3>1
  <2> QED BY <2>1, <2>3, <2>4 DEF t
<1> QED BY <1>5, <1>6

\* t is s without its first element, and g what it flattens to.
Shifted(s, t, g, n, E) == s[1] \in Seq(E) /\
  \A i \in 1 .. n : t[i] = s[i + 1] /\ t[i] \in Seq(E) /\ g[i] \in Seq(E)

Prefixed(f, x, g, n) == \A i \in 1 .. n : f[i + 1] = x \o g[i]

\* Flattening a sequence without its first element lacks that element.
LEMMA FlatShift ==
  ASSUME NEW E, NEW n \in Nat, NEW s, NEW t, NEW f, NEW g,
         IsFlat(f, s, n + 1), IsFlat(g, t, n), Shifted(s, t, g, n, E)
  PROVE  Prefixed(f, s[1], g, n)
<1> DEFINE T == {i \in 1 .. n : f[i + 1] # s[1] \o g[i]}
<1>1. SUFFICES ASSUME T # {} PROVE FALSE
  BY DEF Prefixed
<1>2. T \in SUBSET Nat
  <2>1. 1 .. n \subseteq Nat
    OBVIOUS
  <2> QED BY <2>1, Zenon
<1>3. PICK i \in T : \A j \in T : i <= j
  BY <1>1, <1>2, NatLeast
<1>4. i \in 1 .. n /\ i + 1 \in 1 .. n + 1 /\ i \in 1 .. n + 1 /\ 1 \in 1 .. n + 1
      /\ i + 1 # 1 /\ (i + 1) - 1 = i
  OBVIOUS
<1>5. f[i + 1] = f[i] \o s[i + 1] /\ f[1] = s[1] /\ t[i] = s[i + 1]
  BY <1>4, ZenonT(60) DEF IsFlat, Shifted
<1>6. g[i] = IF i = 1 THEN t[i] ELSE g[i - 1] \o t[i]
  BY <1>4 DEF IsFlat
<1>7. CASE i = 1
  BY <1>4, <1>5, <1>6, <1>7
<1>8. CASE i # 1
  <2>1. i - 1 \in 1 .. n /\ (i - 1) + 1 = i /\ ~ (i <= i - 1)
    BY <1>4, <1>8
  <2>a. i - 1 \notin T
    BY <1>3, <2>1, Zenon
  <2>2. f[i] = s[1] \o g[i - 1]
    BY <2>1, <2>a
  <2>3. t[i] \in Seq(E) /\ g[i - 1] \in Seq(E)
    BY <1>4, <2>1 DEF Shifted
  <2>4. (s[1] \o g[i - 1]) \o t[i] = s[1] \o (g[i - 1] \o t[i])
    <3> DEFINE a == s[1]
               b == g[i - 1]
               c == t[i]
    <3>1. a \in Seq(E) /\ b \in Seq(E) /\ c \in Seq(E)
      BY <2>3 DEF Shifted
    <3> HIDE DEF a, b, c
    <3>2. (a \o b) \o c = a \o (b \o c)
      BY <3>1, Associates, SMTT(30)
    <3> QED BY <3>2 DEF a, b, c
  <2> QED BY <1>4, <1>5, <1>6, <1>8, <2>2, <2>4
<1> QED BY <1>7, <1>8

\* A nonempty sequence flattens to its head and what its tail flattens to.
LEMMA FlattenHead ==
  ASSUME NEW E, NEW s \in Seq(Seq(E)), s # <<>>
  PROVE  FlattenSeq(s) = Head(s) \o FlattenSeq(Tail(s))
<1>1. PICK t : t = Tail(s)
  OBVIOUS
<1>2. PICK n : n = Len(t)
  OBVIOUS
<1>3. Len(s) \in Nat /\ Len(s) # 0
  BY LenProperties, EmptySeq
<1>4. t \in Seq(Seq(E)) /\ Len(t) = Len(s) - 1 /\ Head(s) = s[1]
  BY <1>1, HeadTailProperties
<1>5. s[1] \in Seq(E)
  BY <1>3, ElementOfSeq
<1>6. \A i \in 1 .. n : t[i] = s[i + 1]
  BY <1>1, <1>2, HeadTailProperties
<1>7. n \in Nat /\ Len(s) = n + 1
  BY <1>2, <1>3, <1>4
<1>8. n = 0 <=> t = <<>>
  BY <1>2, <1>4, EmptySeq
<1>9. \A i \in 1 .. n : t[i] \in Seq(E)
  BY <1>2, <1>4, <1>7, ElementOfSeq
<1>10. PICK f : IsFlat(f, s, n + 1) /\ FlattenSeq(s) = f[n + 1]
  BY <1>7, FlattenIsFlat
<1>11. CASE n = 0
  <2>1. FlattenSeq(t) = <<>>
    BY <1>4, <1>8, <1>11, FlattenIsFlat
  <2>2. f[1] = s[1]
    BY <1>10, <1>11 DEF IsFlat
  <2>3. s[1] \o <<>> = s[1]
    BY <1>5, ConcatEmptySeq
  <2> QED BY <1>1, <1>4, <1>10, <1>11, <2>1, <2>2, <2>3
<1>12. CASE n # 0
  <2>1. PICK g : IsFlat(g, t, n) /\ FlattenSeq(t) = g[n]
    BY <1>2, <1>4, <1>8, <1>12, FlattenIsFlat
  <2>2. \A i \in 1 .. n : g[i] \in Seq(E)
    BY <1>2, <1>4, <2>1, FlatType
  <2>3. n \in 1 .. n
    BY <1>7, <1>12
  <2>4. IsFlat(f, s, n + 1) /\ IsFlat(g, t, n)
    BY <1>10, <2>1
  <2>5. f[n + 1] = s[1] \o g[n]
    <3>1. Shifted(s, t, g, n, E)
      BY <1>5, <1>6, <1>9, <2>2 DEF Shifted
    <3>2. n \in Nat
      BY <1>7
    <3>3. Prefixed(f, s[1], g, n)
      BY <2>4, <3>1, <3>2, FlatShift, Zenon
    <3> QED BY <2>3, <3>3 DEF Prefixed
  <2> QED BY <1>1, <1>4, <1>10, <2>1, <2>3, <2>5
<1> QED BY <1>11, <1>12

-----------------------------------------------------------------------------
Lists(P, E) == [P -> Seq(E)]

\* g of each element of ps, one after the other.
Mapped(ps, g) == [i \in DOMAIN ps |-> g[ps[i]]]

LEMMA MappedType ==
  ASSUME NEW P, NEW E, NEW g \in Lists(P, E), NEW ps \in Seq(P)
  PROVE  Mapped(ps, g) \in Seq(Seq(E)) /\ Len(Mapped(ps, g)) = Len(ps)
<1>1. Len(ps) \in Nat /\ DOMAIN ps = 1 .. Len(ps)
  BY LenProperties
<1>2. \A i \in 1 .. Len(ps) : ps[i] \in P
  BY ElementOfSeq
<1>3. Mapped(ps, g) \in [1 .. Len(ps) -> Seq(E)]
  BY <1>1, <1>2 DEF Mapped, Lists
<1> QED BY <1>1, <1>3

LEMMA MappedNone ==
  ASSUME NEW P, NEW E, NEW g \in Lists(P, E)
  PROVE  FlattenSeq(Mapped(<<>>, g)) = <<>>
<1>1. <<>> \in Seq(P) /\ Len(<<>>) = 0
  BY EmptySeq
<1>0. \A q \in Seq(P) : Mapped(q, g) \in Seq(Seq(E)) /\ Len(Mapped(q, g)) = Len(q)
  BY MappedType
<1>2. Mapped(<<>>, g) \in Seq(Seq(E)) /\ Len(Mapped(<<>>, g)) = 0
  BY <1>0, <1>1
<1>3. Mapped(<<>>, g) = <<>>
  BY <1>2, EmptySeq
<1> QED BY <1>1, <1>3, FlattenIsFlat

\* A list longer by one says what it did, and then what the new element says.
LEMMA MappedAppend ==
  ASSUME NEW P, NEW E, NEW g \in Lists(P, E), NEW ps \in Seq(P), NEW p \in P
  PROVE  FlattenSeq(Mapped(Append(ps, p), g)) = FlattenSeq(Mapped(ps, g)) \o g[p]
<1>1. PICK qs : qs = Append(ps, p)
  OBVIOUS
<1>2. /\ qs \in Seq(P) /\ Len(qs) = Len(ps) + 1 /\ qs[Len(ps) + 1] = p
      /\ \A i \in 1 .. Len(ps) : qs[i] = ps[i]
      /\ Len(ps) \in Nat /\ DOMAIN ps = 1 .. Len(ps) /\ DOMAIN qs = 1 .. Len(ps) + 1
  BY <1>1, AppendProperties, LenProperties
<1>3. PICK m : m = Mapped(ps, g)
  OBVIOUS
<1>4. PICK n : n = Mapped(qs, g)
  OBVIOUS
<1>5. /\ m \in Seq(Seq(E)) /\ Len(m) = Len(ps) /\ n \in Seq(Seq(E)) /\ Len(n) = Len(qs)
      /\ g[p] \in Seq(E)
  <2>1. \A q \in Seq(P) : Mapped(q, g) \in Seq(Seq(E)) /\ Len(Mapped(q, g)) = Len(q)
    BY MappedType
  <2> QED BY <1>2, <1>3, <1>4, <2>1 DEF Lists
<1>6. \A i \in 1 .. Len(ps) : m[i] = g[ps[i]]
  BY <1>2, <1>3 DEF Mapped
<1>7. \A i \in 1 .. Len(ps) + 1 : n[i] = g[qs[i]]
  BY <1>2, <1>4 DEF Mapped
<1>8. PICK k : k = Append(m, g[p])
  OBVIOUS
<1>9. /\ k \in Seq(Seq(E)) /\ Len(k) = Len(ps) + 1 /\ k[Len(ps) + 1] = g[p]
      /\ \A i \in 1 .. Len(ps) : k[i] = m[i]
  BY <1>5, <1>8, AppendProperties
<1>10. \A i \in 1 .. Len(n) : n[i] = k[i]
  <2> TAKE i \in 1 .. Len(n)
  <2>1. i \in 1 .. Len(ps) \/ i = Len(ps) + 1
    BY <1>2, <1>5
  <2> QED BY <1>2, <1>6, <1>7, <1>9, <2>1
<1>11. n = k
  BY <1>2, <1>5, <1>9, <1>10, SeqEqual
<1>12. FlattenSeq(k) = FlattenSeq(m) \o g[p]
  BY <1>5, <1>8, FlattenAppend
<1> QED BY <1>1, <1>3, <1>4, <1>11, <1>12

\* ... and a nonempty one says what its head says, and then what its tail does.
LEMMA MappedHead ==
  ASSUME NEW P, NEW E, NEW g \in Lists(P, E), NEW ps \in Seq(P), ps # <<>>
  PROVE  FlattenSeq(Mapped(ps, g)) = g[Head(ps)] \o FlattenSeq(Mapped(Tail(ps), g))
<1>1. PICK qs : qs = Tail(ps)
  OBVIOUS
<1>2. /\ qs \in Seq(P) /\ Len(qs) = Len(ps) - 1 /\ Head(ps) = ps[1]
      /\ \A i \in 1 .. Len(qs) : qs[i] = ps[i + 1]
  BY <1>1, HeadTailProperties
<1>3. /\ Len(ps) \in Nat /\ Len(ps) # 0 /\ Len(qs) \in Nat
      /\ DOMAIN ps = 1 .. Len(ps) /\ DOMAIN qs = 1 .. Len(qs)
  BY <1>2, LenProperties, EmptySeq
<1>4. PICK m : m = Mapped(ps, g)
  OBVIOUS
<1>5. PICK n : n = Mapped(qs, g)
  OBVIOUS
<1>6. /\ m \in Seq(Seq(E)) /\ Len(m) = Len(ps) /\ n \in Seq(Seq(E)) /\ Len(n) = Len(qs)
  <2>1. \A q \in Seq(P) : Mapped(q, g) \in Seq(Seq(E)) /\ Len(Mapped(q, g)) = Len(q)
    BY MappedType
  <2> QED BY <1>2, <1>4, <1>5, <2>1
<1>7. \A i \in 1 .. Len(ps) : m[i] = g[ps[i]]
  BY <1>3, <1>4 DEF Mapped
<1>8. \A i \in 1 .. Len(qs) : n[i] = g[qs[i]]
  BY <1>3, <1>5 DEF Mapped
<1>9. m # <<>>
  BY <1>3, <1>6, EmptySeq
<1>10. PICK k : k = Tail(m)
  OBVIOUS
<1>11. /\ k \in Seq(Seq(E)) /\ Len(k) = Len(m) - 1 /\ Head(m) = m[1]
       /\ \A i \in 1 .. Len(k) : k[i] = m[i + 1]
  BY <1>6, <1>9, <1>10, HeadTailProperties
<1>12. Len(n) = Len(k)
  BY <1>2, <1>3, <1>6, <1>11
<1>13. \A i \in 1 .. Len(n) : n[i] = k[i]
  <2> TAKE i \in 1 .. Len(n)
  <2>1. i \in 1 .. Len(qs) /\ i \in 1 .. Len(k) /\ i + 1 \in 1 .. Len(ps)
    BY <1>2, <1>3, <1>6, <1>12
  <2> QED BY <1>2, <1>7, <1>8, <1>11, <2>1
<1>14. n = k
  BY <1>6, <1>11, <1>12, <1>13, SeqEqual
<1>15. FlattenSeq(m) = Head(m) \o FlattenSeq(k)
  BY <1>6, <1>9, <1>10, FlattenHead
<1>16. Head(m) = g[Head(ps)]
  BY <1>2, <1>3, <1>7, <1>11
<1> QED BY <1>1, <1>4, <1>5, <1>14, <1>15, <1>16

-----------------------------------------------------------------------------
(* The bytes of packets.                                                   *)

LEMMA BytesType ==
  ASSUME NEW p \in Packet
  PROVE  BytesOf(p) \in Seq(Byte) /\ Len(BytesOf(p)) = MsgBytes
<1>1. MsgBytes \in Nat /\ MsgBytes > 0
  BY NrfAssumption
<1>2. BytesOf(p) \in [1 .. MsgBytes -> Byte]
  BY DEF BytesOf, Byte
<1> QED BY <1>1, <1>2

BytesFn == [p \in Packet |-> BytesOf(p)]

LEMMA BytesAreMapped ==
  /\ BytesFn \in Lists(Packet, Byte)
  /\ \A ps \in Seq(Packet) : BytesOfAll(ps) = FlattenSeq(Mapped(ps, BytesFn))
<1>1. BytesFn \in Lists(Packet, Byte)
  BY BytesType DEF BytesFn, Lists
<1>2. ASSUME NEW ps \in Seq(Packet) PROVE BytesOfAll(ps) = FlattenSeq(Mapped(ps, BytesFn))
  <2>1. \A i \in DOMAIN ps : ps[i] \in Packet
    BY LenProperties, ElementOfSeq
  <2>2. \A i \in DOMAIN ps : BytesOf(ps[i]) = BytesFn[ps[i]]
    BY <2>1 DEF BytesFn
  <2>3. [i \in DOMAIN ps |-> BytesOf(ps[i])] = Mapped(ps, BytesFn)
    BY <2>2, Zenon DEF Mapped
  <2> QED BY <2>3 DEF BytesOfAll
<1> QED BY <1>1, <1>2

LEMMA BytesOfAllFacts ==
  /\ BytesOfAll(<<>>) = <<>>
  /\ \A ps \in Seq(Packet) : BytesOfAll(ps) \in Seq(Byte)
  /\ \A ps \in Seq(Packet), p \in Packet :
       BytesOfAll(Append(ps, p)) = BytesOfAll(ps) \o BytesOf(p)
  /\ \A ps \in Seq(Packet) : ps # <<>> =>
       BytesOfAll(ps) = BytesOf(Head(ps)) \o BytesOfAll(Tail(ps))
<1>1. BytesOfAll(<<>>) = <<>>
  <2>1. <<>> \in Seq(Packet)
    BY EmptySeq
  <2> QED BY <2>1, BytesAreMapped, MappedNone
<1>2. ASSUME NEW ps \in Seq(Packet) PROVE BytesOfAll(ps) \in Seq(Byte)
  <2>1. Mapped(ps, BytesFn) \in Seq(Seq(Byte))
    BY BytesAreMapped, MappedType
  <2> QED BY <2>1, BytesAreMapped, FlattenType
<1>3. ASSUME NEW ps \in Seq(Packet), NEW p \in Packet
      PROVE  BytesOfAll(Append(ps, p)) = BytesOfAll(ps) \o BytesOf(p)
  <2>1. Append(ps, p) \in Seq(Packet)
    BY AppendProperties
  <2>2. BytesFn[p] = BytesOf(p)
    BY DEF BytesFn
  <2>3. FlattenSeq(Mapped(Append(ps, p), BytesFn)) = FlattenSeq(Mapped(ps, BytesFn)) \o BytesFn[p]
    BY BytesAreMapped, MappedAppend
  <2> QED BY <2>1, <2>2, <2>3, BytesAreMapped
<1>4. ASSUME NEW ps \in Seq(Packet), ps # <<>>
      PROVE  BytesOfAll(ps) = BytesOf(Head(ps)) \o BytesOfAll(Tail(ps))
  <2>1. Tail(ps) \in Seq(Packet) /\ Head(ps) \in Packet
    BY <1>4, HeadTailProperties
  <2>2. BytesFn[Head(ps)] = BytesOf(Head(ps))
    BY <2>1 DEF BytesFn
  <2>3. FlattenSeq(Mapped(ps, BytesFn)) = BytesFn[Head(ps)] \o FlattenSeq(Mapped(Tail(ps), BytesFn))
    BY <1>4, BytesAreMapped, MappedHead
  <2> QED BY <2>1, <2>2, <2>3, BytesAreMapped
<1> QED BY <1>1, <1>2, <1>3, <1>4

-----------------------------------------------------------------------------
(* Bytes.                                                                  *)

\* The chips this session has configured.
Booted(n) == pc # "init" \/ n < nic

ByteTypes ==
  /\ entered \in [Nics -> Seq(Packet)] /\ out \in [Nics -> Seq(Byte)]
  /\ tries \in 0 .. Retran + 1 /\ \A n \in Nics : Len(recvq[n]) <= QueueMax

\* What clients have read, the queue, the driver's hand and the FIFO hold, one
\* after the other, the bytes the chip has accepted.
Kept(n) == out[n] \o recvq[n] \o Holding(n) \o BytesOfAll(rx[n])

Conserved == \A n \in Nics : Booted(n) => BytesOfAll(entered[n]) = Kept(n)

ByteInv ==
  /\ ByteTypes
  /\ hand # None => pc = "push"
  /\ pc = "init" => \A n \in Nics : out[n] = <<>> /\ recvq[n] = <<>>
  /\ Conserved

LEMMA ByteInit == Init => ByteInv
<1> SUFFICES ASSUME Init PROVE ByteInv
  OBVIOUS
<1>1. <<>> \in Seq(Packet) /\ <<>> \in Seq(Byte) /\ Len(<<>>) = 0
  BY EmptySeq
<1>2. ByteTypes
  BY <1>1, NrfAssumption DEF Init, ByteTypes
<1>3. Conserved
  BY DEF Init, Conserved, Booted, Nics
<1> QED BY <1>2, <1>3 DEF Init, ByteInv

\* A step that moves no byte.
LEMMA NothingMoves ==
  ASSUME ByteInv, UNCHANGED <<entered, out, recvq, rx, hand>>, tries' \in 0 .. Retran + 1,
         pc # "init", pc' # "init", hand # None => pc' = "push" /\ nic' = nic
  PROVE  ByteInv'
<1>1. ByteTypes'
  BY DEF ByteInv, ByteTypes
<1>2. Conserved'
  <2> SUFFICES ASSUME NEW n \in Nics PROVE BytesOfAll(entered'[n]) = Kept(n)'
    BY DEF Conserved
  <2>1. Holding(n)' = Holding(n)
    BY DEF Holding
  <2>2. BytesOfAll(entered[n]) = Kept(n)
    BY DEF ByteInv, Conserved, Booted
  <2>3. Kept(n)' = Kept(n)
    BY <2>1, Zenon DEF Kept
  <2> QED BY <2>2, <2>3
<1> QED BY <1>1, <1>2 DEF ByteInv

\* What the driver takes from the FIFO it holds.
LEMMA Taken ==
  ASSUME NEW E, NEW o \in Seq(E), NEW q \in Seq(E), NEW h \in Seq(E), NEW b \in Seq(E)
  PROVE  ((o \o q) \o <<>>) \o (h \o b) = ((o \o q) \o h) \o b
<1>1. PICK r : r = o \o q
  OBVIOUS
<1>2. r \in Seq(E)
  BY <1>1, ConcatProperties
<1>3. r \o <<>> = r
  BY <1>2, ConcatEmptySeq
<1>4. (r \o h) \o b = r \o (h \o b)
  BY <1>2, Associates, SMTT(30)
<1> QED BY <1>1, <1>3, <1>4, Zenon

\* What it held it pushes to the queue.
LEMMA Pushed ==
  ASSUME NEW E, NEW o \in Seq(E), NEW q \in Seq(E), NEW h \in Seq(E), NEW b
  PROVE  ((o \o (q \o h)) \o <<>>) \o b = ((o \o q) \o h) \o b
<1>1. PICK r : r = o \o (q \o h)
  OBVIOUS
<1>2. r \in Seq(E)
  BY <1>1, ConcatProperties
<1>3. r \o <<>> = r
  BY <1>2, ConcatEmptySeq
<1>4. (o \o q) \o h = o \o (q \o h)
  BY Associates, SMTT(30)
<1> QED BY <1>1, <1>3, <1>4, Zenon

\* What is read from a queue and what stays in it are what it held.
LEMMA Splits ==
  ASSUME NEW E, NEW q \in Seq(E), NEW w \in Nat, w <= Len(q)
  PROVE  /\ SubSeq(q, 1, w) \in Seq(E) /\ SubSeq(q, w + 1, Len(q)) \in Seq(E)
         /\ Len(SubSeq(q, w + 1, Len(q))) <= Len(q)
         /\ SubSeq(q, 1, w) \o SubSeq(q, w + 1, Len(q)) = q
<1>1. Len(q) \in Nat
  BY LenProperties
<1>2. \A i \in 1 .. Len(q) : q[i] \in E
  BY ElementOfSeq
<1>3. PICK a : a = SubSeq(q, 1, w)
  OBVIOUS
<1>4. PICK b : b = SubSeq(q, w + 1, Len(q))
  OBVIOUS
<1>5. a \in Seq(E) /\ Len(a) = w /\ \A i \in 1 .. w : a[i] = q[i]
  BY <1>1, <1>2, <1>3, SubSeqProperties
<1>6. b \in Seq(E) /\ Len(b) = Len(q) - w /\ \A i \in 1 .. Len(q) - w : b[i] = q[w + i]
  BY <1>1, <1>2, <1>4, SubSeqProperties
<1>7. PICK c : c = a \o b
  OBVIOUS
<1>8. c \in Seq(E) /\ Len(c) = Len(q) /\ \A i \in 1 .. Len(q) : c[i] = IF i <= w THEN a[i] ELSE b[i - w]
  BY <1>1, <1>5, <1>6, <1>7, ConcatProperties
<1>9. \A i \in 1 .. Len(q) : c[i] = q[i]
  <2> TAKE i \in 1 .. Len(q)
  <2>1. CASE i <= w
    BY <1>5, <1>8, <2>1
  <2>2. CASE ~ (i <= w)
    <3>1. i - w \in 1 .. Len(q) - w /\ w + (i - w) = i
      BY <1>1, <2>2
    <3> QED BY <1>6, <1>8, <2>2, <3>1
  <2> QED BY <2>1, <2>2
<1>10. c = q
  BY <1>8, <1>9, SeqEqual
<1>11. Len(b) <= Len(q)
  BY <1>1, <1>6
<1>12. a \in Seq(E) /\ b \in Seq(E) /\ a \o b = q
  BY <1>5, <1>6, <1>7, <1>10
<1> QED BY <1>3, <1>4, <1>11, <1>12, Zenon

LEMMA PacketIsSome ==
  ASSUME NEW p \in Packet
  PROVE  p # None
<1>1. PICK a \in 0 .. 2, k \in Nat : p = <<a, k>>
  BY DEF Packet
<1>2. Len(p) = 2 /\ Len(<<>>) = 0
  BY <1>1
<1> QED BY <1>2 DEF None

\* A chip's parts are sequences, and its queue within its bounds.
LEMMA PartTypes ==
  ASSUME StopInv, ByteInv, NEW n \in Nics
  PROVE  /\ out[n] \in Seq(Byte) /\ recvq[n] \in Seq(Byte) /\ rx[n] \in Seq(Packet)
         /\ entered[n] \in Seq(Packet) /\ BytesOfAll(rx[n]) \in Seq(Byte)
         /\ Holding(n) \in Seq(Byte)
         /\ Len(recvq[n]) \in Nat /\ Len(recvq[n]) <= QueueMax
<1>1. out[n] \in Seq(Byte) /\ entered[n] \in Seq(Packet) /\ Len(recvq[n]) <= QueueMax
  BY DEF ByteInv, ByteTypes
<1>2. recvq[n] \in Seq(Byte) /\ rx[n] \in Seq(Packet)
  BY DEF StopInv, StopTypes
<1>3. BytesOfAll(rx[n]) \in Seq(Byte)
  BY <1>2, BytesOfAllFacts
<1>4. Holding(n) \in Seq(Byte)
  <2>1. hand # None => hand \in Packet
    BY DEF ByteInv, StopInv, GetPktsInv
  <2>2. hand # None => BytesOf(hand) \in Seq(Byte)
    BY <2>1, BytesType
  <2>3. <<>> \in Seq(Byte)
    BY EmptySeq
  <2> QED BY <2>2, <2>3 DEF Holding
<1> QED BY <1>1, <1>2, <1>3, <1>4, LenProperties

\* A packet that reaches a chip adds its bytes at both ends of the equation.
LEMMA ArrivalKeepsBytes ==
  ASSUME StopInv, ByteInv, NEW m \in Nics, NEW p \in Packet, Arrives(m, p),
         UNCHANGED <<out, recvq, hand, pc, nic>>, tries' \in 0 .. Retran + 1
  PROVE  ByteInv'
<1>1. CASE ~ (mode[m] = "rx" /\ Len(rx[m]) < RxDepth)
  <2>1. UNCHANGED <<rx, entered>>
    BY <1>1 DEF Arrives
  <2>2. ByteTypes'
    BY <2>1 DEF ByteInv, ByteTypes
  <2>3. Conserved'
    <3> SUFFICES ASSUME NEW n \in Nics, Booted(n)' PROVE BytesOfAll(entered'[n]) = Kept(n)'
      BY DEF Conserved
    <3>1. Holding(n)' = Holding(n) /\ Booted(n)
      BY DEF Holding, Booted
    <3>2. Kept(n)' = Kept(n)
      BY <2>1, <3>1, Zenon DEF Kept
    <3> QED BY <2>1, <3>1, <3>2 DEF ByteInv, Conserved
  <2> QED BY <2>2, <2>3 DEF ByteInv
<1>2. CASE mode[m] = "rx" /\ Len(rx[m]) < RxDepth
  <2>1. rx' = [rx EXCEPT ![m] = Append(rx[m], p)] /\ entered' = [entered EXCEPT ![m] = Append(entered[m], p)]
    BY <1>2 DEF Arrives
  <2>2. Append(entered[m], p) \in Seq(Packet)
    BY PartTypes, AppendProperties
  <2>3. ByteTypes'
    BY <2>1, <2>2 DEF ByteInv, ByteTypes
  <2>4. Conserved'
    <3> SUFFICES ASSUME NEW n \in Nics, Booted(n)' PROVE BytesOfAll(entered'[n]) = Kept(n)'
      BY DEF Conserved
    <3>1. Holding(n)' = Holding(n) /\ Booted(n)
      BY DEF Holding, Booted
    <3>2. BytesOfAll(entered[n]) = Kept(n)
      BY <3>1 DEF ByteInv, Conserved
    <3>3. CASE n = m
      <4>1. rx'[n] = Append(rx[n], p) /\ entered'[n] = Append(entered[n], p)
        BY <2>1, <3>3 DEF ByteInv, ByteTypes, StopInv, StopTypes
      <4>2. /\ BytesOfAll(rx'[n]) = BytesOfAll(rx[n]) \o BytesOf(p)
            /\ BytesOfAll(entered'[n]) = BytesOfAll(entered[n]) \o BytesOf(p)
        BY <4>1, PartTypes, BytesOfAllFacts
      <4>3. BytesOf(p) \in Seq(Byte)
        BY BytesType
      <4> DEFINE r == (out[n] \o recvq[n]) \o Holding(n)
                 b == BytesOfAll(rx[n])
                 y == BytesOf(p)
      <4>4. r \in Seq(Byte) /\ b \in Seq(Byte) /\ y \in Seq(Byte)
        BY <4>3, PartTypes, ConcatProperties
      <4>5. Kept(n)' = r \o (b \o y)
        BY <3>1, <4>2, Zenon DEF Kept
      <4>6. BytesOfAll(entered'[n]) = (r \o b) \o y
        BY <3>2, <4>2, Zenon DEF Kept
      <4> HIDE DEF r, b, y
      <4>7. (r \o b) \o y = r \o (b \o y)
        BY <4>4, Associates, SMTT(30)
      <4> QED BY <4>5, <4>6, <4>7
    <3>4. CASE n # m
      <4>1. rx'[n] = rx[n] /\ entered'[n] = entered[n]
        BY <2>1, <3>4 DEF ByteInv, ByteTypes, StopInv, StopTypes
      <4>2. Kept(n)' = Kept(n)
        BY <3>1, <4>1, Zenon DEF Kept
      <4> QED BY <3>2, <4>1, <4>2
    <3> QED BY <3>3, <3>4
  <2> QED BY <2>3, <2>4 DEF ByteInv
<1> QED BY <1>1, <1>2

\* The driver takes a packet from the FIFO into its hand.
LEMMA PayloadKeepsBytes ==
  ASSUME StopInv, ByteInv, ReadPayload
  PROVE  ByteInv'
<1>1. /\ nic \in Nics /\ pc = "payload" /\ rx[nic] # <<>> /\ nic' = nic /\ pc' = "push"
      /\ hand' = Head(rx[nic]) /\ rx' = [rx EXCEPT ![nic] = Tail(rx[nic])]
      /\ UNCHANGED <<entered, out, recvq, tries>>
  BY DEF ReadPayload, Goto, StopInv, StopTypes, GetPktsInv, history
<1>2. hand = None
  BY <1>1 DEF ByteInv
<1>3. Head(rx[nic]) \in Packet /\ Head(rx[nic]) # None
  <2>1. Head(rx[nic]) \in Packet
    BY <1>1, PartTypes, HeadTailProperties
  <2> QED BY <2>1, PacketIsSome
<1>4. ByteTypes'
  BY <1>1 DEF ByteInv, ByteTypes
<1>5. Conserved'
  <2> SUFFICES ASSUME NEW n \in Nics PROVE BytesOfAll(entered'[n]) = Kept(n)'
    BY DEF Conserved
  <2>1. BytesOfAll(entered[n]) = Kept(n)
    BY <1>1 DEF ByteInv, Conserved, Booted
  <2>2. CASE n = nic
    <3>1. rx'[n] = Tail(rx[n]) /\ Holding(n) = <<>> /\ Holding(n)' = BytesOf(hand')
      BY <1>1, <1>2, <1>3, <2>2 DEF Holding, StopInv, StopTypes
    <3>2. BytesOfAll(rx[n]) = BytesOf(hand') \o BytesOfAll(Tail(rx[n]))
      BY <1>1, <2>2, PartTypes, BytesOfAllFacts
    <3>3. BytesOf(hand') \in Seq(Byte) /\ Tail(rx[n]) \in Seq(Packet)
      BY <1>1, <1>3, <2>2, PartTypes, BytesType, HeadTailProperties
    <3> DEFINE o == out[n]
               q == recvq[n]
               h == BytesOf(hand')
               b == BytesOfAll(Tail(rx[n]))
    <3>4. o \in Seq(Byte) /\ q \in Seq(Byte) /\ h \in Seq(Byte) /\ b \in Seq(Byte)
      BY <3>3, PartTypes, BytesOfAllFacts
    <3>5. Kept(n) = ((o \o q) \o <<>>) \o (h \o b)
      BY <3>1, <3>2, Zenon DEF Kept
    <3>6. Kept(n)' = ((o \o q) \o h) \o b
      BY <1>1, <3>1, Zenon DEF Kept
    <3> HIDE DEF o, q, h, b
    <3>7. ((o \o q) \o <<>>) \o (h \o b) = ((o \o q) \o h) \o b
      BY <3>4, Taken, SMTT(60)
    <3> QED BY <1>1, <2>1, <3>5, <3>6, <3>7
  <2>3. CASE n # nic
    <3>1. rx'[n] = rx[n] /\ Holding(n)' = Holding(n)
      BY <1>1, <2>3 DEF Holding, StopInv, StopTypes
    <3>2. Kept(n)' = Kept(n)
      BY <1>1, <3>1, Zenon DEF Kept
    <3> QED BY <1>1, <2>1, <3>2
  <2> QED BY <2>2, <2>3
<1> QED BY <1>1, <1>4, <1>5 DEF ByteInv

\* It pushes the packet in its hand to the queue, if it fits.
LEMMA PushKeepsBytes ==
  ASSUME StopInv, ByteInv, PushPacket
  PROVE  ByteInv'
<1>1. nic \in Nics /\ pc = "push" /\ hand \in Packet /\ nic' = nic /\ pc' # "init"
      /\ UNCHANGED <<entered, out, rx, tries>> /\ tries \in 0 .. Retran + 1
  BY DEF PushPacket, Goto, Panic, StopInv, StopTypes, GetPktsInv, ByteInv, ByteTypes, history, chips
<1>2. CASE ~Fits
  <2>1. UNCHANGED <<recvq, hand, pc>>
    BY <1>2 DEF PushPacket, Panic
  <2> QED BY <1>1, <2>1, NothingMoves
<1>3. CASE Fits
  <2>1. recvq' = [recvq EXCEPT ![nic] = recvq[nic] \o BytesOf(hand)] /\ hand' = None /\ pc' = "clear"
    BY <1>3 DEF PushPacket, Goto
  <2>2. BytesOf(hand) \in Seq(Byte) /\ Len(BytesOf(hand)) = MsgBytes
    BY <1>1, BytesType
  <2>3. Len(recvq[nic] \o BytesOf(hand)) <= QueueMax
    <3>1. Len(recvq[nic] \o BytesOf(hand)) = Len(recvq[nic]) + MsgBytes
      BY <1>1, <2>2, PartTypes, ConcatProperties
    <3> QED BY <1>3, <3>1 DEF Fits
  <2>4. \A n \in Nics : recvq'[n] = IF n = nic THEN recvq[nic] \o BytesOf(hand) ELSE recvq[n]
    BY <2>1 DEF StopInv, StopTypes
  <2>5. ByteTypes'
    BY <1>1, <2>3, <2>4 DEF ByteInv, ByteTypes
  <2>6. Conserved'
    <3> SUFFICES ASSUME NEW n \in Nics PROVE BytesOfAll(entered'[n]) = Kept(n)'
      BY DEF Conserved
    <3>1. BytesOfAll(entered[n]) = Kept(n)
      BY <1>1 DEF ByteInv, Conserved, Booted
    <3>2. CASE n = nic
      <4>1. recvq'[n] = recvq[n] \o BytesOf(hand) /\ Holding(n) = BytesOf(hand) /\ Holding(n)' = <<>>
        BY <1>1, <2>1, <2>4, <3>2, PacketIsSome DEF Holding
      <4> DEFINE o == out[n]
                 q == recvq[n]
                 h == BytesOf(hand)
                 b == BytesOfAll(rx[n])
      <4>2. o \in Seq(Byte) /\ q \in Seq(Byte) /\ h \in Seq(Byte) /\ b \in Seq(Byte)
        BY <2>2, PartTypes
      <4>3. Kept(n) = ((o \o q) \o h) \o b
        BY <4>1, Zenon DEF Kept
      <4>4. Kept(n)' = ((o \o (q \o h)) \o <<>>) \o b
        BY <1>1, <4>1, Zenon DEF Kept
      <4> HIDE DEF o, q, h, b
      <4>5. ((o \o (q \o h)) \o <<>>) \o b = ((o \o q) \o h) \o b
        BY <4>2, Pushed, SMTT(60)
      <4> QED BY <1>1, <3>1, <4>3, <4>4, <4>5
    <3>3. CASE n # nic
      <4>1. recvq'[n] = recvq[n] /\ Holding(n)' = Holding(n)
        BY <1>1, <2>4, <3>3 DEF Holding
      <4>2. Kept(n)' = Kept(n)
        BY <1>1, <4>1, Zenon DEF Kept
      <4> QED BY <1>1, <3>1, <4>2
    <3> QED BY <3>2, <3>3
  <2> QED BY <1>1, <2>1, <2>5, <2>6 DEF ByteInv
<1> QED BY <1>2, <1>3

\* A client reads the front of its queue.
LEMMA ReadKeepsBytes ==
  ASSUME StopInv, ByteInv, ReadAvail
  PROVE  ByteInv'
<1>1. /\ nic \in Nics /\ nic' = nic /\ want \in Nat /\ hand = None
      /\ UNCHANGED <<entered, rx, tries, hand>> /\ tries \in 0 .. Retran + 1
      /\ pc # "init" /\ pc' # "init"
  BY DEF ReadAvail, Return, Goto, Panic, StopInv, StopTypes, ByteInv, ByteTypes, chips
<1>2. CASE UNCHANGED <<out, recvq>>
  BY <1>1, <1>2, NothingMoves
<1>3. CASE ~ UNCHANGED <<out, recvq>>
  <2>1. Enough /\ out' = [out EXCEPT ![nic] = out[nic] \o SubSeq(recvq[nic], 1, want)]
        /\ recvq' = [recvq EXCEPT ![nic] = SubSeq(recvq[nic], want + 1, Len(recvq[nic]))]
    BY <1>3 DEF ReadAvail
  <2>2. want <= Len(recvq[nic])
    BY <1>1, <2>1, PartTypes DEF Enough
  <2> DEFINE a == SubSeq(recvq[nic], 1, want)
             b == SubSeq(recvq[nic], want + 1, Len(recvq[nic]))
  <2>3. a \in Seq(Byte) /\ b \in Seq(Byte) /\ Len(b) <= Len(recvq[nic]) /\ a \o b = recvq[nic]
    BY <1>1, <2>2, PartTypes, Splits
  <2>4. out' = [out EXCEPT ![nic] = out[nic] \o a] /\ recvq' = [recvq EXCEPT ![nic] = b]
    BY <2>1
  <2> HIDE DEF a, b
  <2>5. \A n \in Nics : /\ out'[n] = IF n = nic THEN out[n] \o a ELSE out[n]
                        /\ recvq'[n] = IF n = nic THEN b ELSE recvq[n]
    BY <2>4 DEF StopInv, StopTypes, ByteInv, ByteTypes
  <2>6. ByteTypes'
    <3>1. out[nic] \o a \in Seq(Byte)
      BY <1>1, <2>3, PartTypes, ConcatProperties
    <3>2. out' \in [Nics -> Seq(Byte)]
      BY <2>4, <3>1 DEF ByteInv, ByteTypes
    <3>3. Len(recvq[nic]) \in Nat /\ Len(recvq[nic]) <= QueueMax /\ QueueMax \in Nat /\ Len(b) \in Nat
      BY <1>1, <2>3, PartTypes, NrfAssumption, LenProperties
    <3>4. \A n \in Nics : Len(recvq'[n]) <= QueueMax
      BY <2>3, <2>5, <3>3 DEF ByteInv, ByteTypes
    <3> QED BY <1>1, <3>2, <3>4 DEF ByteInv, ByteTypes
  <2>7. Conserved'
    <3> SUFFICES ASSUME NEW n \in Nics PROVE BytesOfAll(entered'[n]) = Kept(n)'
      BY DEF Conserved
    <3>1. BytesOfAll(entered[n]) = Kept(n) /\ Holding(n)' = Holding(n)
      BY <1>1 DEF ByteInv, Conserved, Booted, Holding
    <3>2. out[n] \o recvq[n] = out'[n] \o recvq'[n]
      <4>1. CASE n = nic
        <5> DEFINE o == out[nic]
        <5>1. o \in Seq(Byte)
          BY <1>1, PartTypes
        <5>2. out'[n] = o \o a /\ recvq'[n] = b /\ out[n] = o /\ recvq[n] = a \o b
          BY <2>3, <2>5, <4>1
        <5> HIDE DEF o
        <5>3. (o \o a) \o b = o \o (a \o b)
          <6>1. a \in Seq(Byte) /\ b \in Seq(Byte)
            BY <2>3
          <6> QED BY <5>1, <6>1, Associates, SMTT(30)
        <5> QED BY <5>2, <5>3, Zenon
      <4>2. CASE n # nic
        BY <2>5, <4>2
      <4> QED BY <4>1, <4>2
    <3>3. Kept(n)' = Kept(n)
      BY <1>1, <3>1, <3>2, Zenon DEF Kept
    <3> QED BY <1>1, <3>1, <3>3
  <2> QED BY <1>1, <2>6, <2>7 DEF ByteInv
<1> QED BY <1>2, <1>3

\* nrf_init empties a chip's FIFO and queue; the others keep theirs.
LEMMA InitKeepsBytes ==
  ASSUME StopInv, ByteInv, NrfInit
  PROVE  ByteInv'
<1>1. /\ nic \in Nics /\ pc = "init" /\ hand = None /\ UNCHANGED <<hand, out, tries>>
      /\ rx' = [rx EXCEPT ![nic] = <<>>] /\ recvq' = [recvq EXCEPT ![nic] = <<>>]
      /\ entered' = [entered EXCEPT ![nic] = <<>>]
      /\ (nic = 1 /\ nic' = 2 /\ pc' = "init") \/ (nic = 2 /\ nic' = 1 /\ pc' = "idle")
  BY DEF NrfInit, Flushed, StopInv, StopTypes, ByteInv, Nics
<1>2. <<>> \in Seq(Packet) /\ <<>> \in Seq(Byte) /\ Len(<<>>) = 0
  BY EmptySeq
<1>3. \A n \in Nics : /\ rx'[n] = IF n = nic THEN <<>> ELSE rx[n]
                      /\ recvq'[n] = <<>> /\ out'[n] = <<>>
                      /\ entered'[n] = IF n = nic THEN <<>> ELSE entered[n]
  BY <1>1 DEF StopInv, StopTypes, ByteInv, ByteTypes
<1>4. ByteTypes'
  <2>1. entered' \in [Nics -> Seq(Packet)]
    BY <1>1, <1>2 DEF ByteInv, ByteTypes
  <2>2. \A n \in Nics : Len(recvq'[n]) <= QueueMax
    BY <1>2, <1>3, NrfAssumption
  <2> QED BY <1>1, <2>1, <2>2 DEF ByteInv, ByteTypes
<1>5. Conserved'
  <2> SUFFICES ASSUME NEW n \in Nics, Booted(n)' PROVE BytesOfAll(entered'[n]) = Kept(n)'
    BY DEF Conserved
  <2>1. Holding(n) = <<>> /\ Holding(n)' = <<>>
    BY <1>1 DEF Holding
  <2>2. recvq[n] = <<>> /\ out[n] = <<>>
    BY <1>1 DEF ByteInv
  <2>3. CASE n = nic
    <3>1. entered'[n] = <<>> /\ rx'[n] = <<>> /\ recvq'[n] = <<>> /\ out'[n] = <<>>
      BY <1>3, <2>3
    <3>2. Kept(n)' = <<>> \o <<>> \o <<>> \o BytesOfAll(<<>>)
      BY <2>1, <3>1, Zenon DEF Kept
    <3>3. <<>> \o <<>> = <<>>
      BY <1>2, ConcatEmptySeq
    <3> QED BY <3>1, <3>2, <3>3, BytesOfAllFacts, Zenon
  <2>4. CASE n # nic
    <3>1. Booted(n)
      BY <1>1, <2>4 DEF Booted, Nics
    <3>2. Kept(n)' = Kept(n)
      BY <1>3, <2>1, <2>2, <2>4, Zenon DEF Kept
    <3> QED BY <1>3, <2>4, <3>1, <3>2 DEF ByteInv, Conserved
  <2> QED BY <2>3, <2>4
<1> QED BY <1>1, <1>3, <1>4, <1>5 DEF ByteInv

LEMMA ByteNext == StopInv /\ ByteInv /\ [Next]_vars => ByteInv'
<1> SUFFICES ASSUME StopInv, ByteInv, [Next]_vars PROVE ByteInv'
  OBVIOUS
<1>a. /\ tries \in 0 .. Retran + 1 /\ 0 \in 0 .. Retran + 1
      /\ hand # None => pc = "push"
      /\ InGetPkts \/ pc \in Returns \cup {"expire"} => back \in Returns
  BY NrfAssumption DEF ByteInv, ByteTypes, StopInv
<1> USE DEF InGetPkts, Returns, Goto, Panic, Return
<1>1. CASE CallSend \/ CallRead
  BY <1>a, <1>1, NothingMoves DEF CallSend, CallRead, chips, history
<1>2. CASE NrfInit
  BY <1>2, InitKeepsBytes
<1>3. CASE HasPacket
  BY <1>a, <1>3, NothingMoves DEF HasPacket, chips, history
<1>4. CASE GetPipeid
  BY <1>a, <1>4, NothingMoves DEF GetPipeid, chips, history
<1>5. CASE ReadPayload
  BY <1>5, PayloadKeepsBytes
<1>6. CASE PushPacket
  BY <1>6, PushKeepsBytes
<1>7. CASE ClearRxIntr
  BY <1>a, <1>7, NothingMoves DEF ClearRxIntr, history
<1>8. CASE CheckMore
  BY <1>a, <1>8, NothingMoves DEF CheckMore, chips, history
<1>9. CASE TxMode
  BY <1>a, <1>9, NothingMoves DEF TxMode, history
<1>10. CASE DoTx
  BY <1>a, <1>10, NothingMoves DEF DoTx, history
<1>11. CASE SendDone
  BY <1>a, <1>11, NothingMoves DEF SendDone
<1>12. CASE ReadAvail
  BY <1>12, ReadKeepsBytes
<1>13. CASE Expire
  BY <1>a, <1>13, NothingMoves DEF Expire, chips, history
<1>14. CASE ReadReturns
  BY <1>a, <1>14, NothingMoves DEF ReadReturns, chips, history
<1>15. CASE Transmit
  <2>1. PICK n \in Nics :
          /\ Sending(n) /\ tries' \in {tries, tries + 1}
          /\ Arrives(Other(n), tx[n]) \/ UNCHANGED <<rx, rx_dr, entered>>
    BY <1>15 DEF Transmit
  <2>2. UNCHANGED <<mode, out, recvq, hand, pc, nic>>
    BY <1>15 DEF Transmit, driver
  <2>3. Other(n) \in Nics /\ tx[n] \in Packet /\ tries' \in 0 .. Retran + 1
    BY <1>a, <2>1, NrfAssumption DEF Other, Nics, Sending, StopInv, StopTypes
  <2>4. CASE Arrives(Other(n), tx[n])
    BY <2>2, <2>3, <2>4, ArrivalKeepsBytes
  <2>5. CASE UNCHANGED <<rx, rx_dr, entered>>
    <3>1. ByteTypes'
      BY <2>2, <2>3, <2>5 DEF ByteInv, ByteTypes
    <3>2. Conserved'
      <4> SUFFICES ASSUME NEW m \in Nics, Booted(m)' PROVE BytesOfAll(entered'[m]) = Kept(m)'
        BY DEF Conserved
      <4>1. Holding(m)' = Holding(m) /\ Booted(m)
        BY <2>2 DEF Holding, Booted
      <4>2. Kept(m)' = Kept(m)
        BY <2>2, <2>5, <4>1, Zenon DEF Kept
      <4> QED BY <2>5, <4>1, <4>2 DEF ByteInv, Conserved
    <3> QED BY <2>2, <3>1, <3>2 DEF ByteInv
  <2> QED BY <2>1, <2>4, <2>5
<1>16. CASE Stray
  <2>1. PICK n \in Nics : Arrives(n, <<0, strays'>>) /\ strays' = strays + 1
    BY <1>16 DEF Stray
  <2>2. UNCHANGED <<out, recvq, hand, pc, nic, tries>>
    BY <1>16 DEF Stray, driver
  <2>3. <<0, strays'>> \in Packet
    BY <2>1 DEF Packet, StopInv, StopTypes
  <2> QED BY <1>a, <2>1, <2>2, <2>3, ArrivalKeepsBytes
<1>17. CASE Reboot
  <2>1. <<>> \in Seq(Packet) /\ <<>> \in Seq(Byte) /\ Len(<<>>) = 0
    BY EmptySeq
  <2>2. ByteTypes'
    BY <1>a, <1>17, <2>1, NrfAssumption DEF Reboot, ByteTypes, chips
  <2>3. Conserved'
    BY <1>17 DEF Reboot, Conserved, Booted, Nics
  <2> QED BY <1>17, <2>2, <2>3 DEF Reboot, ByteInv
<1>18. CASE UNCHANGED vars
  <2>1. UNCHANGED <<entered, out, recvq, rx, hand, tries, pc, nic>>
    BY <1>18 DEF vars, chips, driver, history
  <2>2. ByteTypes'
    BY <2>1 DEF ByteInv, ByteTypes
  <2>3. Conserved'
    <3> SUFFICES ASSUME NEW m \in Nics, Booted(m)' PROVE BytesOfAll(entered'[m]) = Kept(m)'
      BY DEF Conserved
    <3>1. Holding(m)' = Holding(m) /\ Booted(m)
      BY <2>1 DEF Holding, Booted
    <3>2. Kept(m)' = Kept(m)
      BY <2>1, <3>1, Zenon DEF Kept
    <3> QED BY <2>1, <3>1, <3>2 DEF ByteInv, Conserved
  <2> QED BY <2>1, <2>2, <2>3 DEF ByteInv
<1> QED
  BY <1>1, <1>2, <1>3, <1>4, <1>5, <1>6, <1>7, <1>8, <1>9, <1>10, <1>11, <1>12,
     <1>13, <1>14, <1>15, <1>16, <1>17, <1>18 DEF Next, Driver, GetPkts

\* Every byte a client has read is, in order, a byte of a packet its chip
\* accepted in this session, and none is skipped, repeated or left over.
THEOREM RadioConservesBytes == Spec => []BytesConserved
<1>1. ASSUME IntrInv, TimeInv, StopInv, ByteInv PROVE BytesConserved
  <2>1. TypeOK
    <3>1. ClockTypeOK /\ rx_dr \in [Nics -> BOOLEAN]
      BY <1>1 DEF TimeInv, ClockRight, IntrInv
    <3>2. mode \in [Nics -> {"old", "rx", "tx"}] /\ nic \in Nics
          /\ {heard, tx_ds, max_rt, acked} \subseteq BOOLEAN
          /\ \A n \in Nics : Len(rx[n]) <= RxDepth
      BY <1>1 DEF StopInv, StopTypes
    <3>3. tries \in 0 .. Retran + 1 /\ \A n \in Nics : Len(recvq[n]) <= QueueMax
      BY <1>1 DEF ByteInv, ByteTypes
    <3> QED BY <3>1, <3>2, <3>3 DEF TypeOK
  <2>2. Up => \A n \in Nics : BytesOfAll(entered[n]) = Kept(n)
    BY <1>1 DEF ByteInv, Conserved, Booted, Up
  <2> QED BY <2>1, <2>2 DEF BytesConserved, Kept
<1>2. Init => IntrInv /\ TimeInv /\ StopInv /\ ByteInv
  BY IntrInit, TimeInit, StopInit, ByteInit
<1>3. QED BY IntrNext, TimeNext, StopNext, ByteNext, <1>1, <1>2, PTL DEF Spec

-----------------------------------------------------------------------------
(* Sends with acknowledgement.                                             *)

OnlyFn(o) == [p \in Packet |-> Only(p, o)]

LEMMA OnlyType ==
  ASSUME NEW o
  PROVE  OnlyFn(o) \in Lists(Packet, Packet)
<1>1. ASSUME NEW p \in Packet PROVE <<p>> \in Seq(Packet) /\ <<>> \in Seq(Packet)
  BY EmptySeq
<1> QED BY <1>1 DEF OnlyFn, Only, Lists

LEMMA OnlyAreMapped ==
  ASSUME NEW o, NEW ps \in Seq(Packet)
  PROVE  SentBy(ps, o) = FlattenSeq(Mapped(ps, OnlyFn(o)))
<1>1. \A i \in DOMAIN ps : ps[i] \in Packet
  BY LenProperties, ElementOfSeq
<1>2. \A i \in DOMAIN ps : Only(ps[i], o) = OnlyFn(o)[ps[i]]
  BY <1>1 DEF OnlyFn
<1>3. [i \in DOMAIN ps |-> Only(ps[i], o)] = Mapped(ps, OnlyFn(o))
  BY <1>2, Zenon DEF Mapped
<1> QED BY <1>3 DEF SentBy

LEMMA SentByNone ==
  ASSUME NEW o
  PROVE  SentBy(<<>>, o) = <<>>
<1>1. <<>> \in Seq(Packet)
  BY EmptySeq
<1>2. PICK g : g = OnlyFn(o)
  OBVIOUS
<1>3. g \in Lists(Packet, Packet)
  BY <1>2, OnlyType
<1>4. FlattenSeq(Mapped(<<>>, g)) = <<>>
  BY <1>3, MappedNone
<1> QED BY <1>1, <1>2, <1>4, OnlyAreMapped

\* A packet from o is the last of o's; a packet of another's changes nothing.
LEMMA SentByAppend ==
  ASSUME NEW o, NEW ps \in Seq(Packet), NEW p \in Packet
  PROVE  SentBy(Append(ps, p), o) = IF p[1] = o THEN Append(SentBy(ps, o), p) ELSE SentBy(ps, o)
<1>1. PICK g : g = OnlyFn(o)
  OBVIOUS
<1>2. g \in Lists(Packet, Packet) /\ g[p] = Only(p, o)
  BY <1>1, OnlyType DEF OnlyFn
<1>3. PICK m : m = FlattenSeq(Mapped(ps, g))
  OBVIOUS
<1>4. m \in Seq(Packet)
  <2>1. Mapped(ps, g) \in Seq(Seq(Packet))
    BY <1>2, MappedType
  <2> QED BY <1>3, <2>1, FlattenType
<1>5. FlattenSeq(Mapped(Append(ps, p), g)) = m \o g[p]
  BY <1>2, <1>3, MappedAppend
<1>6. Append(ps, p) \in Seq(Packet)
  BY AppendProperties
<1>7. SentBy(Append(ps, p), o) = m \o g[p] /\ SentBy(ps, o) = m
  BY <1>1, <1>3, <1>5, <1>6, OnlyAreMapped
<1>8. CASE p[1] = o
  <2>1. m \o <<p>> = Append(m, p)
    BY <1>4, AppendIsConcat
  <2> QED BY <1>2, <1>7, <1>8, <2>1 DEF Only
<1>9. CASE p[1] # o
  <2>1. m \o <<>> = m
    BY <1>4, ConcatEmptySeq
  <2> QED BY <1>2, <1>7, <1>9, <2>1 DEF Only
<1> QED BY <1>8, <1>9

\* What chip n's peer has delivered to it: the messages whose sends have
\* returned, and the one it is sending, once a chip has heard it.
Reached(n) ==
  IF pc = "wait" /\ nic = Other(n) /\ heard
    THEN Append(sent[Other(n)], <<Other(n), nsent>>) ELSE sent[Other(n)]

AckInv ==
  /\ DOMAIN sent = Nics
  /\ pc = "init" =>
       /\ \A n \in Nics : sent[n] = <<>>
       /\ nic = 2 => \A n \in Nics : ~Sending(n)
  /\ pc = "wait" => tx[nic] \in {None, <<nic, nsent>>}
  /\ acked /\ pc = "wait" /\ tx_ds => heard
  /\ acked => \A n \in Nics : Booted(n) => FromPeer(n) = Reached(n)

LEMMA AckInit == Init => AckInv
  BY DEF Init, AckInv, Nics, Booted

\* A step by which nothing arrives, and no send starts or ends.
LEMMA NothingSent ==
  ASSUME AckInv,
         UNCHANGED <<acked, entered, sent, tx, heard, tx_ds>>, pc # "init", pc' # "init",
         pc' = "wait" <=> pc = "wait", pc = "wait" => nic' = nic /\ nsent' = nsent
  PROVE  AckInv'
<1>1. ASSUME acked, NEW n \in Nics PROVE FromPeer(n)' = Reached(n)'
  <2>1. FromPeer(n) = Reached(n)
    BY <1>1 DEF AckInv, Booted
  <2>2. FromPeer(n)' = FromPeer(n)
    BY DEF FromPeer
  <2>3. Reached(n)' = Reached(n)
    BY DEF Reached
  <2> QED BY <2>1, <2>2, <2>3
<1> QED BY <1>1 DEF AckInv

\* A stranger's packet, or nothing, arrives.
LEMMA StrangersKeepAcks ==
  ASSUME StopInv, ByteInv, AckInv, NEW m \in Nics, NEW p \in Packet,
         Arrives(m, p), p[1] \notin Nics,
         UNCHANGED <<acked, mode, sent, tx, tries, heard, tx_ds, pc, nic, nsent>>
  PROVE  AckInv'
<1>1. ASSUME NEW n \in Nics PROVE FromPeer(n)' = FromPeer(n)
  <2>1. Other(n) \in Nics
    BY DEF Other, Nics
  <2>2. entered'[n] = entered[n] \/ entered'[n] = Append(entered[n], p)
    BY DEF Arrives, ByteInv, ByteTypes
  <2>3. SentBy(Append(entered[n], p), Other(n)) = SentBy(entered[n], Other(n))
    BY <2>1, PartTypes, SentByAppend
  <2> QED BY <2>2, <2>3 DEF FromPeer
<1>2. ASSUME acked, NEW n \in Nics, Booted(n)' PROVE FromPeer(n)' = Reached(n)'
  <2>1. FromPeer(n) = Reached(n)
    BY <1>2 DEF AckInv, Booted
  <2>2. Reached(n)' = Reached(n)
    BY DEF Reached
  <2> QED BY <1>1, <2>1, <2>2
<1>3. \A n \in Nics : Sending(n)' = Sending(n)
  BY DEF Sending
<1> QED BY <1>2, <1>3 DEF AckInv

\* An attempt to send.
LEMMA TransmitKeepsAcks ==
  ASSUME StopInv, ByteInv, AckInv, Transmit
  PROVE  AckInv'
<1>1. PICK n \in Nics, lost \in BOOLEAN, ackLost \in BOOLEAN :
        LET comes == ~lost /\ ~heard /\ mode[Other(n)] = "rx" /\ Len(rx[Other(n)]) < RxDepth
            done  == ~acked \/ (heard' /\ ~lost /\ ~ackLost)
        IN /\ Sending(n)
           /\ heard' = (heard \/ comes)
           /\ IF comes THEN Arrives(Other(n), tx[n]) ELSE UNCHANGED <<rx, rx_dr, entered>>
           /\ tx' = IF done THEN [tx EXCEPT ![n] = None] ELSE tx
           /\ tx_ds' = (tx_ds \/ done)
           /\ tries' = IF done THEN tries ELSE tries + 1
  BY DEF Transmit
<1>2. UNCHANGED <<acked, mode, pc, nic, nsent, sent>>
  BY DEF Transmit, driver
<1>3. /\ Other(n) \in Nics /\ nic \in Nics /\ tx[n] \in Packet /\ tx[n] # None
      /\ \A k \in Nics : Other(Other(k)) = k /\ (k = n \/ k = Other(n))
      /\ tx \in [Nics -> Packet \cup {None}]
  BY <1>1 DEF Other, Nics, Sending, StopInv, StopTypes
<1>4. CASE pc = "init"
  <2>1. nic = 1
    BY <1>1, <1>3, <1>4 DEF AckInv, Nics
  <2>2. \A k \in Nics : ~Booted(k)'
    BY <1>2, <1>4, <2>1 DEF Booted, Nics
  <2> QED BY <1>2, <1>4, <2>1, <2>2 DEF AckInv
<1>5. CASE pc # "init"
  <2>1. pc = "wait" /\ n = nic
    BY <1>3, <1>5 DEF StopInv, ChipInv
  <2>2. tx[n] = <<n, nsent>>
    BY <1>3, <2>1 DEF AckInv
  <2>3. tx'[n] \in {None, <<n, nsent>>}
    BY <1>1, <1>3, <2>2
  <2>4. acked /\ tx_ds' => heard'
    BY <1>1, <2>1 DEF AckInv
  <2>5. ASSUME acked, NEW k \in Nics PROVE FromPeer(k)' = Reached(k)'
    <3>1. FromPeer(k) = Reached(k)
      BY <1>5, <2>5 DEF AckInv, Booted
    <3>2. CASE ~lost /\ ~heard /\ mode[Other(n)] = "rx" /\ Len(rx[Other(n)]) < RxDepth
      <4>1. heard' /\ entered' = [entered EXCEPT ![Other(n)] = Append(entered[Other(n)], tx[n])]
        BY <1>1, <3>2 DEF Arrives
      <4>2. CASE k = Other(n)
        <5>1. Other(k) = n /\ entered'[k] = Append(entered[k], <<n, nsent>>)
          BY <1>3, <2>2, <4>1, <4>2 DEF ByteInv, ByteTypes
        <5>2. <<n, nsent>> \in Packet /\ <<n, nsent>>[1] = n
          BY <1>3, <2>2
        <5>3. SentBy(entered'[k], Other(k)) = Append(SentBy(entered[k], Other(k)), <<n, nsent>>)
          <6>1. PICK p : p = <<n, nsent>>
            OBVIOUS
          <6>2. p \in Packet /\ p[1] = n /\ entered[k] \in Seq(Packet)
            BY <5>2, <6>1, PartTypes
          <6>3. SentBy(Append(entered[k], p), n) = Append(SentBy(entered[k], n), p)
            BY <6>2, SentByAppend
          <6> QED BY <5>1, <6>1, <6>3
        <5>4. FromPeer(k) = sent[n] /\ Reached(k)' = Append(sent[n], <<n, nsent>>)
          BY <1>2, <2>1, <3>1, <3>2, <4>1, <5>1 DEF Reached
        <5> QED BY <5>3, <5>4 DEF FromPeer
      <4>3. CASE k # Other(n)
        <5>1. entered'[k] = entered[k] /\ Other(k) # nic
          BY <1>3, <2>1, <4>1, <4>3 DEF ByteInv, ByteTypes
        <5>2. FromPeer(k)' = FromPeer(k) /\ Reached(k) = sent[Other(k)] /\ Reached(k)' = sent[Other(k)]
          BY <1>2, <5>1 DEF FromPeer, Reached
        <5> QED BY <3>1, <5>2
      <4> QED BY <4>2, <4>3
    <3>3. CASE ~ (~lost /\ ~heard /\ mode[Other(n)] = "rx" /\ Len(rx[Other(n)]) < RxDepth)
      <4>1. heard' = heard /\ entered' = entered
        BY <1>1, <3>3 DEF StopInv, StopTypes
      <4>2. FromPeer(k)' = FromPeer(k) /\ Reached(k)' = Reached(k)
        BY <1>2, <4>1 DEF FromPeer, Reached
      <4> QED BY <3>1, <4>2
    <3> QED BY <3>2, <3>3
  <2> QED BY <1>2, <1>5, <2>1, <2>3, <2>4, <2>5 DEF AckInv
<1> QED BY <1>4, <1>5

\* A send starts: nothing of it has been heard.
LEMMA DoTxKeepsAcks ==
  ASSUME StopInv, AckInv, DoTx
  PROVE  AckInv'
<1>1. pc = "check" /\ ~heard' /\ UNCHANGED <<acked, entered, sent, tx_ds, nic, nsent>>
  BY DEF DoTx, Goto, Panic, history
<1>2. ~tx_ds /\ nic \in Nics /\ tx \in [Nics -> Packet \cup {None}]
  BY <1>1 DEF StopInv, SendInv, StopTypes
<1>3. \/ pc' = "check"
      \/ pc' = "wait" /\ tx' = [tx EXCEPT ![nic] = <<nic, nsent>>]
  BY <1>1 DEF DoTx, Goto, Panic
<1>4. pc' # "init" /\ (pc' = "wait" => tx'[nic] = <<nic, nsent>>)
  BY <1>1, <1>2, <1>3
<1>5. ASSUME acked, NEW n \in Nics PROVE FromPeer(n)' = Reached(n)'
  <2>1. FromPeer(n) = sent[Other(n)]
    BY <1>1, <1>5 DEF AckInv, Booted, Reached
  <2>2. FromPeer(n)' = FromPeer(n) /\ Reached(n)' = sent[Other(n)]
    BY <1>1 DEF FromPeer, Reached
  <2> QED BY <2>1, <2>2
<1> QED BY <1>1, <1>2, <1>4, <1>5 DEF AckInv

\* A send returns: with acknowledgement, what it sent has been heard.
LEMMA SendDoneKeepsAcks ==
  ASSUME StopInv, AckInv, SendDone
  PROVE  AckInv'
<1>1. pc = "wait" /\ nic \in Nics /\ UNCHANGED <<acked, entered, nic, nsent, tx, heard>>
  BY DEF SendDone, Goto, Panic, StopInv, StopTypes
<1>2. CASE tx_ds
  <2>1. pc' = "idle" /\ sent' = [sent EXCEPT ![nic] = Append(sent[nic], <<nic, nsent>>)]
    BY <1>2 DEF SendDone, Succeeded, Goto
  <2>2. \A n \in Nics : Other(n) \in Nics
    BY DEF Other, Nics
  <2>3. ASSUME acked, NEW n \in Nics PROVE FromPeer(n)' = Reached(n)'
    <3>1. heard /\ FromPeer(n) = Reached(n)
      BY <1>1, <1>2, <2>3 DEF AckInv, Booted
    <3>2. Reached(n) = sent'[Other(n)]
      BY <1>1, <2>1, <2>2, <3>1 DEF Reached, AckInv
    <3>3. FromPeer(n)' = FromPeer(n) /\ Reached(n)' = sent'[Other(n)]
      BY <1>1, <2>1 DEF FromPeer, Reached
    <3> QED BY <3>1, <3>2, <3>3
  <2> QED BY <1>1, <2>1, <2>3 DEF AckInv
<1>3. CASE ~tx_ds
  <2>1. UNCHANGED <<pc, tx_ds, sent>>
    BY <1>3 DEF SendDone, Succeeded, Panic
  <2> QED BY <1>1, <2>1, NothingSent
<1> QED BY <1>2, <1>3

\* nrf_init waits for attempts an earlier session left behind.
LEMMA InitKeepsAcks ==
  ASSUME StopInv, ByteInv, AckInv, NrfInit
  PROVE  AckInv'
<1>1. /\ nic \in Nics /\ pc = "init" /\ UNCHANGED <<acked, sent, tries, heard>> /\ ~tx_ds'
      /\ mode' = [mode EXCEPT ![nic] = "rx"] /\ tx' = [tx EXCEPT ![nic] = None]
      /\ entered' = [entered EXCEPT ![nic] = <<>>] /\ \A n \in Nics : ~Sending(n)
      /\ (nic = 1 /\ nic' = 2 /\ pc' = "init") \/ (nic = 2 /\ nic' = 1 /\ pc' = "idle")
  BY DEF NrfInit, Flushed, StopInv, StopTypes, Nics, None
<1>2. \A n \in Nics : mode'[n] = (IF n = nic THEN "rx" ELSE mode[n])
                      /\ tx'[n] = (IF n = nic THEN None ELSE tx[n])
                      /\ entered'[n] = (IF n = nic THEN <<>> ELSE entered[n])
  BY <1>1 DEF StopInv, StopTypes, ByteInv, ByteTypes
<1>3. \A n \in Nics : ~Sending(n)'
  BY <1>1, <1>2 DEF Sending
<1>4. \A n \in Nics : sent[n] = <<>> /\ Other(n) \in Nics
  BY <1>1 DEF AckInv, Other, Nics
<1>5. ASSUME acked, NEW n \in Nics, Booted(n)' PROVE FromPeer(n)' = Reached(n)'
  <2>1. Reached(n)' = <<>>
    BY <1>1, <1>4 DEF Reached
  <2>2. CASE n = nic
    BY <1>2, <2>1, <2>2, SentByNone DEF FromPeer
  <2>3. CASE n # nic
    <3>1. Booted(n)
      BY <1>1, <1>5, <2>3 DEF Booted, Nics
    <3>2. FromPeer(n) = Reached(n) /\ Reached(n) = <<>> /\ FromPeer(n)' = FromPeer(n)
      BY <1>1, <1>2, <1>4, <1>5, <2>3, <3>1 DEF AckInv, Reached, FromPeer
    <3> QED BY <2>1, <3>2
  <2> QED BY <2>2, <2>3
<1> QED BY <1>1, <1>3, <1>4, <1>5 DEF AckInv

LEMMA AckNext == StopInv /\ ByteInv /\ AckInv /\ [Next]_vars => AckInv'
<1> SUFFICES ASSUME StopInv, ByteInv, AckInv, [Next]_vars PROVE AckInv'
  OBVIOUS
<1>a. InGetPkts \/ pc \in Returns \cup {"expire"} => back \in Returns
  BY DEF StopInv
<1> USE DEF InGetPkts, Returns, Goto, Panic, Return
<1>1. CASE CallSend \/ CallRead
  BY <1>1, NothingSent DEF CallSend, CallRead, chips, history
<1>2. CASE NrfInit
  BY <1>2, InitKeepsAcks
<1>3. CASE GetPkts
  BY <1>a, <1>3, NothingSent DEF GetPkts, HasPacket, GetPipeid, ReadPayload, PushPacket,
     ClearRxIntr, CheckMore, chips, history
<1>4. CASE TxMode
  BY <1>a, <1>4, NothingSent DEF TxMode, history
<1>5. CASE DoTx
  BY <1>5, DoTxKeepsAcks
<1>6. CASE SendDone
  BY <1>6, SendDoneKeepsAcks
<1>7. CASE ReadAvail
  BY <1>a, <1>7, NothingSent DEF ReadAvail, chips
<1>8. CASE Expire
  BY <1>a, <1>8, NothingSent DEF Expire, chips, history
<1>9. CASE ReadReturns
  BY <1>a, <1>9, NothingSent DEF ReadReturns, chips, history
<1>10. CASE Transmit
  BY <1>10, TransmitKeepsAcks
<1>11. CASE Stray
  <2>1. PICK n \in Nics : Arrives(n, <<0, strays'>>) /\ strays' = strays + 1
    BY <1>11 DEF Stray
  <2>2. UNCHANGED <<acked, mode, sent, tx, tries, heard, tx_ds, pc, nic, nsent>>
    BY <1>11 DEF Stray, driver
  <2>3. <<0, strays'>> \in Packet /\ <<0, strays'>>[1] \notin Nics
    BY <2>1 DEF Packet, Nics, StopInv, StopTypes
  <2> QED BY <2>1, <2>2, <2>3, StrangersKeepAcks
<1>12. CASE Reboot
  <2>1. pc' = "init" /\ nic' = 1 /\ sent' = [n \in Nics |-> <<>>]
    BY <1>12 DEF Reboot
  <2>2. \A n \in Nics : ~Booted(n)'
    BY <2>1 DEF Booted, Nics
  <2> QED BY <2>1, <2>2 DEF AckInv
<1>13. CASE UNCHANGED vars
  <2>1. UNCHANGED <<acked, entered, sent, tx, heard, tx_ds, pc, nic, nsent, mode, tries>>
    BY <1>13 DEF vars, chips, driver, history
  <2>2. ASSUME acked, NEW n \in Nics, Booted(n)' PROVE FromPeer(n)' = Reached(n)'
    BY <2>1, <2>2 DEF AckInv, Booted, FromPeer, Reached
  <2>3. \A n \in Nics : Sending(n)' = Sending(n)
    BY <2>1 DEF Sending
  <2> QED BY <2>1, <2>2, <2>3 DEF AckInv
<1> QED
  BY <1>1, <1>2, <1>3, <1>4, <1>5, <1>6, <1>7, <1>8, <1>9, <1>10, <1>11, <1>12, <1>13
     DEF Next, Driver

\* A send with acknowledgement that returns has delivered its message exactly
\* once and in order; one that has not returned, at most once.
THEOREM RadioDeliversExactlyOnce == Spec => []AckedExactlyOnce
<1>1. AckInv => AckedExactlyOnce
  BY DEF AckInv, Booted, Reached, Up, AckedExactlyOnce
<1>2. Init => StopInv /\ ByteInv /\ AckInv
  BY StopInit, ByteInit, AckInit
<1>3. QED BY StopNext, ByteNext, AckNext, <1>1, <1>2, PTL DEF Spec
=============================================================================
