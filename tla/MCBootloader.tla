---------------------------- MODULE MCBootloader ----------------------------
(* Small instances of Bootloader: real word size and UART depth, a program *)
(* of a few bytes, an address space of 16.  A session either starts from a *)
(* tty with garbage in it and meets no fault, or starts from an empty one  *)
(* and may meet a fault of each of three kinds.  A tty left unread holds   *)
(* the requests that the longest garbled print makes the laptop wait for,  *)
(* and no more.                                                            *)
EXTENDS Bootloader

CONSTANT MaxFaults  \* bound on the faults of a session

VARIABLE quiet  \* no fault in this session

Gpi == Bytes(Op("GET_PROG_INFO"))
\* nothing, noise of every length modulo the word size, the end of a
\* GET_PROG_INFO cut short, a stale answer
TtyGarbage ==
  {<<>>, <<JunkByte>>, <<JunkByte, JunkByte>>, <<JunkByte, JunkByte, JunkByte>>,
   SubSeq(Gpi, 2, W), SubSeq(Gpi, 4, W), <<JunkByte>> \o Gpi,
   Bytes(Op("BOOT_SUCCESS")), Bytes(Op("GET_CODE")) \o Bytes(CrcWord)}

\* what BootloaderProofs assumes of the tty holds here
ASSUME MCCleanStart == CleanStart

MCInit == \/ quiet = TRUE /\ Init
          \/ quiet = FALSE /\ InitWith(<<>>)

MCNext ==
  /\ Next /\ UNCHANGED quiet
  /\ losses' + corruptions' + kills' + powers' <= IF quiet THEN 0 ELSE MaxFaults

MCSpec ==
  /\ MCInit /\ [][MCNext]_<<vars, quiet>>
  /\ WF_vars(PiStep) /\ WF_vars(UnixStep)
=============================================================================
