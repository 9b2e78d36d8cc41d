-------------------------- MODULE BootloaderProofs --------------------------
(***************************************************************************)
(* For every word size, program, address space, UART depth and number of   *)
(* faults: the transfer is sound.  A program the pi runs is intact, a      *)
(* success the laptop reports is one, and past step 0 the laptop reads on  *)
(* word boundaries.                                                        *)
(***************************************************************************)
EXTENDS Bootloader, SequenceTheorems, TLAPS

-----------------------------------------------------------------------------
(* What the pi runs.                                                       *)

\* get_code returns 0 until PiVerify has seen the whole program, which is not
\* written to from then on.
IntactInv ==
  /\ ppc \notin {"return", "branched", "rebooted"} => ret = 0
  /\ Loaded => Intact(ret)

LEMMA IntactNext == IntactInv /\ [Next]_vars => IntactInv'
<1> SUFFICES ASSUME IntactInv, [Next]_vars PROVE IntactInv'
  OBVIOUS
<1> USE DEF IntactInv, Loaded, counts
\* nothing but the pi, and the user who powers it, touches ret, ppc and mem
<1>1. CASE UNCHANGED pi
  BY <1>1 DEF pi, Intact
<1>2. CASE PiStep
  <2>1. CASE PiAsk
    BY <2>1 DEF PiAsk, Waits
  <2>2. CASE PiGetOp
    BY <2>2 DEF PiGetOp, GiveUp
  <2>3. CASE PiGetHeader
    <3>1. (ppc' = "return" /\ ret' = 0) \/ (ppc' = "putcode" /\ ret' = ret)
      BY <2>3 DEF PiGetHeader, GiveUp
    <3>2. QED BY <2>3, <3>1 DEF PiGetHeader
  <2>4. CASE PiGetPutCode
    BY <2>4 DEF PiGetPutCode, GiveUp
  <2>5. CASE PiCopy
    BY <2>5 DEF PiCopy
  <2>6. CASE PiVerify
    BY <2>6 DEF PiVerify, GiveUp, CksumOk, Intact
  <2>7. CASE PiBranch
    BY <2>7 DEF PiBranch, Intact
  <2>8. QED BY <1>2, <2>1, <2>2, <2>3, <2>4, <2>5, <2>6, <2>7 DEF PiStep
<1>3. CASE UnixStep
  <2>1. CASE UnixTimeout
    BY <1>1, <2>1 DEF UnixTimeout
  <2>2. CASE UnixPrint \/ UnixSync \/ UnixDrain \/ UnixCrc \/ UnixAwait \/ UnixEcho
    BY <1>1, <2>2 DEF UnixPrint, UnixSync, UnixDrain, UnixCrc, UnixAwait, UnixEcho, UnixGoes
  <2>3. QED BY <1>3, <2>1, <2>2 DEF UnixStep
<1>4. CASE Lose \/ Corrupt \/ Relaunch
  BY <1>1, <1>4 DEF Lose, Corrupt, Relaunch
<1>5. CASE PowerCycle
  BY <1>5 DEF PowerCycle
<1>6. QED BY <1>1, <1>2, <1>3, <1>4, <1>5 DEF Next, vars, pi

\* get_code, through whatever the tty held, bytes lost or garbled, relaunches
\* and power cycles: a program the pi is about to run, or runs, is right byte
\* for byte.
THEOREM BootRunsOnlyIntactCode == Spec => []RunsOnlyIntactCode
<1>1. Init => IntactInv
  BY DEF Init, InitWith, IntactInv, Loaded
<1>2. IntactInv => RunsOnlyIntactCode
  BY DEF IntactInv, RunsOnlyIntactCode
<1>3. QED BY <1>1, <1>2, IntactNext, PTL DEF Spec

-----------------------------------------------------------------------------
(* What is on the line.                                                    *)

\* The bytes no BOOT_SUCCESS is made of.
Plain == {b \in Byte : b[1] # "BOOT_SUCCESS"}
\* The pi, which echoes the checksum, is sent no BOOT_SUCCESS and no text, no
\* number but addresses and lengths that are not 0, and the program's own code.
PiByte ==
  {b \in Plain :
     /\ b[1] # "PRINT_STRING"
     /\ b[1] = "num" => b[2] \in 1 .. AddrSpace - 1
     /\ b[1] = "code" => b[2] \in 1 .. ProgLen}

\* What remains of a sequence after n of its elements.
LEMMA AfterProperties ==
  ASSUME NEW S, NEW s \in Seq(S), NEW n \in Nat
  PROVE  /\ After(s, n) \in Seq(S)
         /\ n <= Len(s) => Len(After(s, n)) = Len(s) - n
<1>1. \A i \in n + 1 .. Len(s) : s[i] \in S
  BY ElementOfSeq
<1>2. Len(s) \in Nat
  BY LenProperties
<1>3. After(s, n) \in Seq(S)
  BY <1>1, <1>2, SubSeqProperties DEF After
<1>4. Len(After(s, n)) = IF n + 1 <= Len(s) THEN Len(s) - (n + 1) + 1 ELSE 0
  BY <1>1, <1>2, SubSeqProperties DEF After
<1>5. QED BY <1>2, <1>3, <1>4

\* Every message to the laptop but BOOT_SUCCESS is plain.
LEMMA WordsPlain ==
  /\ \A k \in Kinds \ {"BOOT_SUCCESS"}, v \in Nat : Bytes(<<k, v>>) \in Seq(Plain)
  /\ \A k \in Kinds, v \in Nat : Bytes(<<k, v>>) \in Seq(Byte)
  /\ Putk \in Seq(Plain)
  /\ Seq(Plain) \subseteq Seq(Byte)
<1>1. ASSUME NEW k \in Kinds \ {"BOOT_SUCCESS"}, NEW v \in Nat
      PROVE  Bytes(<<k, v>>) \in Seq(Plain)
  <2>1. \A i \in 1 .. W : <<k, v, i>> \in Plain
    BY DEF Plain, Byte
  <2>2. Bytes(<<k, v>>) \in [1 .. W -> Plain]
    BY <2>1 DEF Bytes
  <2>3. QED BY <2>2, SeqDef, BootAssumption DEF BootAssumption
<1>2. ASSUME NEW k \in Kinds, NEW v \in Nat
      PROVE  Bytes(<<k, v>>) \in Seq(Byte)
  <2>1. \A i \in 1 .. W : <<k, v, i>> \in Byte
    BY DEF Byte
  <2>2. Bytes(<<k, v>>) \in [1 .. W -> Byte]
    BY <2>1 DEF Bytes
  <2>3. QED BY <2>2, SeqDef, BootAssumption DEF BootAssumption
<1>3. Putk \in Seq(Plain)
  <2>1. <<<<"text", 0, 0>>>> \in Seq(Plain)
    <3>1. <<"text", 0, 0>> \in Plain
      BY DEF Plain, Byte, Kinds
    <3>2. QED BY <3>1
  <2>2. Bytes(Op("PRINT_STRING")) \in Seq(Plain) /\ Bytes(<<"num", 1>>) \in Seq(Plain)
    BY <1>1 DEF Op, Kinds
  <2>3. QED BY <2>1, <2>2, ConcatProperties DEF Putk
<1>4. Seq(Plain) \subseteq Seq(Byte)
  BY SeqMonotonic DEF Plain
<1>5. QED BY <1>1, <1>2, <1>3, <1>4

\* What the laptop sends the pi.
LEMMA SentToPi ==
  ASSUME CleanStart
  PROVE  Header \in Seq(PiByte) /\ Bytes(Op("PUT_CODE")) \o Code \in Seq(PiByte)
<1>1. ASSUME NEW k \in Kinds \ {"num", "code", "PRINT_STRING", "BOOT_SUCCESS"}
      PROVE  Bytes(Op(k)) \in Seq(PiByte)
  <2>1. \A i \in 1 .. W : <<k, 0, i>> \in PiByte
    BY DEF PiByte, Plain, Byte
  <2>2. Bytes(Op(k)) \in [1 .. W -> PiByte]
    BY <2>1 DEF Bytes, Op
  <2>3. QED BY <2>2, SeqDef, BootAssumption DEF BootAssumption
<1>2. ASSUME NEW v \in 1 .. AddrSpace - 1 PROVE Bytes(<<"num", v>>) \in Seq(PiByte)
  <2>1. AddrSpace \in Nat
    BY BootAssumption DEF BootAssumption
  <2>2. \A i \in 1 .. W : <<"num", v, i>> \in PiByte
    BY <2>1 DEF PiByte, Plain, Byte, Kinds
  <2>3. Bytes(<<"num", v>>) \in [1 .. W -> PiByte]
    BY <2>2 DEF Bytes
  <2>4. QED BY <2>3, SeqDef, BootAssumption DEF BootAssumption
<1>3. ArmBase \in 1 .. AddrSpace - 1 /\ ProgLen \in 1 .. AddrSpace - 1
  BY BootAssumption DEF BootAssumption, CleanStart
<1>4. Header \in Seq(PiByte)
  <2>1. Bytes(Op("PUT_PROG_INFO")) \in Seq(PiByte) /\ Bytes(CrcWord) \in Seq(PiByte)
    BY <1>1 DEF CrcWord, Kinds
  <2>2. Bytes(<<"num", ArmBase>>) \in Seq(PiByte) /\ Bytes(<<"num", ProgLen>>) \in Seq(PiByte)
    BY <1>2, <1>3
  <2>3. QED BY <2>1, <2>2, ConcatProperties DEF Header
<1>5. Code \in Seq(PiByte)
  <2>1. \A i \in 1 .. ProgLen : <<"code", i, 1>> \in PiByte
    BY DEF PiByte, Plain, Byte, Kinds
  <2>2. Code \in [1 .. ProgLen -> PiByte]
    BY <2>1 DEF Code
  <2>3. QED BY <2>2, SeqDef, BootAssumption DEF BootAssumption
<1>6. Bytes(Op("PUT_CODE")) \in Seq(PiByte)
  BY <1>1 DEF Kinds
<1>7. QED BY <1>4, <1>5, <1>6, ConcatProperties

\* A word read off the line takes its kind and value from its first byte.
LEMMA WordOfProperties ==
  ASSUME NEW S, S \subseteq Byte, NEW s \in Seq(S), Len(s) >= W
  PROVE  /\ s[1] \in S
         /\ WordOf(s) \in {<<s[1][1], s[1][2]>>, <<"junk", 0>>}
<1>1. 1 \in 1 .. Len(s)
  BY LenProperties, BootAssumption DEF BootAssumption
<1>2. QED BY <1>1, ElementOfSeq DEF WordOf, Junk, Op

\* What is echoed to the laptop is plain, and no PRINT_STRING.
LEMMA WordPlain ==
  ASSUME NEW s \in Seq(PiByte), Len(s) >= W
  PROVE  Bytes(WordOf(s)) \in Seq(Plain) /\ WordOf(s)[1] # "PRINT_STRING"
<1>1. /\ s[1] \in Plain /\ s[1][1] # "PRINT_STRING"
      /\ WordOf(s) \in {<<s[1][1], s[1][2]>>, <<"junk", 0>>}
  BY WordOfProperties DEF PiByte, Plain
<1>2. s[1][1] \in Kinds \ {"BOOT_SUCCESS"} /\ s[1][2] \in Nat
  BY <1>1 DEF Plain, Byte
<1>3. "junk" \in Kinds \ {"BOOT_SUCCESS"}
  BY DEF Kinds
<1>4. QED BY <1>1, <1>2, <1>3, WordsPlain

\* The pi reads no number that is 0 or too large; the laptop, none that is negative.
LEMMA NumbersRead ==
  ASSUME CleanStart, NEW s, Len(s) >= W
  PROVE  /\ s \in Seq(PiByte) => Numbers(WordOf(s)) \subseteq 1 .. AddrSpace - 1
         /\ s \in Seq(Byte) => Numbers(WordOf(s)) \subseteq Nat
<1> DEFINE w == WordOf(s)
<1>1. AddrSpace \in Nat
  BY BootAssumption DEF BootAssumption
<1>2. CASE w[1] # "num"
  BY <1>1, <1>2 DEF Numbers, CleanStart
<1>3. CASE w[1] = "num"
  <2>1. Numbers(w) = {w[2]}
    BY <1>3 DEF Numbers
  <2>2. ASSUME NEW S, S \subseteq Byte, s \in Seq(S)
        PROVE  s[1] \in S /\ s[1][1] = "num" /\ w[2] = s[1][2]
    <3>1. s[1] \in S /\ (w = <<s[1][1], s[1][2]>> \/ w = <<"junk", 0>>)
      BY <2>2, WordOfProperties
    <3>2. w = <<s[1][1], s[1][2]>>
      BY <3>1, <1>3
    <3> HIDE DEF w
    <3>3. QED BY <3>1, <3>2, <1>3
  <2>3. ASSUME s \in Seq(PiByte) PROVE w[2] \in 1 .. AddrSpace - 1
    BY <2>2, <2>3 DEF PiByte, Plain
  <2>4. ASSUME s \in Seq(Byte) PROVE w[2] \in Nat
    BY <2>2, <2>4 DEF Byte
  <2>5. QED BY <2>1, <2>3, <2>4
<1>4. QED BY <1>2, <1>3

-----------------------------------------------------------------------------
(* GET_PROG_INFOs in the tty.                                              *)

\* s has no BOOT_SUCCESS after a GET_PROG_INFO.
SyncPlain(s) == \A i \in 1 .. Len(s) : GpiAt(s, i) => PlainFrom(s, i)

LEMMA PlainSyncs ==
  ASSUME NEW s
  PROVE  /\ s \in Seq(Plain) => SyncPlain(s)
         /\ s \in Seq(Byte) /\ PlainFrom(s, 1) => s \in Seq(Plain)
<1>1. ASSUME s \in Seq(Plain), NEW j \in 1 .. Len(s) PROVE s[j][1] # "BOOT_SUCCESS"
  <2>1. s[j] \in Plain
    BY <1>1, ElementOfSeq
  <2> QED BY <2>1 DEF Plain
<1>2. s \in Seq(Plain) => SyncPlain(s)
  BY <1>1 DEF SyncPlain, PlainFrom
<1>3. ASSUME s \in Seq(Byte), PlainFrom(s, 1) PROVE s \in Seq(Plain)
  <2>1. Len(s) \in Nat /\ s \in [1 .. Len(s) -> Byte]
    BY <1>3, LenProperties
  <2>2. \A j \in 1 .. Len(s) : s[j] \in Plain
    BY <1>3, <2>1 DEF PlainFrom, Plain
  <2>3. s \in [1 .. Len(s) -> Plain]
    BY <2>1, <2>2
  <2> QED BY <2>1, <2>3, SeqDef
<1> QED BY <1>2, <1>3

LEMMA SyncPlainAppend ==
  ASSUME NEW s \in Seq(Byte), NEW m \in Seq(Plain), SyncPlain(s)
  PROVE  SyncPlain(s \o m)
<1>1. PICK t : t = s \o m
  OBVIOUS
<1>2. m \in Seq(Byte)
  BY WordsPlain
<1>3. Len(s) \in Nat /\ Len(m) \in Nat /\ W \in Nat \ {0}
  BY <1>2, LenProperties, BootAssumption DEF BootAssumption
<1>4. Len(t) = Len(s) + Len(m) /\ \A j \in 1 .. Len(s) + Len(m) : t[j] = IF j <= Len(s) THEN s[j] ELSE m[j - Len(s)]
  BY <1>1, <1>2, ConcatProperties
<1>5. ASSUME NEW i \in 1 .. Len(t), GpiAt(t, i), NEW j \in 1 .. Len(t), i <= j
      PROVE  t[j][1] # "BOOT_SUCCESS"
  <2>1. CASE j > Len(s)
    <3>1. t[j] = m[j - Len(s)] /\ j - Len(s) \in 1 .. Len(m)
      BY <1>3, <1>4, <2>1
    <3>2. m[j - Len(s)] \in Plain
      BY <3>1, ElementOfSeq
    <3> QED BY <3>1, <3>2 DEF Plain
  <2>2. CASE j <= Len(s) /\ i + W <= Len(s) + 1
    <3>1. ASSUME NEW k \in 1 .. W PROVE s[i + (k - 1)] = t[i + (k - 1)]
      <4>1. i + (k - 1) \in 1 .. Len(s) + Len(m) /\ i + (k - 1) <= Len(s)
        BY <1>3, <2>2
      <4> QED BY <1>4, <4>1
    <3>2. GpiAt(s, i)
      BY <1>5, <2>2, <3>1 DEF GpiAt
    <3>3. i \in 1 .. Len(s) /\ j \in 1 .. Len(s) /\ t[j] = s[j]
      BY <1>3, <1>4, <1>5, <2>2
    <3> QED BY <1>5, <3>2, <3>3 DEF SyncPlain, PlainFrom
  <2>3. CASE j <= Len(s) /\ i + W > Len(s) + 1
    <3>1. j - i + 1 \in 1 .. W /\ i + ((j - i + 1) - 1) = j
      BY <1>3, <1>5, <2>3
    <3>2. t[j] = <<"GET_PROG_INFO", 0, j - i + 1>>
      BY <1>5, <3>1 DEF GpiAt
    <3> QED BY <3>2
  <2> QED BY <1>3, <2>1, <2>2, <2>3
<1>6. SyncPlain(t)
  BY <1>5 DEF SyncPlain, PlainFrom
<1> QED BY <1>1, <1>6

\* The bytes of what remains, by their place in what was.
LEMMA AfterElements ==
  ASSUME NEW s \in Seq(Byte), NEW n \in Nat
  PROVE  /\ After(s, n) \in Seq(Byte)
         /\ \A j \in 1 .. Len(After(s, n)) : n + j \in 1 .. Len(s) /\ After(s, n)[j] = s[n + j]
         /\ After(s, n) # <<>> => Len(s) = n + Len(After(s, n))
         /\ Len(After(s, n)) \in Nat
<1>1. \A i \in n + 1 .. Len(s) : s[i] \in Byte
  BY ElementOfSeq
<1>2. Len(s) \in Nat
  BY LenProperties
<1>3. PICK t : t = After(s, n)
  OBVIOUS
<1>4. /\ t \in Seq(Byte) /\ Len(t) = IF n + 1 <= Len(s) THEN Len(s) - (n + 1) + 1 ELSE 0
      /\ \A j \in 1 .. Len(s) - (n + 1) + 1 : t[j] = s[(n + 1) + j - 1]
  BY <1>1, <1>2, <1>3, SubSeqProperties DEF After
<1>5. ASSUME NEW j \in 1 .. Len(t) PROVE n + j \in 1 .. Len(s) /\ t[j] = s[n + j]
  <2>1. j \in 1 .. Len(s) - (n + 1) + 1 /\ n + j \in 1 .. Len(s) /\ (n + 1) + j - 1 = n + j
    BY <1>2, <1>4
  <2> QED BY <1>4, <2>1
<1>6. t # <<>> => Len(s) = n + Len(t)
  BY <1>2, <1>4, EmptySeq
<1> QED BY <1>2, <1>3, <1>4, <1>5, <1>6

LEMMA SyncPlainAfter ==
  ASSUME NEW s \in Seq(Byte), NEW n \in Nat, SyncPlain(s)
  PROVE  SyncPlain(After(s, n))
<1>1. PICK t : t = After(s, n)
  OBVIOUS
<1>2. /\ t \in Seq(Byte) /\ Len(t) \in Nat /\ (t # <<>> => Len(s) = n + Len(t))
      /\ \A j \in 1 .. Len(t) : n + j \in 1 .. Len(s) /\ t[j] = s[n + j]
  BY <1>1, AfterElements
<1>3. W \in Nat \ {0} /\ Len(s) \in Nat
  BY LenProperties, BootAssumption DEF BootAssumption
<1>4. ASSUME NEW i \in 1 .. Len(t), GpiAt(t, i), NEW j \in 1 .. Len(t), i <= j
      PROVE  t[j][1] # "BOOT_SUCCESS"
  <2>1. Len(s) = n + Len(t)
    <3>1. t # <<>>
      BY <1>2, EmptySeq
    <3> QED BY <1>2, <3>1
  <2>2. ASSUME NEW k \in 1 .. W PROVE s[(n + i) + (k - 1)] = t[i + (k - 1)]
    <3>1. i + (k - 1) \in 1 .. Len(t) /\ n + (i + (k - 1)) = (n + i) + (k - 1)
      BY <1>2, <1>3, <1>4 DEF GpiAt
    <3> QED BY <1>2, <3>1
  <2>3. (n + i) + W <= Len(s) + 1
    BY <1>2, <1>3, <1>4, <2>1 DEF GpiAt
  <2>4. GpiAt(s, n + i)
    BY <1>4, <2>2, <2>3 DEF GpiAt
  <2>5. n + i \in 1 .. Len(s) /\ n + j \in 1 .. Len(s) /\ n + i <= n + j /\ t[j] = s[n + j]
    BY <1>2, <1>4
  <2> QED BY <2>4, <2>5 DEF SyncPlain, PlainFrom
<1>5. SyncPlain(t)
  BY <1>4 DEF SyncPlain, PlainFrom
<1> QED BY <1>1, <1>5

\* A garbled byte spells no new GET_PROG_INFO.
LEMMA SyncPlainCorrupt ==
  ASSUME NEW s \in Seq(Byte), NEW c \in 1 .. Len(s), SyncPlain(s)
  PROVE  SyncPlain([s EXCEPT ![c] = JunkByte])
<1>1. PICK t : t = [s EXCEPT ![c] = JunkByte]
  OBVIOUS
<1>2. Len(s) \in Nat /\ DOMAIN s = 1 .. Len(s) /\ W \in Nat \ {0}
  BY LenProperties, BootAssumption DEF BootAssumption
<1>3. Len(t) = Len(s) /\ \A j \in 1 .. Len(s) : t[j] = IF j = c THEN JunkByte ELSE s[j]
  BY <1>1, <1>2
<1>4. ASSUME NEW i \in 1 .. Len(t), GpiAt(t, i), NEW j \in 1 .. Len(t), i <= j
      PROVE  t[j][1] # "BOOT_SUCCESS"
  <2>1. ASSUME NEW k \in 1 .. W PROVE s[i + (k - 1)] = <<"GET_PROG_INFO", 0, k>>
    <3>1. i + (k - 1) \in 1 .. Len(s)
      BY <1>2, <1>3, <1>4 DEF GpiAt
    <3>2. t[i + (k - 1)] = <<"GET_PROG_INFO", 0, k>>
      BY <1>4 DEF GpiAt
    <3>3. JunkByte # <<"GET_PROG_INFO", 0, k>>
      BY DEF JunkByte
    <3> QED BY <1>3, <3>1, <3>2, <3>3
  <2>2. GpiAt(s, i)
    BY <1>3, <1>4, <2>1 DEF GpiAt
  <2>3. s[j][1] # "BOOT_SUCCESS"
    BY <1>3, <1>4, <2>2 DEF SyncPlain, PlainFrom
  <2> QED BY <1>3, <2>3 DEF JunkByte
<1>5. SyncPlain(t)
  BY <1>4 DEF SyncPlain, PlainFrom
<1> QED BY <1>1, <1>5

\* A word that is read is spelled out byte by byte.
LEMMA WordRead ==
  ASSUME NEW s \in Seq(Byte), Len(s) >= W, WordOf(s) # Junk
  PROVE  \A j \in 1 .. W : s[j] = <<WordOf(s)[1], WordOf(s)[2], j>>
<1>1. Len(s) \in Nat /\ W \in Nat \ {0}
  BY LenProperties, BootAssumption DEF BootAssumption
<1>2. PICK w : w = <<s[1][1], s[1][2]>>
  OBVIOUS
<1>3. WordOf(s) = w /\ SubSeq(s, 1, W) = Bytes(w)
  BY <1>2 DEF WordOf
<1>4. \A j \in 1 .. Len(s) : s[j] \in Byte
  BY ElementOfSeq
<1>5. \A j \in 1 .. W : SubSeq(s, 1, W)[j] = s[j]
  BY <1>1, <1>4, SubSeqProperties
<1>6. \A j \in 1 .. W : Bytes(w)[j] = <<w[1], w[2], j>>
  BY DEF Bytes
<1> QED BY <1>3, <1>5, <1>6

LEMMA GpiRead ==
  ASSUME NEW s \in Seq(Byte), Len(s) >= W, WordOf(s) = Op("GET_PROG_INFO")
  PROVE  GpiAt(s, 1) /\ 1 \in 1 .. Len(s)
<1>1. Len(s) \in Nat /\ W \in Nat \ {0}
  BY LenProperties, BootAssumption DEF BootAssumption
<1>2. \A j \in 1 .. W : s[j] = <<"GET_PROG_INFO", 0, j>>
  BY WordRead DEF Op, Junk
<1>3. \A j \in 1 .. W : 1 + (j - 1) = j
  BY <1>1
<1> QED BY <1>1, <1>2, <1>3 DEF GpiAt

-----------------------------------------------------------------------------
(* The inductive invariant.                                                *)

\* After step 0, before the end.
InStep == {"drain", "crc", "await"}

LineInv ==
  /\ toPi \in Seq(PiByte) /\ toUnix \in Seq(Byte)
  /\ addr \in 0 .. AddrSpace - 1 /\ index \in Nat /\ powers \in Nat
  /\ ppc \in {"putcode", "copy"} => addr # 0

RetInv == ret \in 0 .. AddrSpace - 1 /\ IntactInv

\* There is no memory, so no program, at the addresses notmain reboots for.
MemInv ==
  /\ mem \in [0 .. AddrSpace - 1 -> 0 .. ProgLen]
  /\ \A a \in 0 .. AddrSpace - 1 : Negative(a) => mem[a] = 0

\* Until the program is loaded the laptop, from step 0 on, has no BOOT_SUCCESS
\* to read.
SuccessInv ==
  powers = 0 /\ ~Loaded =>
    /\ upc # "done"
    /\ upc \in InStep => toUnix \in Seq(Plain)
    /\ SyncPlain(toUnix)

BootInv == LineInv /\ RetInv /\ MemInv /\ SuccessInv

LEMMA BootInit == CleanStart /\ Init => BootInv
<1> SUFFICES ASSUME CleanStart, NEW tty \in Garbage, InitWith(tty) PROVE BootInv
  BY DEF Init
<1> USE DEF InitWith
<1>1. AddrSpace \in Nat \ {0} /\ ProgLen \in Nat
  BY BootAssumption DEF BootAssumption
<1>2. tty \in Seq(Byte) /\ SyncPlain(tty)
  BY DEF CleanStart, CleanTty, SyncPlain
<1>3. LineInv
  BY <1>1, <1>2, EmptySeq DEF LineInv
<1>4. RetInv
  BY <1>1 DEF RetInv, IntactInv, Loaded
<1>5. MemInv
  BY <1>1 DEF MemInv
<1>6. SuccessInv
  BY <1>2 DEF SuccessInv, InStep
<1>7. QED BY <1>3, <1>4, <1>5, <1>6 DEF BootInv

\* A loaded program is where there is memory, so notmain branches to it.
LEMMA LoadedIsMemory == BootInv /\ Loaded => ~Negative(ret)
<1> SUFFICES ASSUME BootInv, Loaded PROVE ~Negative(ret)
  OBVIOUS
<1>1. AddrSpace \in Nat \ {0} /\ 1 \in 1 .. ProgLen
  BY BootAssumption DEF BootAssumption
<1>2. mem[(ret + 1 - 1) % AddrSpace] = 1
  BY <1>1 DEF BootInv, RetInv, IntactInv, Intact
<1>3. (ret + 1 - 1) % AddrSpace = ret
  BY <1>1 DEF BootInv, RetInv
<1>4. QED BY <1>2, <1>3 DEF BootInv, RetInv, IntactInv, MemInv

-----------------------------------------------------------------------------
(* The steps of the pi.                                                    *)

\* What the pi sends before the program is loaded keeps the tty clean.
LEMMA PiSends ==
  ASSUME BootInv, NEW m \in Seq(Plain), toUnix' = toUnix \o m, ~Loaded, UNCHANGED <<upc, powers>>
  PROVE  toUnix' \in Seq(Byte) /\ SuccessInv'
<1>1. toUnix \in Seq(Byte) /\ m \in Seq(Byte)
  BY WordsPlain DEF BootInv, LineInv
<1>2. toUnix' \in Seq(Byte)
  BY <1>1, ConcatProperties
<1>3. toUnix \in Seq(Plain) => toUnix' \in Seq(Plain)
  BY ConcatProperties
<1>4. SyncPlain(toUnix) => SyncPlain(toUnix')
  BY <1>1, SyncPlainAppend
<1> QED BY <1>2, <1>3, <1>4 DEF BootInv, SuccessInv

\* An error reply adds no BOOT_SUCCESS, and nothing is loaded after it.
LEMMA GiveUpKeeps ==
  ASSUME BootInv, NEW reply \in Seq(Plain), GiveUp(reply), ~Loaded,
         UNCHANGED <<upc, mem, powers>>
  PROVE  toUnix' \in Seq(Byte) /\ RetInv' /\ MemInv' /\ SuccessInv'
<1>1. AddrSpace \in Nat \ {0}
  BY BootAssumption DEF BootAssumption
<1>2. Putk \o reply \in Seq(Plain) /\ toUnix' = toUnix \o (Putk \o reply)
  <2>1. Putk \in Seq(Plain) /\ toUnix \in Seq(Byte) /\ Putk \in Seq(Byte) /\ reply \in Seq(Byte)
    BY WordsPlain DEF BootInv, LineInv
  <2>2. (toUnix \o Putk) \o reply = toUnix \o (Putk \o reply)
    BY <2>1, ConcatAssociative
  <2> QED BY <2>1, <2>2, ConcatProperties DEF GiveUp
<1>3. toUnix' \in Seq(Byte) /\ SuccessInv'
  BY <1>2, PiSends
<1>4. RetInv'
  BY <1>1 DEF GiveUp, RetInv, IntactInv, Loaded
<1>5. MemInv'
  BY DEF BootInv, MemInv, Negative
<1>6. QED BY <1>3, <1>4, <1>5

LEMMA PiKeeps == CleanStart /\ BootInv /\ PiStep => BootInv'
<1> SUFFICES ASSUME CleanStart, BootInv, PiStep PROVE BootInv'
  OBVIOUS
<1> USE DEF counts
<1>0. AddrSpace \in Nat \ {0} /\ W \in Nat \ {0} /\ 3 * W \in Nat /\ 2 * W \in Nat
  BY BootAssumption DEF BootAssumption
<1>r. \A n \in Nat : After(toPi, n) \in Seq(PiByte)
  BY AfterProperties DEF BootInv, LineInv
<1>1. CASE PiAsk
  <2>1. Bytes(Op("GET_PROG_INFO")) \in Seq(Plain)
    BY WordsPlain DEF Op, Kinds
  <2>3. ~Loaded /\ ~Loaded' /\ ret' = 0
    BY <1>1 DEF PiAsk, Waits, Loaded, BootInv, RetInv, IntactInv
  <2>2. toUnix' \in Seq(Byte) /\ SuccessInv'
    BY <1>1, <2>1, <2>3, PiSends DEF PiAsk
  <2>4. LineInv'
    BY <1>1, <2>2 DEF PiAsk, BootInv, LineInv
  <2>5. RetInv' /\ MemInv'
    BY <1>0, <1>1, <2>3 DEF PiAsk, Waits, BootInv, RetInv, IntactInv, MemInv, Negative
  <2>7. QED BY <2>2, <2>4, <2>5 DEF BootInv
<1>2. CASE PiGetOp
  <2>1. ~Loaded
    BY <1>2 DEF PiGetOp, Loaded
  <2>2. CASE GiveUp(<<>>) /\ ppc' = "return"
    BY <1>0, <1>r, <1>2, <2>1, <2>2, GiveUpKeeps, EmptySeq
       DEF PiGetOp, BootInv, LineInv
  <2>3. CASE ppc' = "header" /\ UNCHANGED <<toUnix, ret>>
    BY <1>0, <1>r, <1>2, <2>3
       DEF PiGetOp, BootInv, LineInv, RetInv, IntactInv, MemInv, SuccessInv, Loaded, Negative
  <2>4. QED BY <1>2, <2>2, <2>3 DEF PiGetOp, GiveUp
<1>3. CASE PiGetHeader
  <2>1. ~Loaded
    BY <1>3 DEF PiGetHeader, Loaded
  <2>2. Len(toPi) \in Nat /\ toPi \in Seq(PiByte)
    BY LenProperties DEF BootInv, LineInv
  <2>3. PICK a \in Numbers(WordOf(toPi)) :
          /\ addr' = a /\ cksum' = WordOf(After(toPi, 2 * W))
          /\ \/ GiveUp(Bytes(Op("BAD_CODE_ADDR")))
             \/ /\ toUnix' = toUnix \o Bytes(Op("GET_CODE")) \o Bytes(cksum')
                /\ ppc' = "putcode" /\ ret' = ret
    BY <1>3 DEF PiGetHeader
  <2>4. addr' \in 1 .. AddrSpace - 1
    BY <1>0, <1>3, <2>2, <2>3, NumbersRead DEF PiGetHeader
  <2>5. CASE GiveUp(Bytes(Op("BAD_CODE_ADDR")))
    <3>1. Bytes(Op("BAD_CODE_ADDR")) \in Seq(Plain)
      BY WordsPlain DEF Op, Kinds
    <3>2. QED BY <1>0, <1>r, <1>3, <2>1, <2>4, <2>5, <3>1, GiveUpKeeps
                DEF PiGetHeader, BootInv, LineInv
  <2>6. CASE /\ toUnix' = toUnix \o Bytes(Op("GET_CODE")) \o Bytes(cksum')
             /\ ppc' = "putcode" /\ ret' = ret
    <3>1. Bytes(Op("GET_CODE")) \in Seq(Plain)
      BY WordsPlain DEF Op, Kinds
    <3>2. Bytes(cksum') \in Seq(Plain)
      <4>1. After(toPi, 2 * W) \in Seq(PiByte) /\ Len(After(toPi, 2 * W)) >= W
        <5>1. 2 * W <= Len(toPi) /\ Len(toPi) - 2 * W >= W
          BY <1>0, <1>3, <2>2 DEF PiGetHeader
        <5>2. QED BY <1>0, <2>2, <5>1, AfterProperties
      <4>2. QED BY <2>3, <4>1, WordPlain
    <3>3. toUnix' \in Seq(Byte) /\ SuccessInv'
      <4> DEFINE m == Bytes(Op("GET_CODE")) \o Bytes(cksum')
      <4>1. m \in Seq(Plain)
        BY <3>1, <3>2, ConcatProperties
      <4>2. toUnix' = toUnix \o m
        BY <2>6, <3>1, <3>2, WordsPlain, ConcatAssociative, SMTT(60) DEF BootInv, LineInv
      <4> HIDE DEF m
      <4>3. UNCHANGED <<upc, powers>>
        BY <1>3 DEF PiGetHeader
      <4> QED BY <2>1, <4>1, <4>2, <4>3, PiSends
    <3>4. toPi' \in Seq(PiByte) /\ addr' \in 0 .. AddrSpace - 1 /\ addr' # 0 /\ ~Loaded' /\ ret = 0
      BY <1>0, <1>r, <1>3, <2>4, <2>6 DEF PiGetHeader, Loaded, BootInv, RetInv, IntactInv
    <3>5. LineInv' /\ SuccessInv'
      BY <1>3, <2>6, <3>3, <3>4 DEF PiGetHeader, BootInv, LineInv
    <3>6. RetInv' /\ MemInv'
      BY <1>0, <1>3, <2>6, <3>4 DEF PiGetHeader, BootInv, RetInv, IntactInv, MemInv, Negative
    <3>7. QED BY <3>5, <3>6 DEF BootInv
  <2>7. QED BY <2>3, <2>5, <2>6
<1>4. CASE PiGetPutCode
  <2>1. ~Loaded
    BY <1>4 DEF PiGetPutCode, Loaded
  <2>2. CASE GiveUp(<<>>) /\ index' = index
    BY <1>0, <1>r, <1>4, <2>1, <2>2, GiveUpKeeps, EmptySeq
       DEF PiGetPutCode, GiveUp, BootInv, LineInv
  <2>3. CASE ppc' = "copy" /\ index' = 0 /\ UNCHANGED <<toUnix, ret>>
    BY <1>0, <1>r, <1>4, <2>3
       DEF PiGetPutCode, BootInv, LineInv, RetInv, IntactInv, MemInv, SuccessInv, Loaded, Negative
  <2>4. QED BY <1>4, <2>2, <2>3 DEF PiGetPutCode
<1>5. CASE PiCopy
  <2>1. Head(toPi) \in PiByte /\ Tail(toPi) \in Seq(PiByte)
    BY <1>5, HeadTailProperties DEF PiCopy, BootInv, LineInv
  <2>2. (Head(toPi)[1] = "code" => Head(toPi)[2] \in 0 .. ProgLen) /\ ProgLen \in Nat
    BY <2>1, BootAssumption DEF PiByte, BootAssumption
  <2>3. MemInv'
    <3>1. PICK a : a = (addr + index) % AddrSpace
      OBVIOUS
    <3>2. PICK v : v = IF Head(toPi)[1] = "code" /\ ~Negative(a) THEN Head(toPi)[2] ELSE 0
      OBVIOUS
    <3>3. v \in 0 .. ProgLen /\ (Negative(a) => v = 0)
      BY <2>2, <3>2
    <3>4. mem' = [mem EXCEPT ![a] = v]
      BY <1>5, <3>1, <3>2 DEF PiCopy
    <3>5. mem \in [0 .. AddrSpace - 1 -> 0 .. ProgLen]
      BY DEF BootInv, MemInv
    <3>6. mem' \in [0 .. AddrSpace - 1 -> 0 .. ProgLen]
      BY <3>3, <3>4, <3>5
    <3>7. ASSUME NEW b \in 0 .. AddrSpace - 1, Negative(b) PROVE mem'[b] = 0
      BY <3>3, <3>4, <3>5, <3>7 DEF BootInv, MemInv
    <3> QED BY <3>6, <3>7 DEF MemInv, Negative
  <2>4. ~Loaded /\ ~Loaded' /\ ret = 0
    BY <1>5 DEF PiCopy, Loaded, BootInv, RetInv, IntactInv
  <2>5. LineInv' /\ SuccessInv'
    BY <1>5, <2>1, <2>4 DEF PiCopy, BootInv, LineInv, SuccessInv
  <2>6. RetInv'
    BY <1>0, <1>5, <2>4 DEF PiCopy, RetInv, IntactInv
  <2>7. QED BY <2>3, <2>5, <2>6 DEF BootInv
<1>6. CASE PiVerify
  <2>1. ~Loaded
    BY <1>6 DEF PiVerify, Loaded
  <2>2. CASE /\ CksumOk
             /\ toUnix' = toUnix \o Putk \o Bytes(Op("BOOT_SUCCESS"))
             /\ ppc' = "return" /\ ret' = addr
    <3>1. Bytes(Op("BOOT_SUCCESS")) \in Seq(Byte)
      BY WordsPlain DEF Op, Kinds
    <3>2. toUnix' \in Seq(Byte)
      BY <2>2, <3>1, WordsPlain, ConcatProperties DEF BootInv, LineInv
    <3>3. Loaded' /\ Intact(ret)' /\ ret' \in 0 .. AddrSpace - 1
      BY <1>6, <2>2 DEF PiVerify, CksumOk, Intact, Loaded, BootInv, LineInv
    <3>4. LineInv' /\ SuccessInv'
      BY <1>6, <2>2, <3>2, <3>3 DEF PiVerify, BootInv, LineInv, SuccessInv
    <3>5. RetInv' /\ MemInv'
      BY <1>6, <2>2, <3>3 DEF PiVerify, BootInv, RetInv, IntactInv, MemInv, Negative
    <3>6. QED BY <3>4, <3>5 DEF BootInv
  <2>3. CASE GiveUp(Bytes(Op("BAD_CODE_CKSUM")))
    <3>1. Bytes(Op("BAD_CODE_CKSUM")) \in Seq(Plain)
      BY WordsPlain DEF Op, Kinds
    <3>2. QED BY <1>6, <2>1, <2>3, <3>1, GiveUpKeeps DEF PiVerify, GiveUp, BootInv, LineInv
  <2>4. QED BY <1>6, <2>2, <2>3 DEF PiVerify
<1>7. CASE PiBranch
  <2>1. Loaded <=> Loaded'
    BY <1>7, LoadedIsMemory DEF PiBranch, Loaded
  <2>2. LineInv' /\ MemInv' /\ SuccessInv'
    BY <1>7, <2>1 DEF PiBranch, BootInv, LineInv, MemInv, SuccessInv, Negative
  <2>3. RetInv'
    BY <1>7, <2>1 DEF PiBranch, BootInv, RetInv, IntactInv, Intact
  <2>4. QED BY <2>2, <2>3 DEF BootInv
<1>8. QED
  BY <1>1, <1>2, <1>3, <1>4, <1>5, <1>6, <1>7 DEF PiStep

-----------------------------------------------------------------------------
(* The steps of the laptop.                                                *)

\* Only a BOOT_SUCCESS takes the laptop to its end.
LEMMA UnixGoesKeeps ==
  ASSUME BootInv, NEW pc, NEW n \in Nat, NEW reply \in Seq(PiByte),
         UnixGoes(pc, n, reply),
         pc = "done" => upc \in InStep /\ toUnix \notin Seq(Plain),
         pc \in InStep => upc \in InStep \/ (GpiAt(toUnix, 1) /\ 1 \in 1 .. Len(toUnix))
  PROVE  BootInv'
<1>1. toPi' \in Seq(PiByte)
  BY ConcatProperties DEF UnixGoes, BootInv, LineInv
<1>2. /\ toUnix \in Seq(Byte) /\ toUnix' \in Seq(Byte)
      /\ toUnix \in Seq(Plain) => toUnix' \in Seq(Plain)
      /\ SyncPlain(toUnix) => SyncPlain(toUnix')
  BY AfterProperties, SyncPlainAfter DEF UnixGoes, BootInv, LineInv
<1>3. Loaded <=> Loaded'
  BY DEF UnixGoes, pi, Loaded
<1>a. LineInv'
  BY <1>1, <1>2 DEF UnixGoes, pi, counts, BootInv, LineInv
<1>b. SuccessInv'
  <2> SUFFICES ASSUME powers = 0, ~Loaded
               PROVE  upc' # "done" /\ (upc' \in InStep => toUnix' \in Seq(Plain)) /\ SyncPlain(toUnix')
    BY <1>3 DEF UnixGoes, counts, SuccessInv
  <2>1. upc' = pc /\ SyncPlain(toUnix) /\ (upc \in InStep => toUnix \in Seq(Plain))
    BY DEF UnixGoes, BootInv, SuccessInv
  <2>2. pc \in InStep => toUnix \in Seq(Plain)
    BY <1>2, <2>1, PlainSyncs DEF SyncPlain
  <2> QED BY <1>2, <2>1, <2>2
<1>4. LineInv' /\ SuccessInv'
  BY <1>a, <1>b
<1>5. RetInv' /\ MemInv'
  BY <1>3 DEF UnixGoes, pi, BootInv, RetInv, IntactInv, MemInv, Intact, Negative
<1>6. QED BY <1>4, <1>5 DEF BootInv

LEMMA UnixKeeps == CleanStart /\ BootInv /\ UnixStep => BootInv'
<1> SUFFICES ASSUME CleanStart, BootInv, UnixStep PROVE BootInv'
  OBVIOUS
<1>0. /\ W \in Nat \ {0} /\ Resync \in Nat /\ 2 * W \in Nat
      /\ <<>> \in Seq(PiByte) /\ toUnix \in Seq(Byte) /\ Len(toUnix) \in Nat
  BY BootAssumption, LenProperties DEF BootAssumption, Resync, BootInv, LineInv
<1>1. CASE UnixPrint
  <2>1. upc # "done" /\ Len(toUnix) >= 2 * W
    BY <1>1 DEF UnixPrint, Reading
  <2>2. After(toUnix, W) \in Seq(Byte) /\ Len(After(toUnix, W)) >= W
    <3>1. W <= Len(toUnix) /\ Len(toUnix) - W >= W
      BY <1>0, <2>1
    <3>2. QED BY <1>0, <3>1, AfterProperties
  <2>3. Numbers(WordOf(After(toUnix, W))) \subseteq Nat
    BY <2>2, NumbersRead
  <2>4. PICK n \in Nat : \/ UnixGoes(upc, PrintLen(n), <<>>)
                        \/ UnixGoes("panic", 2 * W, <<>>)
    BY <1>1, <2>3 DEF UnixPrint
  <2>5. PrintLen(n) \in Nat
    BY <1>0 DEF PrintLen
  <2>6. upc # "done" /\ "panic" \notin InStep /\ "panic" # "done"
    BY <2>1 DEF InStep
  <2>7. QED BY <1>0, <2>4, <2>5, <2>6, UnixGoesKeeps
<1>2. CASE UnixSync
  <2>1. CASE NextOp(Op("GET_PROG_INFO")) /\ UnixGoes("drain", W, Header)
    <3>1. GpiAt(toUnix, 1) /\ 1 \in 1 .. Len(toUnix)
      BY <1>0, <2>1, GpiRead DEF NextOp
    <3> QED BY <1>0, <2>1, <3>1, SentToPi, UnixGoesKeeps
  <2>2. CASE UnixGoes("sync", Resync, <<>>)
    BY <1>0, <2>2, UnixGoesKeeps DEF InStep
  <2>3. QED BY <1>2, <2>1, <2>2 DEF UnixSync
<1>3. CASE UnixDrain
  <2>1. \E pc \in {"drain", "crc", "panic"} : UnixGoes(pc, W, <<>>)
    BY <1>3 DEF UnixDrain
  <2>2. upc \in InStep
    BY <1>3 DEF UnixDrain, InStep
  <2>3. QED BY <1>0, <2>1, <2>2, UnixGoesKeeps
<1>4. CASE UnixCrc
  <2>1. \/ UnixGoes("await", W, Bytes(Op("PUT_CODE")) \o Code) \/ UnixGoes("echo", W, <<>>)
    BY <1>4 DEF UnixCrc, Mismatch
  <2>2. upc \in InStep
    BY <1>4 DEF UnixCrc, InStep
  <2>3. QED BY <1>0, <2>1, <2>2, SentToPi, UnixGoesKeeps
<1>5. CASE UnixAwait
  <2>0. upc \in InStep
    BY <1>5 DEF UnixAwait, InStep
  <2>1. CASE UnixGoes("echo", W, <<>>)
    BY <1>0, <2>0, <2>1, UnixGoesKeeps
  <2>2. CASE NextOp(Op("BOOT_SUCCESS")) /\ UnixGoes("done", W, <<>>)
    <3>1. Len(toUnix) >= W /\ WordOf(toUnix)[1] = "BOOT_SUCCESS"
      BY <2>2 DEF NextOp, Op
    <3>2. toUnix[1][1] = "BOOT_SUCCESS"
      BY <1>0, <3>1, WordOfProperties
    <3>3. toUnix \notin Seq(Plain)
      BY <1>0, <3>1, <3>2, ElementOfSeq DEF Plain
    <3>4. QED BY <1>0, <2>0, <2>2, <3>3, UnixGoesKeeps
  <2>3. QED BY <1>5, <2>1, <2>2 DEF UnixAwait, Success, Mismatch
<1>6. CASE UnixTimeout
  <2>1. upc' = "panic" /\ UNCHANGED <<toPi, toUnix, pi, counts>>
    BY <1>6 DEF UnixTimeout
  <2>2. QED BY <2>1 DEF pi, counts, BootInv, LineInv, RetInv, IntactInv, MemInv, SuccessInv,
                        InStep, Loaded, Intact, Negative
<1>7. CASE UnixEcho
  <2>1. UnixGoes("echo", 1, <<>>) /\ "echo" \notin InStep
    BY <1>7 DEF UnixEcho, InStep
  <2>2. QED BY <1>0, <2>1, UnixGoesKeeps
<1>8. QED BY <1>1, <1>2, <1>3, <1>4, <1>5, <1>6, <1>7 DEF UnixStep

-----------------------------------------------------------------------------
(* The line and the user; the theorems.                                    *)

LEMMA FaultsKeep == BootInv /\ (Lose \/ Corrupt \/ Relaunch \/ PowerCycle) => BootInv'
<1> SUFFICES ASSUME BootInv, Lose \/ Corrupt \/ Relaunch \/ PowerCycle PROVE BootInv'
  OBVIOUS
<1>0. /\ AddrSpace \in Nat \ {0} /\ FifoSize \in Nat
      /\ toPi \in Seq(PiByte) /\ toUnix \in Seq(Byte)
      /\ Len(toPi) \in Nat /\ Len(toUnix) \in Nat
  BY BootAssumption, LenProperties DEF BootAssumption, BootInv, LineInv
<1>1. JunkByte \in Plain /\ JunkByte \in Byte /\ JunkByte \in PiByte
  BY DEF JunkByte, Plain, PiByte, Byte, Kinds
\* a fault on the line or a relaunch leaves the pi alone
<1>2. ASSUME toPi' \in Seq(PiByte), toUnix' \in Seq(Byte), UNCHANGED <<pi, powers>>,
             toUnix \in Seq(Plain) => toUnix' \in Seq(Plain),
             SyncPlain(toUnix) => SyncPlain(toUnix'), upc' \in {upc, "sync"}
      PROVE  BootInv'
  <2>1. Loaded <=> Loaded'
    BY <1>2 DEF pi, Loaded
  <2>2. LineInv' /\ SuccessInv'
    BY <1>2, <2>1 DEF pi, BootInv, LineInv, SuccessInv, InStep
  <2>3. RetInv' /\ MemInv'
    BY <1>2, <2>1 DEF pi, BootInv, RetInv, IntactInv, MemInv, Intact, Negative
  <2>4. QED BY <2>2, <2>3 DEF BootInv
<1>3. CASE Lose
  <2>1. PICK i \in FifoSize + 1 .. Len(toPi) :
          toPi' = SubSeq(toPi, 1, i - 1) \o SubSeq(toPi, i + 1, Len(toPi))
    BY <1>3 DEF Lose
  <2>2. SubSeq(toPi, 1, i - 1) \in Seq(PiByte)
    BY <1>0, ElementOfSeq, SubSeqProperties
  <2>3. SubSeq(toPi, i + 1, Len(toPi)) \in Seq(PiByte)
    BY <1>0, ElementOfSeq, SubSeqProperties
  <2>4. toPi' \in Seq(PiByte)
    BY <2>1, <2>2, <2>3, ConcatProperties
  <2>5. QED BY <1>0, <1>2, <1>3, <2>4 DEF Lose
<1>4. CASE Corrupt
  <2>1. CASE toUnix' = toUnix /\ \E i \in 1 .. Len(toPi) : toPi' = [toPi EXCEPT ![i] = JunkByte]
    <3>1. toPi' \in Seq(PiByte)
      BY <1>0, <1>1, <2>1, ExceptSeq
    <3>2. QED BY <1>0, <1>2, <1>4, <2>1, <3>1 DEF Corrupt
  <2>2. CASE toPi' = toPi /\ \E i \in 1 .. Len(toUnix) : toUnix' = [toUnix EXCEPT ![i] = JunkByte]
    <3>0. PICK i \in 1 .. Len(toUnix) : toUnix' = [toUnix EXCEPT ![i] = JunkByte]
      BY <2>2
    <3>a. toUnix' \in Seq(Byte) /\ (toUnix \in Seq(Plain) => toUnix' \in Seq(Plain))
      BY <1>0, <1>1, <3>0, ExceptSeq
    <3>b. SyncPlain(toUnix) => SyncPlain(toUnix')
      BY <1>0, <3>0, SyncPlainCorrupt
    <3>1. /\ toUnix' \in Seq(Byte) /\ (toUnix \in Seq(Plain) => toUnix' \in Seq(Plain))
          /\ SyncPlain(toUnix) => SyncPlain(toUnix')
      BY <3>a, <3>b
    <3>2. QED BY <1>0, <1>2, <1>4, <2>2, <3>1 DEF Corrupt
  <2>3. QED BY <1>4, <2>1, <2>2 DEF Corrupt
<1>5. CASE Relaunch
  BY <1>0, <1>2, <1>5 DEF Relaunch
<1>6. CASE PowerCycle
  <2>1. toPi' \in Seq(PiByte)
    BY <1>0, <1>6, AfterProperties DEF PowerCycle
  <2>2. LineInv' /\ SuccessInv'
    BY <1>6, <2>1 DEF PowerCycle, BootInv, LineInv, SuccessInv
  <2>3. RetInv' /\ MemInv'
    <3>1. ProgLen \in Nat /\ 0 \in 0 .. AddrSpace - 1 /\ 0 \in 0 .. ProgLen
      BY <1>0, BootAssumption DEF BootAssumption
    <3>2. mem' = [a \in 0 .. AddrSpace - 1 |-> 0] /\ ret' = 0 /\ ppc' = "ask"
      BY <1>6 DEF PowerCycle
    <3> QED BY <3>1, <3>2 DEF RetInv, IntactInv, MemInv, Loaded, Negative
  <2>4. QED BY <2>2, <2>3 DEF BootInv
<1>7. QED BY <1>3, <1>4, <1>5, <1>6

LEMMA BootNext == CleanStart /\ BootInv /\ [Next]_vars => BootInv'
<1>1. ASSUME BootInv, UNCHANGED vars PROVE BootInv'
  BY <1>1 DEF vars, BootInv, LineInv, RetInv, IntactInv, MemInv, SuccessInv, Loaded, Intact, Negative
<1>2. QED BY <1>1, PiKeeps, UnixKeeps, FaultsKeep DEF Next

\* simple_boot's exit with success: as long as the pi is not power-cycled, it
\* holds the whole program and is about to run it, or runs it.
THEOREM BootSuccessMeansLoaded ==
  ASSUME CleanStart PROVE Spec => []SuccessMeansLoaded
<1>1. Init => BootInv
  BY BootInit
<1>2. BootInv /\ [Next]_vars => BootInv'
  BY BootNext
<1>3. BootInv => SuccessMeansLoaded
  BY DEF BootInv, RetInv, IntactInv, SuccessInv, SuccessMeansLoaded
<1>4. QED BY <1>1, <1>2, <1>3, PTL DEF Spec

-----------------------------------------------------------------------------
(* Whole messages.                                                         *)

\* s is made of whole messages, the last of them perhaps still on its way.
Aligned(s) == LinkedFrom(s, 1) /\ (s # <<>> => s[1][3] = 1)

\* What follows a GET_PROG_INFO in s is.
SyncLinked(s) == \A i \in 1 .. Len(s) : GpiAt(s, i) => LinkedFrom(s, i)

\* t is d elements and then those of s.
Shifted(t, s, d) ==
  /\ Len(t) = d + Len(s)
  /\ \A k \in 1 .. Len(s) : t[d + k] = s[k]

\* Whether a byte is followed by what it should be depends on nothing before it.
LEMMA LinkShifts ==
  ASSUME NEW s \in Seq(Byte), NEW t, NEW d \in Nat, Shifted(t, s, d), NEW j \in 1 .. Len(s)
  PROVE  LinkAt(t, d + j) <=> LinkAt(s, j)
<1>1. Len(s) \in Nat /\ W \in Nat \ {0} /\ Len(t) = d + Len(s)
  BY LenProperties, BootAssumption DEF BootAssumption, Shifted
<1>2. t[d + j] = s[j]
  BY DEF Shifted
<1>3. d + j < Len(t) <=> j < Len(s)
  BY <1>1
<1>4. d + j = Len(t) <=> j = Len(s)
  BY <1>1
<1>5. j < Len(s) => t[(d + j) + 1] = s[j + 1]
  <2> SUFFICES ASSUME j < Len(s) PROVE t[(d + j) + 1] = s[j + 1]
    OBVIOUS
  <2>1. j + 1 \in 1 .. Len(s) /\ (d + j) + 1 = d + (j + 1)
    BY <1>1
  <2> QED BY <2>1 DEF Shifted
<1>6. (d + j) + W < Len(t) <=> j + W < Len(s)
  BY <1>1
<1>7. ASSUME j + W < Len(s), NEW i \in 1 .. W + 1 PROVE t[(d + j) + i] = s[j + i]
  <2>1. j + i \in 1 .. Len(s) /\ (d + j) + i = d + (j + i)
    BY <1>1, <1>7
  <2> QED BY <2>1 DEF Shifted
<1>8. j + W < Len(s) => t[(d + j) + (W + 1)] = s[j + (W + 1)] /\ \A i \in 1 .. W : t[(d + j) + i] = s[j + i]
  <2>1. W + 1 \in 1 .. W + 1 /\ \A i \in 1 .. W : i \in 1 .. W + 1
    BY <1>1
  <2> QED BY <1>7, <2>1
<1>9. PICK b : b = s[j]
  OBVIOUS
<1>a. b[3] \in 1 .. W - 1 =>
        ((j < Len(s) /\ s[j + 1] = <<b[1], b[2], b[3] + 1>>)
           <=> (d + j < Len(t) /\ t[(d + j) + 1] = <<b[1], b[2], b[3] + 1>>))
  BY <1>3, <1>5
<1>b. (j = Len(s) \/ s[j + 1][3] = 1) <=> (d + j = Len(t) \/ t[(d + j) + 1][3] = 1)
  <2>1. CASE j = Len(s)
    BY <1>4, <2>1
  <2>2. CASE j # Len(s)
    <3>1. j < Len(s)
      BY <1>1, <2>2
    <3> QED BY <1>4, <1>5, <2>2, <3>1
  <2> QED BY <2>1, <2>2
<1>c. (/\ j + W < Len(s) /\ s[j + (W + 1)] = <<"text", 0, 0>>
       /\ \A i \in 1 .. W : s[j + i] = <<"num", 1, i>>)
      <=> (/\ (d + j) + W < Len(t) /\ t[(d + j) + (W + 1)] = <<"text", 0, 0>>
           /\ \A i \in 1 .. W : t[(d + j) + i] = <<"num", 1, i>>)
  BY <1>6, <1>8
<1>d. s[j] = b /\ t[d + j] = b
  BY <1>2, <1>9
<1> QED BY <1>a, <1>b, <1>c, <1>d, Zenon DEF LinkAt

\* What remains, by its place in what was.
LEMMA AfterShifted ==
  ASSUME NEW s \in Seq(Byte), NEW n \in Nat, After(s, n) # <<>>
  PROVE  Shifted(s, After(s, n), n)
BY AfterElements DEF Shifted

LEMMA LinkedAfter ==
  ASSUME NEW s \in Seq(Byte), NEW n \in Nat
  PROVE  /\ LinkedFrom(s, 1) => LinkedFrom(After(s, n), 1)
         /\ SyncLinked(s) => SyncLinked(After(s, n))
<1>1. PICK t : t = After(s, n)
  OBVIOUS
<1>2. t \in Seq(Byte) /\ Len(t) \in Nat /\ W \in Nat \ {0} /\ Len(s) \in Nat
  BY <1>1, AfterElements, LenProperties, BootAssumption DEF BootAssumption
<1>3. CASE t = <<>>
  <2>1. 1 .. Len(t) = {}
    BY <1>3
  <2> QED BY <1>1, <2>1 DEF LinkedFrom, SyncLinked
<1>4. CASE t # <<>>
  <2>1. Shifted(s, t, n) /\ Len(s) = n + Len(t)
    BY <1>1, <1>4, AfterShifted DEF Shifted
  <2>2. ASSUME NEW j \in 1 .. Len(t) PROVE LinkAt(s, n + j) <=> LinkAt(t, j)
    BY <1>2, <2>1, LinkShifts
  <2>3. \A j \in 1 .. Len(t) : n + j \in 1 .. Len(s)
    BY <1>2, <2>1
  <2>4. ASSUME NEW i \in 1 .. Len(t), LinkedFrom(s, n + i) PROVE LinkedFrom(t, i)
    <3>1. ASSUME NEW j \in 1 .. Len(t), i <= j PROVE LinkAt(t, j)
      <4>1. n + i <= n + j /\ n + j \in 1 .. Len(s)
        BY <1>2, <2>3, <3>1
      <4> QED BY <2>2, <2>4, <4>1 DEF LinkedFrom
    <3> QED BY <3>1 DEF LinkedFrom
  <2>5. ASSUME LinkedFrom(s, 1) PROVE LinkedFrom(t, 1)
    <3>1. 1 \in 1 .. Len(t)
      BY <1>2, <1>4, EmptySeq
    <3>2. \A j \in 1 .. Len(s) : n + 1 <= j => 1 <= j
      OBVIOUS
    <3>3. LinkedFrom(s, n + 1)
      BY <2>5, <3>2 DEF LinkedFrom
    <3> QED BY <2>4, <3>1, <3>3
  <2>6. ASSUME SyncLinked(s), NEW i \in 1 .. Len(t), GpiAt(t, i) PROVE LinkedFrom(t, i)
    <3>1. ASSUME NEW k \in 1 .. W PROVE s[(n + i) + (k - 1)] = t[i + (k - 1)]
      <4>1. i + (k - 1) \in 1 .. Len(t) /\ n + (i + (k - 1)) = (n + i) + (k - 1)
        BY <1>2, <2>6 DEF GpiAt
      <4> QED BY <2>1, <4>1 DEF Shifted
    <3>2. (n + i) + W <= Len(s) + 1
      BY <1>2, <2>1, <2>6 DEF GpiAt
    <3>3. GpiAt(s, n + i)
      BY <2>6, <3>1, <3>2 DEF GpiAt
    <3> QED BY <2>3, <2>4, <2>6, <3>3 DEF SyncLinked
  <2> QED BY <1>1, <2>5, <2>6 DEF SyncLinked
<1> QED BY <1>3, <1>4

\* Whole messages after whole messages.
LEMMA LinkedAppend ==
  ASSUME NEW s \in Seq(Byte), NEW m \in Seq(Byte), Aligned(m), NEW i \in 1 .. Len(s) + Len(m),
         i <= Len(s) => LinkedFrom(s, i)
  PROVE  LinkedFrom(s \o m, i)
<1>1. PICK t : t = s \o m
  OBVIOUS
<1>2. Len(s) \in Nat /\ Len(m) \in Nat /\ W \in Nat \ {0}
  BY LenProperties, BootAssumption DEF BootAssumption
<1>3. /\ Len(t) = Len(s) + Len(m)
      /\ \A j \in 1 .. Len(s) + Len(m) : t[j] = IF j <= Len(s) THEN s[j] ELSE m[j - Len(s)]
  BY <1>1, ConcatProperties
<1>4. \A j \in 1 .. Len(s) : t[j] = s[j]
  BY <1>2, <1>3
<1>5. Shifted(t, m, Len(s))
  <2>1. \A k \in 1 .. Len(m) : Len(s) + k \in 1 .. Len(s) + Len(m) /\ ~(Len(s) + k <= Len(s)) /\ (Len(s) + k) - Len(s) = k
    BY <1>2
  <2> QED BY <1>3, <2>1 DEF Shifted
<1>6. ASSUME NEW j \in 1 .. Len(t), i <= j, j > Len(s) PROVE LinkAt(t, j)
  <2>1. j - Len(s) \in 1 .. Len(m) /\ Len(s) + (j - Len(s)) = j /\ 1 <= j - Len(s)
    BY <1>2, <1>3, <1>6
  <2>2. LinkAt(m, j - Len(s))
    BY <2>1 DEF Aligned, LinkedFrom
  <2>3. PICK k \in 1 .. Len(m) : k = j - Len(s) /\ Len(s) + k = j
    BY <2>1
  <2>4. LinkAt(t, Len(s) + k) <=> LinkAt(m, k)
    BY <1>2, <1>5, LinkShifts
  <2> QED BY <2>2, <2>3, <2>4
<1>7. ASSUME NEW j \in 1 .. Len(t), i <= j, j <= Len(s) PROVE LinkAt(t, j)
  <2>1. j \in 1 .. Len(s) /\ i <= Len(s)
    BY <1>2, <1>7
  <2>2. LinkAt(s, j) /\ t[j] = s[j]
    BY <1>4, <1>7, <2>1 DEF LinkedFrom
  <2>3. j < Len(s) => j < Len(t) /\ t[j + 1] = s[j + 1]
    <3>1. j < Len(s) => j < Len(t) /\ j + 1 \in 1 .. Len(s)
      BY <1>2, <1>3
    <3> QED BY <1>4, <3>1
  <2>4. j + W < Len(s) => j + W < Len(t) /\ t[j + (W + 1)] = s[j + (W + 1)]
                          /\ \A k \in 1 .. W : t[j + k] = s[j + k]
    <3> SUFFICES ASSUME j + W < Len(s)
                 PROVE  j + W < Len(t) /\ t[j + (W + 1)] = s[j + (W + 1)]
                        /\ \A k \in 1 .. W : t[j + k] = s[j + k]
      OBVIOUS
    <3>1. j + W < Len(t) /\ j + (W + 1) \in 1 .. Len(s) /\ \A k \in 1 .. W : j + k \in 1 .. Len(s)
      BY <1>2, <1>3
    <3> QED BY <1>4, <3>1
  <2>5. j = Len(s) => j = Len(t) \/ t[j + 1][3] = 1
    <3> SUFFICES ASSUME j = Len(s), j # Len(t) PROVE t[j + 1][3] = 1
      OBVIOUS
    <3>1. 1 \in 1 .. Len(m) /\ Len(m) # 0
      BY <1>2, <1>3
    <3>2. t[Len(s) + 1] = m[1]
      BY <1>5, <3>1 DEF Shifted
    <3>3. m # <<>>
      BY <3>1
    <3> QED BY <3>2, <3>3 DEF Aligned
  <2>6. (j = Len(s) \/ s[j + 1][3] = 1) => (j = Len(t) \/ t[j + 1][3] = 1)
    <3>1. CASE j = Len(s)
      BY <2>5, <3>1
    <3>2. CASE j # Len(s)
      <4>1. j < Len(s)
        BY <1>2, <2>1, <3>2
      <4> QED BY <2>3, <3>2, <4>1
    <3> QED BY <3>1, <3>2
  <2>7. PICK b : b = s[j]
    OBVIOUS
  <2>8. s[j] = b /\ t[j] = b
    BY <2>2, <2>7
  <2> QED BY <2>2, <2>3, <2>4, <2>6, <2>8, Zenon DEF LinkAt
<1>8. \A j \in 1 .. Len(t) : j > Len(s) \/ j <= Len(s)
  BY <1>2
<1> QED BY <1>1, <1>6, <1>7, <1>8 DEF LinkedFrom

LEMMA AlignedAppend ==
  ASSUME NEW s \in Seq(Byte), NEW m \in Seq(Byte), Aligned(m)
  PROVE  /\ Aligned(s) => Aligned(s \o m)
         /\ SyncLinked(s) => SyncLinked(s \o m)
<1>1. PICK t : t = s \o m
  OBVIOUS
<1>2. Len(s) \in Nat /\ Len(m) \in Nat /\ W \in Nat \ {0} /\ t \in Seq(Byte)
  BY <1>1, LenProperties, ConcatProperties, BootAssumption DEF BootAssumption
<1>3. /\ Len(t) = Len(s) + Len(m)
      /\ \A j \in 1 .. Len(s) + Len(m) : t[j] = IF j <= Len(s) THEN s[j] ELSE m[j - Len(s)]
  BY <1>1, ConcatProperties
<1>4. ASSUME Aligned(s) PROVE Aligned(t)
  <2>1. CASE s = <<>>
    <3>1. t = m
      BY <1>1, <2>1, ConcatEmptySeq
    <3> QED BY <3>1
  <2>2. CASE s # <<>>
    <3>1. 1 \in 1 .. Len(s) /\ 1 \in 1 .. Len(s) + Len(m)
      BY <1>2, <2>2, EmptySeq
    <3>2. t[1] = s[1]
      BY <1>3, <3>1
    <3>3. LinkedFrom(t, 1)
      BY <1>1, <1>4, <3>1, LinkedAppend DEF Aligned
    <3> QED BY <1>4, <2>2, <3>2, <3>3 DEF Aligned
  <2> QED BY <2>1, <2>2
<1>5. ASSUME SyncLinked(s), NEW i \in 1 .. Len(t), GpiAt(t, i) PROVE LinkedFrom(t, i)
  <2>0. i \in 1 .. Len(s) + Len(m)
    BY <1>3
  <2>1. CASE i > Len(s)
    <3>1. ~(i <= Len(s))
      BY <1>2, <2>1
    <3> QED BY <1>1, <2>0, <3>1, LinkedAppend
  <2>2. CASE i <= Len(s) /\ i + W <= Len(s) + 1
    <3>1. ASSUME NEW k \in 1 .. W PROVE s[i + (k - 1)] = t[i + (k - 1)]
      <4>1. i + (k - 1) \in 1 .. Len(s) + Len(m) /\ i + (k - 1) <= Len(s)
        BY <1>2, <2>2
      <4> QED BY <1>3, <4>1
    <3>a. i \in 1 .. Len(s)
      BY <1>2, <2>0, <2>2
    <3>b. \A k \in 1 .. W : t[i + (k - 1)] = <<"GET_PROG_INFO", 0, k>>
      BY <1>5 DEF GpiAt
    <3>c. \A k \in 1 .. W : s[i + (k - 1)] = <<"GET_PROG_INFO", 0, k>>
      BY <3>1, <3>b
    <3>2. GpiAt(s, i) /\ i \in 1 .. Len(s)
      BY <2>2, <3>a, <3>c DEF GpiAt
    <3>3. LinkedFrom(s, i)
      BY <1>5, <3>2 DEF SyncLinked
    <3> QED BY <1>1, <2>0, <3>3, LinkedAppend
  <2>3. CASE i <= Len(s) /\ i + W > Len(s) + 1
    \* a word has no first byte in its middle
    <3>1. /\ Len(s) + 2 - i \in 1 .. W /\ i + ((Len(s) + 2 - i) - 1) = Len(s) + 1 /\ Len(s) + 2 - i # 1
      BY <1>2, <2>0, <2>3
    <3>2. Len(s) + 1 <= Len(t)
      BY <1>2, <1>3, <1>5, <2>3 DEF GpiAt
    <3>3. 1 \in 1 .. Len(m) /\ Len(s) + 1 \in 1 .. Len(s) + Len(m) /\ ~(Len(s) + 1 <= Len(s)) /\ (Len(s) + 1) - Len(s) = 1
      BY <1>2, <1>3, <3>2
    <3>4. t[Len(s) + 1] = m[1]
      BY <1>3, <3>3
    <3>5. m[1][3] = 1
      <4>1. m # <<>>
        BY <3>3, EmptySeq
      <4> QED BY <4>1 DEF Aligned
    <3>6. PICK k \in 1 .. W : k = Len(s) + 2 - i
      BY <3>1
    <3>7. t[i + (k - 1)] = <<"GET_PROG_INFO", 0, k>>
      BY <1>5 DEF GpiAt
    <3>8. m[1] = <<"GET_PROG_INFO", 0, k>> /\ k # 1
      BY <3>1, <3>4, <3>6, <3>7
    <3> QED BY <3>5, <3>8
  <2> QED BY <1>2, <2>0, <2>1, <2>2, <2>3
<1> QED BY <1>1, <1>4, <1>5 DEF SyncLinked

\* The messages of the pi are whole.
LEMMA MessagesAligned ==
  /\ \A k \in Kinds \ {"PRINT_STRING"}, v \in Nat : Aligned(Bytes(<<k, v>>))
  /\ Aligned(Putk) /\ Aligned(<<>>)
<1>1. W \in Nat \ {0} /\ W + 1 \in Nat
  BY BootAssumption DEF BootAssumption
<1>2. ASSUME NEW k \in Kinds \ {"PRINT_STRING"}, NEW v \in Nat PROVE Aligned(Bytes(<<k, v>>))
  <2>1. PICK s : s = Bytes(<<k, v>>)
    OBVIOUS
  <2>2. Len(s) = W /\ \A i \in 1 .. W : s[i] = <<k, v, i>>
    BY <1>1, <2>1 DEF Bytes
  <2>3. ASSUME NEW i \in 1 .. W PROVE LinkAt(s, i)
    <3>1. s[i] = <<k, v, i>> /\ i \in 0 .. W /\ k # "PRINT_STRING" /\ i # 0
      BY <1>1, <2>2
    <3>2. i \in 1 .. W - 1 => i < W /\ i + 1 \in 1 .. W
      BY <1>1
    <3>3. i \in 1 .. W - 1 => i < Len(s) /\ s[i + 1] = <<k, v, i + 1>>
      BY <2>2, <3>2
    <3>4. i = W => i = Len(s)
      BY <2>2
    <3> QED BY <3>1, <3>3, <3>4 DEF LinkAt
  <2>4. 1 \in 1 .. W
    BY <1>1
  <2> QED BY <2>1, <2>2, <2>3, <2>4 DEF Aligned, LinkedFrom
<1>3. Aligned(Putk)
  <2>1. PICK p : p = Bytes(Op("PRINT_STRING"))
    OBVIOUS
  <2>2. PICK q : q = Bytes(<<"num", 1>>)
    OBVIOUS
  <2>3. PICK s : s = Putk
    OBVIOUS
  <2>4. /\ p \in Seq(Byte) /\ Len(p) = W /\ \A i \in 1 .. W : p[i] = <<"PRINT_STRING", 0, i>>
        /\ q \in Seq(Byte) /\ Len(q) = W /\ \A i \in 1 .. W : q[i] = <<"num", 1, i>>
    <3>1. p \in Seq(Byte) /\ q \in Seq(Byte)
      BY <2>1, <2>2, WordsPlain DEF Op, Kinds
    <3> QED BY <1>1, <2>1, <2>2, <3>1 DEF Bytes, Op
  <2>5. PICK x : x = <<<<"text", 0, 0>>>>
    OBVIOUS
  <2>6. x \in Seq(Byte) /\ Len(x) = 1 /\ x[1] = <<"text", 0, 0>>
    <3>1. <<"text", 0, 0>> \in Byte
      BY DEF Byte, Kinds
    <3> QED BY <2>5, <3>1
  <2>7. s = (p \o q) \o x
    BY <2>1, <2>2, <2>3, <2>5 DEF Putk
  <2>8. PICK r : r = p \o q
    OBVIOUS
  <2>9. /\ r \in Seq(Byte) /\ Len(r) = W + W
        /\ \A i \in 1 .. W + W : r[i] = IF i <= W THEN p[i] ELSE q[i - W]
    <3>1. r \in Seq(Byte) /\ Len(r) = Len(p) + Len(q)
          /\ \A i \in 1 .. Len(p) + Len(q) : r[i] = IF i <= Len(p) THEN p[i] ELSE q[i - Len(p)]
      BY <2>4, <2>8, ConcatProperties
    <3>2. Len(p) = W /\ Len(q) = W
      BY <2>4
    <3> QED BY <3>1, <3>2
  <2>10. /\ Len(s) = (W + W) + 1
         /\ \A i \in 1 .. (W + W) + 1 : s[i] = IF i <= W + W THEN r[i] ELSE x[i - (W + W)]
    <3>1. /\ Len(s) = Len(r) + Len(x)
          /\ \A i \in 1 .. Len(r) + Len(x) : s[i] = IF i <= Len(r) THEN r[i] ELSE x[i - Len(r)]
      <4>1. s = r \o x /\ r \in Seq(Byte) /\ x \in Seq(Byte)
        BY <2>6, <2>7, <2>8, <2>9
      <4> QED BY <4>1, ConcatProperties
    <3>2. Len(r) = W + W /\ Len(x) = 1
      BY <2>6, <2>9
    <3> QED BY <3>1, <3>2
  <2>11. \A i \in 1 .. W : s[i] = <<"PRINT_STRING", 0, i>>
    <3>1. ASSUME NEW i \in 1 .. W
          PROVE  i \in 1 .. W + W /\ i \in 1 .. (W + W) + 1 /\ i <= W + W /\ i <= W
      BY <1>1
    <3> QED BY <2>4, <2>9, <2>10, <3>1
  <2>12. \A i \in 1 .. W : s[W + i] = <<"num", 1, i>>
    <3>1. ASSUME NEW i \in 1 .. W
          PROVE  W + i \in 1 .. W + W /\ W + i \in 1 .. (W + W) + 1 /\ W + i <= W + W /\ ~(W + i <= W) /\ (W + i) - W = i
      BY <1>1
    <3> QED BY <2>4, <2>9, <2>10, <3>1
  <2>13. s[W + (W + 1)] = <<"text", 0, 0>>
    <3>1. /\ (W + W) + 1 \in 1 .. (W + W) + 1 /\ ~((W + W) + 1 <= W + W)
          /\ ((W + W) + 1) - (W + W) = 1 /\ W + (W + 1) = (W + W) + 1
      BY <1>1
    <3> QED BY <2>6, <2>10, <3>1
  <2>14. ASSUME NEW i \in 1 .. W PROVE LinkAt(s, i)
    <3>1. s[i] = <<"PRINT_STRING", 0, i>> /\ i \in 0 .. W /\ i # 0
      BY <1>1, <2>11
    <3>2. i \in 1 .. W - 1 => i < Len(s) /\ i + 1 \in 1 .. W
      BY <1>1, <2>10
    <3>3. i \in 1 .. W - 1 => i < Len(s) /\ s[i + 1] = <<"PRINT_STRING", 0, i + 1>>
      BY <2>11, <3>2
    <3>4. i = W => /\ i + W < Len(s) /\ s[i + (W + 1)] = <<"text", 0, 0>>
                   /\ \A j \in 1 .. W : s[i + j] = <<"num", 1, j>>
      BY <1>1, <2>10, <2>12, <2>13
    <3>5. i = W => s[i + 1] = <<"num", 1, 1>>
      BY <1>1, <2>12
    <3> QED BY <3>1, <3>3, <3>4, <3>5 DEF LinkAt
  <2>15. ASSUME NEW i \in 1 .. W PROVE LinkAt(s, W + i)
    <3>1. s[W + i] = <<"num", 1, i>> /\ i \in 0 .. W /\ i # 0
      BY <1>1, <2>12
    <3>2. i \in 1 .. W - 1 => W + i < Len(s) /\ i + 1 \in 1 .. W /\ (W + i) + 1 = W + (i + 1)
      BY <1>1, <2>10
    <3>3. i \in 1 .. W - 1 => W + i < Len(s) /\ s[(W + i) + 1] = <<"num", 1, i + 1>>
      BY <2>12, <3>2
    <3> QED BY <3>1, <3>3 DEF LinkAt
  <2>16. LinkAt(s, W + (W + 1))
    <3>1. W + (W + 1) = Len(s) /\ 0 \in 0 .. W /\ 0 \notin 1 .. W - 1 /\ 0 # W
      BY <1>1, <2>10
    <3> QED BY <2>13, <3>1 DEF LinkAt
  <2>17. ASSUME NEW j \in 1 .. Len(s)
         PROVE  j \in 1 .. W \/ (\E i \in 1 .. W : j = W + i) \/ j = W + (W + 1)
    <3>1. CASE j <= W
      BY <1>1, <3>1
    <3>2. CASE j > W /\ j <= W + W
      <4>1. j - W \in 1 .. W /\ j = W + (j - W)
        BY <1>1, <3>2
      <4> QED BY <4>1
    <3>3. CASE j > W + W
      BY <1>1, <2>10, <3>3
    <3> QED BY <1>1, <3>1, <3>2, <3>3
  <2>18. \A j \in 1 .. Len(s) : LinkAt(s, j)
    BY <2>14, <2>15, <2>16, <2>17
  <2>19. s[1] = <<"PRINT_STRING", 0, 1>>
    BY <1>1, <2>11
  <2> QED BY <2>3, <2>18, <2>19 DEF Aligned, LinkedFrom
<1>4. Aligned(<<>>)
  BY DEF Aligned, LinkedFrom
<1> QED BY <1>2, <1>3, <1>4

\* Reading a whole word, or a whole PRINT_STRING, leaves whole messages.
LEMMA AlignedRead ==
  ASSUME NEW s \in Seq(Byte), Aligned(s), Len(s) >= W,
         WordOf(s)[1] \notin {"num", "PRINT_STRING", "junk"}
  PROVE  Aligned(After(s, W))
<1>1. Len(s) \in Nat /\ W \in Nat \ {0} /\ W \in 1 .. Len(s) /\ 1 <= W
  BY LenProperties, BootAssumption DEF BootAssumption
<1>2. WordOf(s) # Junk
  BY DEF Junk, Op
<1>3. s[W] = <<WordOf(s)[1], WordOf(s)[2], W>>
  BY <1>1, <1>2, WordRead
<1>4. LinkAt(s, W)
  BY <1>1 DEF Aligned, LinkedFrom
<1>5. W = Len(s) \/ s[W + 1][3] = 1
  BY <1>3, <1>4 DEF LinkAt
<1>6. PICK t : t = After(s, W)
  OBVIOUS
<1>7. LinkedFrom(t, 1)
  BY <1>1, <1>6, LinkedAfter DEF Aligned
<1>8. ASSUME t # <<>> PROVE t[1][3] = 1
  <2>1. Len(s) = W + Len(t) /\ t \in Seq(Byte) /\ Len(t) \in Nat
    BY <1>1, <1>6, <1>8, AfterElements
  <2>2. 1 \in 1 .. Len(t) /\ W # Len(s)
    BY <1>1, <1>8, <2>1, EmptySeq
  <2>3. t[1] = s[W + 1]
    BY <1>1, <1>6, <2>2, AfterElements
  <2> QED BY <1>5, <2>2, <2>3
<1> QED BY <1>6, <1>7, <1>8 DEF Aligned

LEMMA AlignedPrint ==
  ASSUME NEW s \in Seq(Byte), Aligned(s), Len(s) >= 2 * W, WordOf(s) = Op("PRINT_STRING")
  PROVE  /\ WordOf(After(s, W)) = <<"num", 1>>
         /\ Aligned(After(s, PrintLen(1)))
<1>1. /\ Len(s) \in Nat /\ W \in Nat \ {0} /\ W \in 1 .. Len(s) /\ 1 <= W /\ Len(s) >= W
      /\ PrintLen(1) = W + (W + 1) /\ PrintLen(1) \in Nat
  BY LenProperties, BootAssumption DEF BootAssumption, PrintLen
<1>2. s[W] = <<"PRINT_STRING", 0, W>>
  <2>1. WordOf(s) # Junk /\ WordOf(s)[1] = "PRINT_STRING" /\ WordOf(s)[2] = 0
    BY DEF Junk, Op
  <2> QED BY <1>1, <2>1, WordRead
<1>3. LinkAt(s, W)
  BY <1>1 DEF Aligned, LinkedFrom
<1>4. /\ W + W < Len(s) /\ s[W + (W + 1)] = <<"text", 0, 0>>
      /\ \A j \in 1 .. W : s[W + j] = <<"num", 1, j>>
  BY <1>2, <1>3 DEF LinkAt
<1>5. WordOf(After(s, W)) = <<"num", 1>>
  <2>1. PICK t : t = After(s, W)
    OBVIOUS
  <2>2. t \in Seq(Byte) /\ Len(t) = Len(s) - W
    <3>1. W \in Nat /\ W <= Len(s)
      BY <1>1
    <3> QED BY <2>1, <3>1, AfterProperties
  <2>3. \A j \in 1 .. W : j \in 1 .. Len(t)
    BY <1>1, <1>4, <2>2
  <2>4. \A j \in 1 .. W : t[j] = <<"num", 1, j>>
    BY <1>1, <1>4, <2>1, <2>3, AfterElements
  <2>5. SubSeq(t, 1, W) = Bytes(<<"num", 1>>)
    <3>1. \A j \in 1 .. W : t[j] \in Byte
      BY <2>2, <2>3, ElementOfSeq
    <3>2. /\ SubSeq(t, 1, W) \in Seq(Byte) /\ Len(SubSeq(t, 1, W)) = W
          /\ \A j \in 1 .. W : SubSeq(t, 1, W)[j] = t[j]
      BY <1>1, <3>1, SubSeqProperties
    <3>3. Bytes(<<"num", 1>>) \in Seq(Byte) /\ Len(Bytes(<<"num", 1>>)) = W
          /\ \A j \in 1 .. W : Bytes(<<"num", 1>>)[j] = <<"num", 1, j>>
      <4>1. "num" \in Kinds /\ 1 \in Nat
        BY DEF Kinds
      <4>2. Bytes(<<"num", 1>>) \in Seq(Byte)
        BY <4>1, WordsPlain
      <4> QED BY <1>1, <4>2 DEF Bytes
    <3> HIDE DEF Bytes
    <3>4. PICK u : u = SubSeq(t, 1, W)
      OBVIOUS
    <3>5. PICK v : v = Bytes(<<"num", 1>>)
      OBVIOUS
    <3>6. u \in Seq(Byte) /\ v \in Seq(Byte) /\ Len(u) = Len(v) /\ \A j \in 1 .. Len(u) : u[j] = v[j]
      BY <2>4, <3>2, <3>3, <3>4, <3>5
    <3>7. u = v
      BY <3>6, SeqEqual
    <3> QED BY <3>4, <3>5, <3>7
  <2>6. t[1] = <<"num", 1, 1>>
    BY <1>1, <2>4
  <2>7. <<t[1][1], t[1][2]>> = <<"num", 1>>
    BY <2>6
  <2> QED BY <2>1, <2>5, <2>7 DEF WordOf
<1>6. Aligned(After(s, PrintLen(1)))
  <2>1. PICK p : p = PrintLen(1)
    OBVIOUS
  <2>2. p \in Nat /\ p \in 1 .. Len(s) /\ s[p] = <<"text", 0, 0>> /\ 1 <= p
    BY <1>1, <1>4, <2>1
  <2>3. LinkAt(s, p)
    BY <2>2 DEF Aligned, LinkedFrom
  <2>4. p = Len(s) \/ s[p + 1][3] = 1
    BY <2>2, <2>3 DEF LinkAt
  <2>5. PICK t : t = After(s, p)
    OBVIOUS
  <2>6. LinkedFrom(t, 1)
    BY <2>2, <2>5, LinkedAfter DEF Aligned
  <2>7. ASSUME t # <<>> PROVE t[1][3] = 1
    <3>1. Len(s) = p + Len(t) /\ t \in Seq(Byte) /\ Len(t) \in Nat
      BY <2>2, <2>5, <2>7, AfterElements
    <3>2. 1 \in 1 .. Len(t) /\ p # Len(s)
      BY <1>1, <2>2, <2>7, <3>1, EmptySeq
    <3>3. t[1] = s[p + 1]
      BY <2>2, <2>5, <3>2, AfterElements
    <3> QED BY <2>4, <3>2, <3>3
  <2> QED BY <2>1, <2>5, <2>6, <2>7 DEF Aligned
<1> QED BY <1>5, <1>6

-----------------------------------------------------------------------------
(* The laptop keeps to word boundaries.                                    *)

CountInv ==
  /\ losses \in 0 .. MaxLoss /\ corruptions \in 0 .. MaxCorrupt /\ kills \in Nat

AlignInv ==
  losses + corruptions + kills = 0 =>
    /\ upc \in InStep => Aligned(toUnix)
    /\ upc = "sync" => SyncLinked(toUnix)

LEMMA CountNext == LineInv /\ CountInv /\ [Next]_vars => CountInv'
<1> SUFFICES ASSUME LineInv, CountInv, [Next]_vars PROVE CountInv'
  OBVIOUS
<1> USE DEF CountInv, counts, pi
<1>0. MaxLoss \in Nat /\ MaxCorrupt \in Nat /\ powers \in Nat
  BY BootAssumption DEF BootAssumption, LineInv
<1>1. CASE UNCHANGED counts
  BY <1>1
<1>2. CASE PiStep
  BY <1>1, <1>2 DEF PiStep, PiAsk, PiGetOp, PiGetHeader, PiGetPutCode, PiCopy, PiVerify, PiBranch
<1>3. CASE UnixStep
  <2>1. CASE UnixTimeout
    BY <1>1, <2>1 DEF UnixTimeout
  <2>2. CASE UnixPrint \/ UnixSync \/ UnixDrain \/ UnixCrc \/ UnixAwait \/ UnixEcho
    BY <1>1, <2>2 DEF UnixPrint, UnixSync, UnixDrain, UnixCrc, UnixAwait, UnixEcho, UnixGoes
  <2> QED BY <1>3, <2>1, <2>2 DEF UnixStep
<1>4. CASE Lose
  BY <1>0, <1>4 DEF Lose
<1>5. CASE Corrupt
  BY <1>0, <1>5 DEF Corrupt
<1>6. CASE Relaunch
  BY <1>0, <1>6 DEF Relaunch
<1>7. CASE PowerCycle
  BY <1>0, <1>7 DEF PowerCycle
<1> QED BY <1>1, <1>2, <1>3, <1>4, <1>5, <1>6, <1>7 DEF Next, vars

\* The pi sends whole messages.
LEMMA PiSendsAligned ==
  ASSUME CleanStart, BootInv, PiStep
  PROVE  \E m \in Seq(Byte) : Aligned(m) /\ toUnix' = toUnix \o m
<1>0. toUnix \in Seq(Byte) /\ toPi \in Seq(PiByte) /\ Len(toPi) \in Nat /\ W \in Nat \ {0}
      /\ 3 * W \in Nat /\ 2 * W \in Nat /\ <<>> \in Seq(Byte)
  BY LenProperties, EmptySeq, BootAssumption DEF BootAssumption, BootInv, LineInv
<1>1. ASSUME UNCHANGED toUnix PROVE \E m \in Seq(Byte) : Aligned(m) /\ toUnix' = toUnix \o m
  <2>1. toUnix \o <<>> = toUnix
    BY <1>0, ConcatEmptySeq
  <2> QED BY <1>0, <1>1, <2>1, MessagesAligned
<1>2. ASSUME NEW k \in Kinds \ {"PRINT_STRING"}
      PROVE  Bytes(Op(k)) \in Seq(Byte) /\ Aligned(Bytes(Op(k)))
  BY WordsPlain, MessagesAligned DEF Op
<1>3. ASSUME NEW a \in Seq(Byte), NEW b \in Seq(Byte), Aligned(a), Aligned(b),
             toUnix' = toUnix \o a \o b
      PROVE  \E m \in Seq(Byte) : Aligned(m) /\ toUnix' = toUnix \o m
  <2>1. a \o b \in Seq(Byte) /\ Aligned(a \o b)
    BY <1>3, ConcatProperties, AlignedAppend
  <2>2. PICK x : x = toUnix
    OBVIOUS
  <2>3. x \in Seq(Byte)
    BY <1>0, <2>2
  <2>4. (x \o a) \o b = x \o (a \o b)
    BY <2>3, ConcatAssociative
  <2> QED BY <1>3, <2>1, <2>2, <2>4
<1>4. ASSUME NEW b \in Seq(Byte), Aligned(b), GiveUp(b)
      PROVE  \E m \in Seq(Byte) : Aligned(m) /\ toUnix' = toUnix \o m
  BY <1>3, <1>4, WordsPlain, MessagesAligned DEF GiveUp
<1>5. CASE PiAsk
  BY <1>2, <1>5 DEF PiAsk, Kinds
<1>6. CASE PiGetOp
  BY <1>0, <1>1, <1>4, <1>6, MessagesAligned DEF PiGetOp
<1>7. CASE PiGetHeader
  <2>1. CASE GiveUp(Bytes(Op("BAD_CODE_ADDR")))
    BY <1>2, <1>4, <2>1 DEF Kinds
  <2>2. CASE toUnix' = toUnix \o Bytes(Op("GET_CODE")) \o Bytes(cksum') /\ cksum' = WordOf(After(toPi, 2 * W))
    <3>1. After(toPi, 2 * W) \in Seq(PiByte) /\ Len(After(toPi, 2 * W)) >= W
      <4>1. 2 * W <= Len(toPi) /\ Len(toPi) - 2 * W >= W
        BY <1>0, <1>7 DEF PiGetHeader
      <4> QED BY <1>0, <4>1, AfterProperties
    <3>2. PICK z : z = After(toPi, 2 * W)
      OBVIOUS
    <3>3. z \in Seq(PiByte) /\ Len(z) >= W /\ cksum' = WordOf(z)
      BY <2>2, <3>1, <3>2
    <3>4. Bytes(cksum') \in Seq(Byte)
      BY <3>3, WordPlain, WordsPlain
    <3>5. Aligned(Bytes(cksum'))
      <4>1. PICK k \in Kinds, v \in Nat : WordOf(z) = <<k, v>>
        <5>1. z[1] \in Byte /\ WordOf(z) \in {<<z[1][1], z[1][2]>>, <<"junk", 0>>}
          BY <3>3, WordOfProperties DEF PiByte, Plain
        <5>2. "junk" \in Kinds /\ 0 \in Nat
          BY DEF Kinds
        <5>3. z[1][1] \in Kinds /\ z[1][2] \in Nat
          BY <5>1 DEF Byte
        <5> QED BY <5>1, <5>2, <5>3
      <4>2. k # "PRINT_STRING"
        BY <3>3, <4>1, WordPlain
      <4> QED BY <3>3, <4>1, <4>2, MessagesAligned
    <3>6. Bytes(Op("GET_CODE")) \in Seq(Byte) /\ Aligned(Bytes(Op("GET_CODE")))
      BY <1>2 DEF Kinds
    <3> QED BY <1>3, <2>2, <3>4, <3>5, <3>6
  <2> QED BY <1>7, <2>1, <2>2 DEF PiGetHeader
<1>8. CASE PiGetPutCode
  BY <1>0, <1>1, <1>4, <1>8, MessagesAligned DEF PiGetPutCode
<1>9. CASE PiCopy
  BY <1>1, <1>9 DEF PiCopy
<1>10. CASE PiVerify
  <2>1. CASE GiveUp(Bytes(Op("BAD_CODE_CKSUM")))
    BY <1>2, <1>4, <2>1 DEF Kinds
  <2>2. CASE toUnix' = toUnix \o Putk \o Bytes(Op("BOOT_SUCCESS"))
    <3>1. Bytes(Op("BOOT_SUCCESS")) \in Seq(Byte) /\ Aligned(Bytes(Op("BOOT_SUCCESS")))
      BY <1>2 DEF Kinds
    <3>2. Putk \in Seq(Byte) /\ Aligned(Putk)
      BY WordsPlain, MessagesAligned
    <3> QED BY <1>3, <2>2, <3>1, <3>2
  <2> QED BY <1>10, <2>1, <2>2 DEF PiVerify
<1>11. CASE PiBranch
  BY <1>1, <1>11 DEF PiBranch
<1> QED BY <1>5, <1>6, <1>7, <1>8, <1>9, <1>10, <1>11 DEF PiStep

\* The laptop reads whole messages once it is past step 0, where it reads on
\* after a GET_PROG_INFO.
LEMMA UnixAligned ==
  ASSUME CleanStart, BootInv, AlignInv, losses + corruptions + kills = 0, UnixStep
  PROVE  (upc' \in InStep => Aligned(toUnix')) /\ (upc' = "sync" => SyncLinked(toUnix'))
<1>0. /\ toUnix \in Seq(Byte) /\ Len(toUnix) \in Nat /\ W \in Nat \ {0} /\ W \in Nat
      /\ Resync \in Nat /\ "panic" \notin InStep /\ "done" \notin InStep /\ "echo" \notin InStep
      /\ "sync" \notin InStep
  BY LenProperties, BootAssumption DEF BootAssumption, BootInv, LineInv, Resync, InStep
<1>1. (upc \in InStep => Aligned(toUnix)) /\ (upc = "sync" => SyncLinked(toUnix))
  BY DEF AlignInv
<1>2. ASSUME upc' \in {"panic", "done", "echo"}
      PROVE  (upc' \in InStep => Aligned(toUnix')) /\ (upc' = "sync" => SyncLinked(toUnix'))
  BY <1>0, <1>2
<1>3. ASSUME upc = "sync", NEW n \in Nat, upc' = "sync", toUnix' = After(toUnix, n)
      PROVE  (upc' \in InStep => Aligned(toUnix')) /\ (upc' = "sync" => SyncLinked(toUnix'))
  BY <1>0, <1>1, <1>3, LinkedAfter
<1>4. ASSUME upc \in InStep, upc' # "sync", toUnix' = After(toUnix, W), Len(toUnix) >= W,
             WordOf(toUnix)[1] \notin {"num", "PRINT_STRING", "junk"}
      PROVE  (upc' \in InStep => Aligned(toUnix')) /\ (upc' = "sync" => SyncLinked(toUnix'))
  BY <1>0, <1>1, <1>4, AlignedRead
<1>5. CASE UnixPrint
  <2>1. Len(toUnix) >= 2 * W /\ WordOf(toUnix) = Op("PRINT_STRING") /\ upc \in InStep \cup {"sync"}
    BY <1>5 DEF UnixPrint, IsPrint, Reading, InStep
  <2>2. PICK n \in Numbers(WordOf(After(toUnix, W))) :
          \/ n >= 1 /\ UnixGoes(upc, PrintLen(n), <<>>)
          \/ UnixGoes("panic", 2 * W, <<>>)
    BY <1>5 DEF UnixPrint
  <2>3. CASE UnixGoes("panic", 2 * W, <<>>)
    BY <1>2, <2>3 DEF UnixGoes
  <2>4. CASE UnixGoes(upc, PrintLen(n), <<>>) /\ upc \in InStep
    <3>1. WordOf(After(toUnix, W)) = <<"num", 1>> /\ Aligned(After(toUnix, PrintLen(1)))
      BY <1>0, <1>1, <2>1, <2>4, AlignedPrint
    <3>2. n = 1
      BY <3>1 DEF Numbers
    <3> QED BY <1>0, <2>4, <3>1, <3>2 DEF UnixGoes
  <2>5. CASE UnixGoes(upc, PrintLen(n), <<>>) /\ upc = "sync"
    <3>1. CASE PrintLen(n) \in Nat
      BY <1>3, <2>5, <3>1 DEF UnixGoes
    <3>2. PrintLen(n) \in Nat
      <4>1. n \in Nat
        <5>1. Len(After(toUnix, W)) >= W /\ After(toUnix, W) \in Seq(Byte)
          <6>1. W <= Len(toUnix) /\ Len(toUnix) - W >= W
            BY <1>0, <2>1
          <6> QED BY <1>0, <6>1, AfterProperties
        <5> QED BY <5>1, NumbersRead
      <4> QED BY <1>0, <4>1 DEF PrintLen
    <3> QED BY <3>1, <3>2
  <2> QED BY <2>1, <2>2, <2>3, <2>4, <2>5
<1>6. CASE UnixSync
  <2>1. CASE NextOp(Op("GET_PROG_INFO")) /\ UnixGoes("drain", W, Header)
    <3>1. Len(toUnix) >= W /\ WordOf(toUnix) = Op("GET_PROG_INFO") /\ upc = "sync"
      BY <1>6, <2>1 DEF NextOp, UnixSync
    <3>2. GpiAt(toUnix, 1) /\ 1 \in 1 .. Len(toUnix)
      BY <1>0, <3>1, GpiRead
    <3>3. toUnix[1 + (1 - 1)] = <<"GET_PROG_INFO", 0, 1>> /\ 1 + (1 - 1) = 1
      BY <1>0, <3>2 DEF GpiAt
    <3>4. Aligned(toUnix)
      BY <1>1, <3>1, <3>2, <3>3 DEF SyncLinked, Aligned
    <3>5. Aligned(After(toUnix, W))
      <4>1. WordOf(toUnix)[1] = "GET_PROG_INFO"
        BY <3>1 DEF Op
      <4> QED BY <1>0, <3>1, <3>4, <4>1, AlignedRead
    <3> QED BY <2>1, <3>5 DEF UnixGoes
  <2>2. CASE UnixGoes("sync", Resync, <<>>)
    BY <1>0, <1>3, <1>6, <2>2 DEF UnixGoes, UnixSync
  <2> QED BY <1>6, <2>1, <2>2 DEF UnixSync
<1>7. CASE UnixDrain
  <2>1. upc \in InStep
    BY <1>7 DEF UnixDrain, InStep
  <2>2. CASE UnixGoes("panic", W, <<>>)
    BY <1>2, <2>2 DEF UnixGoes
  <2>3. CASE NextOp(Op("GET_PROG_INFO")) /\ UnixGoes("drain", W, <<>>)
    BY <1>4, <2>1, <2>3 DEF UnixGoes, NextOp, Op
  <2>4. CASE NextOp(Op("GET_CODE")) /\ UnixGoes("crc", W, <<>>)
    BY <1>4, <2>1, <2>4 DEF UnixGoes, NextOp, Op
  <2> QED BY <1>7, <2>2, <2>3, <2>4 DEF UnixDrain, Drains
<1>8. CASE UnixCrc
  <2>1. upc \in InStep
    BY <1>8 DEF UnixCrc, InStep
  <2>2. CASE UnixGoes("echo", W, <<>>)
    BY <1>2, <2>2 DEF UnixGoes
  <2>3. CASE NextOp(CrcWord) /\ UnixGoes("await", W, Bytes(Op("PUT_CODE")) \o Code)
    BY <1>4, <2>1, <2>3 DEF UnixGoes, NextOp, CrcWord, Op
  <2> QED BY <1>8, <2>2, <2>3 DEF UnixCrc, Mismatch
<1>9. CASE UnixAwait
  BY <1>2, <1>9 DEF UnixAwait, UnixGoes, Mismatch
<1>10. CASE UnixTimeout
  BY <1>2, <1>10 DEF UnixTimeout
<1>11. CASE UnixEcho
  BY <1>2, <1>11 DEF UnixEcho, UnixGoes
<1> QED BY <1>5, <1>6, <1>7, <1>8, <1>9, <1>10, <1>11 DEF UnixStep

LEMMA AlignNext == CleanStart /\ BootInv /\ CountInv /\ AlignInv /\ [Next]_vars => AlignInv'
<1> SUFFICES ASSUME CleanStart, BootInv, CountInv, AlignInv, [Next]_vars,
                    (losses + corruptions + kills = 0)'
             PROVE  (upc' \in InStep => Aligned(toUnix')) /\ (upc' = "sync" => SyncLinked(toUnix'))
  BY DEF AlignInv, InStep, Aligned, SyncLinked, GpiAt, LinkedFrom, LinkAt
<1>0. losses \in Nat /\ corruptions \in Nat /\ kills \in Nat
  BY DEF CountInv
<1>1. CASE UNCHANGED <<toUnix, upc, losses, corruptions, kills>>
  BY <1>1 DEF AlignInv
<1>2. CASE PiStep
  <2>1. UNCHANGED <<upc, losses, corruptions, kills>>
    BY <1>2 DEF PiStep, PiAsk, PiGetOp, PiGetHeader, PiGetPutCode, PiCopy, PiVerify, PiBranch, counts
  <2>2. PICK m \in Seq(Byte) : Aligned(m) /\ toUnix' = toUnix \o m
    BY <1>2, PiSendsAligned
  <2>3. toUnix \in Seq(Byte)
    BY DEF BootInv, LineInv
  <2> QED BY <2>1, <2>2, <2>3, AlignedAppend DEF AlignInv
<1>3. CASE UnixStep
  <2>1. UNCHANGED <<losses, corruptions, kills>>
    BY <1>3 DEF UnixStep, UnixPrint, UnixSync, UnixDrain, UnixCrc, UnixAwait, UnixEcho, UnixTimeout, UnixGoes, counts
  <2> QED BY <1>3, <2>1, UnixAligned
<1>4. CASE Lose \/ Corrupt \/ Relaunch
  <2>1. CASE Lose
    <3>1. losses' = losses + 1 /\ UNCHANGED <<corruptions, kills>>
      BY <2>1 DEF Lose
    <3> QED BY <1>0, <3>1
  <2>2. CASE Corrupt
    <3>1. corruptions' = corruptions + 1 /\ UNCHANGED <<losses, kills>>
      BY <2>2 DEF Corrupt
    <3> QED BY <1>0, <3>1
  <2>3. CASE Relaunch
    <3>1. kills' = kills + 1 /\ UNCHANGED <<losses, corruptions>>
      BY <2>3 DEF Relaunch
    <3> QED BY <1>0, <3>1
  <2> QED BY <1>4, <2>1, <2>2, <2>3
<1>5. CASE PowerCycle
  BY <1>1, <1>5 DEF PowerCycle
<1> QED BY <1>1, <1>2, <1>3, <1>4, <1>5 DEF Next, vars

-----------------------------------------------------------------------------
(* The whole of it.                                                        *)

TypeInv ==
  /\ ppc \in {"ask", "wait", "header", "putcode", "copy", "return", "branched", "rebooted"}
  /\ upc \in {"sync", "drain", "crc", "await", "echo", "done", "panic"}
  /\ nbytes \in 0 .. AddrSpace - 1 /\ index \in 0 .. nbytes
  /\ ppc \in {"ask", "wait", "header", "putcode"} => index = 0

LEMMA TypeNext == CleanStart /\ BootInv /\ TypeInv /\ [Next]_vars => TypeInv'
<1> SUFFICES ASSUME CleanStart, BootInv, TypeInv, [Next]_vars PROVE TypeInv'
  OBVIOUS
<1> USE DEF counts
<1>0. /\ AddrSpace \in Nat \ {0} /\ nbytes \in Nat /\ index \in Nat
      /\ W \in Nat \ {0} /\ toPi \in Seq(PiByte) /\ Len(toPi) \in Nat
  BY LenProperties, BootAssumption DEF BootAssumption, TypeInv, BootInv, LineInv
<1>1. CASE UNCHANGED <<ppc, upc, nbytes, index>>
  BY <1>1 DEF TypeInv
<1>2. CASE PiStep
  <2>1. CASE PiAsk
    BY <1>0, <2>1 DEF PiAsk, Waits, TypeInv
  <2>2. CASE PiGetOp
    BY <1>0, <2>2 DEF PiGetOp, GiveUp, TypeInv
  <2>3. CASE PiGetHeader
    <3>1. UNCHANGED <<index, upc>> /\ index = 0 /\ ppc' \in {"return", "putcode"}
      BY <2>3 DEF PiGetHeader, GiveUp, TypeInv
    <3>2. nbytes' \in 1 .. AddrSpace - 1
      <4>1. W <= Len(toPi) /\ Len(toPi) - W >= W
        BY <1>0, <2>3 DEF PiGetHeader
      <4>2. After(toPi, W) \in Seq(PiByte) /\ Len(After(toPi, W)) >= W
        BY <1>0, <4>1, AfterProperties
      <4>3. Numbers(WordOf(After(toPi, W))) \subseteq 1 .. AddrSpace - 1
        BY <4>2, NumbersRead
      <4> QED BY <2>3, <4>3 DEF PiGetHeader
    <3> QED BY <1>0, <3>1, <3>2 DEF TypeInv
  <2>4. CASE PiGetPutCode
    <3>1. UNCHANGED <<nbytes, upc>> /\ index' = 0 /\ ppc' \in {"return", "copy"}
      BY <2>4 DEF PiGetPutCode, GiveUp, TypeInv
    <3> QED BY <1>0, <3>1 DEF TypeInv
  <2>5. CASE PiCopy
    BY <1>0, <2>5 DEF PiCopy, MoreCode, TypeInv
  <2>6. CASE PiVerify
    BY <1>0, <2>6 DEF PiVerify, GiveUp, TypeInv
  <2>7. CASE PiBranch
    BY <1>0, <2>7 DEF PiBranch, TypeInv
  <2> QED BY <1>2, <2>1, <2>2, <2>3, <2>4, <2>5, <2>6, <2>7 DEF PiStep
<1>3. CASE UnixStep
  <2>1. UNCHANGED <<ppc, nbytes, index>>
    BY <1>3 DEF UnixStep, UnixPrint, UnixSync, UnixDrain, UnixCrc, UnixAwait, UnixEcho, UnixTimeout, UnixGoes, pi
  <2>2. upc' \in {upc, "sync", "drain", "crc", "await", "echo", "done", "panic"}
    BY <1>3 DEF UnixStep, UnixPrint, UnixSync, UnixDrain, UnixCrc, UnixAwait, UnixEcho, UnixTimeout,
                UnixGoes, Mismatch
  <2> QED BY <2>1, <2>2 DEF TypeInv
<1>4. CASE Lose \/ Corrupt
  BY <1>1, <1>4 DEF Lose, Corrupt, pi
<1>5. CASE Relaunch
  BY <1>5 DEF Relaunch, pi, TypeInv
<1>6. CASE PowerCycle
  BY <1>0, <1>6 DEF PowerCycle, TypeInv
<1> QED BY <1>1, <1>2, <1>3, <1>4, <1>5, <1>6 DEF Next, vars

\* The transfer, for every tty a session can start on: the state is well typed,
\* past step 0 the laptop reads on word boundaries, the pi runs nothing but the
\* program, and the laptop reports success only then.
THEOREM BootTransferIsSound ==
  ASSUME CleanStart PROVE Spec => []TransferSound
<1> DEFINE Inv == BootInv /\ CountInv /\ AlignInv /\ TypeInv
<1>1. Init => Inv
  <2> SUFFICES ASSUME NEW tty \in Garbage, InitWith(tty) PROVE CountInv /\ AlignInv /\ TypeInv
    BY BootInit DEF Init
  <2> USE DEF InitWith
  <2>1. MaxLoss \in Nat /\ MaxCorrupt \in Nat /\ AddrSpace \in Nat \ {0}
    BY BootAssumption DEF BootAssumption
  <2>2. powers = 0 /\ losses = 0 /\ corruptions = 0 /\ kills = 0 /\ ppc = "ask"
    OBVIOUS
  <2>3. CountInv
    BY <2>1, <2>2 DEF CountInv
  <2>4. AlignInv
    BY DEF AlignInv, InStep, SyncLinked, CleanStart, CleanTty
  <2>5. TypeInv
    BY <2>1 DEF TypeInv
  <2> QED BY <2>3, <2>4, <2>5
<1>2. Inv /\ [Next]_vars => Inv'
  BY BootNext, CountNext, AlignNext, TypeNext DEF BootInv
<1>3. Inv => TransferSound
  <2> SUFFICES ASSUME Inv PROVE TransferSound
    OBVIOUS
  <2>1. TypeOK
    <3>1. AddrSpace \in Nat /\ powers \in Nat /\ MaxLoss \in Nat /\ MaxCorrupt \in Nat
      BY BootAssumption DEF BootAssumption, BootInv, LineInv
    <3>2. losses <= MaxLoss /\ corruptions <= MaxCorrupt
      BY <3>1 DEF CountInv
    <3> QED BY <3>1, <3>2 DEF TypeOK, TypeInv, BootInv, LineInv, MemInv
  <2>2. StaysAligned
    <3>1. toUnix # <<>> => Head(toUnix) = toUnix[1]
      BY HeadTailProperties DEF BootInv, LineInv
    <3> QED BY <3>1 DEF StaysAligned, AlignInv, Aligned, InStep
  <2>3. RunsOnlyIntactCode /\ SuccessMeansLoaded
    BY DEF BootInv, RetInv, IntactInv, SuccessInv, SuccessMeansLoaded, RunsOnlyIntactCode
  <2> QED BY <2>1, <2>2, <2>3 DEF TransferSound
<1>4. QED BY <1>1, <1>2, <1>3, PTL DEF Spec
=============================================================================
