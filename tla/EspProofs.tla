----------------------------- MODULE EspProofs -----------------------------
(***************************************************************************)
(* For every number of messages, whatever their bytes are and however the  *)
(* input is cut up: the ping-pong programs stay in step with their esps,   *)
(* the messages arrive whole and in order, and the two do not end up       *)
(* waiting for each other.                                                 *)
(***************************************************************************)
EXTENDS Esp, Integers, SequenceTheorems, FiniteSetTheorems, WellFoundedInduction, TLAPS

-----------------------------------------------------------------------------
(* The calls by number: what each of them is, and what its esp prints.     *)

Commanding == {"reset", "at", "link", "send"}

\* the k-th call of p
Kind(p, k) ==
  CASE k = 1 -> "eat"
    [] k \in 2 .. 4 -> "reset"
    [] p = "server" /\ k \in 5 .. 15 -> "at"
    [] p = "server" /\ k = 16 -> "conn"
    [] p # "server" /\ k \in 5 .. 7 -> "at"
    [] p # "server" /\ k = 8 -> "link"
    [] k > Len(esp_main(p)) -> "end"
    [] OTHER -> IF (k % 2 = 1) = (p = "server") THEN "send" ELSE "recv"

\* the lines a command is answered with, its echo first
Script(kind, c) ==
  CASE kind = "reset" -> <<c, "OK", "boot", "ready">>
    [] kind = "link"  -> <<c, "CONNECT", "OK">>
    [] kind = "send"  -> <<c, "OK", ">", "Recv", "SENT">>
    [] kind = "at"    -> IF c \in Talkative THEN <<c, "info", "OK">> ELSE <<c, "OK">>
    [] OTHER -> <<>>

Cmd(p, k)    == esp_main(p)[k][1][2]
Answer(p, k) == Script(Kind(p, k), Cmd(p, k))

-----------------------------------------------------------------------------
(* The input of a program: from line r on, the first m lines of its        *)
(* command's answer T, at the places f, ends of lines between them,        *)
(* perhaps the connection, at x, and then, after e, the message W that     *)
(* waits.                                                                  *)

LineUp(I, e, T, f, r, m, x) ==
  /\ e \in Nat /\ r \in Nat /\ m \in Nat /\ x \in Nat /\ r <= m /\ m <= Len(T) /\ f \in [Int -> Int]
  /\ \A i \in r + 1 .. m :
       /\ f[i] \in 1 .. e /\ I[f[i]] = T[i]
       /\ T[i] # ">" => f[i] < e /\ I[f[i] + 1] = "eol"
  /\ \A i, j \in r + 1 .. m : i < j => f[i] < f[j]
  /\ \A k \in 1 .. e : I[k] = "eol" \/ k = x \/ \E i \in r + 1 .. m : f[i] = k
  /\ x # 0 => /\ x \in 1 .. e - 1 /\ I[x] = "CONNECT" /\ I[x + 1] = "eol"
              /\ \A i \in r + 1 .. m : f[i] # x

Ends(I, e, W) == Len(I) = e + Len(W) /\ \A k \in 1 .. Len(W) : I[e + k] = W[k]

\* how much of the answer p has read before operation a of call k
Reading(p, k, a, r) ==
  /\ a <= 2 => r = 0
  /\ Kind(p, k) = "at" => (a = 3 => r \in 1 .. Len(Answer(p, k)) - 1)
  /\ Kind(p, k) = "reset" => (a = 3 => r = 1) /\ (a = 4 => r \in {2, 3})
  /\ Kind(p, k) = "link" => (a >= 3 => r = a - 2)
  /\ Kind(p, k) = "send" => (a \in 3 .. 5 => r = a - 2) /\ (a \in 6 .. 7 => r = a - 3)

\* how much of the answer the esp has printed; j is its job, c what it has
\* yet to take, g the next message p sends
Printed(p, k, a, j, c, g, m) ==
  \/ /\ Kind(p, k) \notin Commanding \/ a = 1
     /\ m = 0 /\ j = "none" /\ c = <<>>
  \/ /\ Kind(p, k) \in Commanding /\ a >= 2
     /\ \/ m = 0 /\ j = "none" /\ c = <<Cmd(p, k), "eol">> /\ a = 2
        \/ m = 1 /\ j = Cmd(p, k) /\ c = <<>>
        \/ /\ m = Len(Answer(p, k)) /\ j = "none" /\ c = <<>>
           /\ Kind(p, k) = "send" => a >= 6
        \/ Kind(p, k) = "reset" /\ m = 2 /\ j = "boot" /\ c = <<>>
        \/ /\ Kind(p, k) = "send" /\ m = 3 /\ j = "data"
           /\ c = IF a >= 6 THEN g ELSE <<>>

\* where the server's connection is; l: the two are linked, s: the server has
\* skipped the line
Connects(p, k, l, s, f, x) ==
  /\ p = "client" => x = 0
  /\ p = "server" =>
       /\ x # 0 => l /\ k <= 16
       /\ l /\ k <= 16 /\ ~s => x # 0
       /\ x # 0 /\ k = 10 => f[2] < x

\* what p has read (r lines of the answer) and what was printed (m lines)
\* leave this input
Staged(p, k, I, W, l, s, r, m) ==
  \E x \in Nat : \E f \in [Int -> Int] :
    /\ LineUp(I, Len(I) - Len(W), Answer(p, k), f, r, m, x)
    /\ Ends(I, Len(I) - Len(W), W)
    /\ Connects(p, k, l, s, f, x)

Talks(p, k, a, j, c, I, W, g, l, s) ==
  \E r, m \in Nat :
    Reading(p, k, a, r) /\ Printed(p, k, a, j, c, g, m) /\ Staged(p, k, I, W, l, s, r, m)

-----------------------------------------------------------------------------
(* The turns of the two programs.                                          *)

\* p's esp has yet to be given, or to deliver, the message of the send p is in
Delivering(p, k, a, j) == Kind(p, k) = "send" /\ ~(a >= 6 /\ j = "none")
\* how many messages p's esp has delivered; n is how many p has received
SentOf(p, k, a, j, n) ==
  IF p = "server"
    THEN IF Kind(p, k) \in {"send", "recv"} /\ ~Delivering(p, k, a, j) THEN n + 1 ELSE n
    ELSE IF Delivering(p, k, a, j) THEN n - 1 ELSE n

Had(p)  == Len(got[p])
Sent(p) == SentOf(p, call[p], at[p], job[p], Had(p))

\* what was delivered to p and not read
Message(i) == <<"+IPD">> \o Messages[i]
Waiting(p) == IF Sent(Peer(p)) > Had(p) THEN Message(Had(p) + 1) ELSE <<>>

\* The message goes to and fro.
Turns ==
  /\ Had("server") <= Sent("client") /\ Sent("client") <= Had("client")
  /\ Had("client") <= Sent("server") /\ Sent("server") <= Had("server") + 1

Counts ==
  /\ call["server"] <= 16 => Had("server") = 0
  /\ call["server"] > 16 => call["server"] \in {2 * Had("server") + 17, 2 * Had("server") + 18}
  /\ call["client"] <= 8 => Had("client") = 0
  /\ call["client"] > 8 => call["client"] \in {2 * Had("client") + 8, 2 * Had("client") + 9}

Received == \A p \in Progs : \A i \in 1 .. Had(p) : got[p][i] = Messages[i]

\* The connection.
AskedOf(k, a)       == k > 8 \/ (k = 8 /\ a >= 2)
LinkedOf(k, a, j, c) == k > 8 \/ (k = 8 /\ a >= 2 /\ c = <<>> /\ j = "none")
UpOf(k, a, j)       == k > 10 \/ (k = 10 /\ a = 3 /\ j = "none")
Asked    == AskedOf(call["client"], at["client"])
LinkDone == LinkedOf(call["client"], at["client"], job["client"], cmds["client"])
ServerUp == UpOf(call["server"], at["server"], job["server"])
Linking ==
  /\ linked <=> LinkDone
  /\ Asked => ServerUp
  /\ call["server"] > 16 => linked

Input(p) == stream[p] \o wire[p]
Own(p) ==
  Talks(p, call[p], at[p], job[p], cmds[p], Input(p), Waiting(p), Messages[Sent(p) + 1],
        linked, missed)

\* what goes over the line
SetUpCmds ==
  {"AT+CWSAP", "AT+CWMODE=3", "AT+CWMODE=1", "AT+CIFSR", "AT+CWJAP", "AT+CIPMUX=1", "AT+CIPSERVER",
   "AT+CIPSTO?", "AT+CIPSTO=7200", "AT+GMR"}
Commands == SetUpCmds \cup {"AT+RST", "AT+RESTORE", "AT+CIPSTART", "AT+CIPSEND"}
Words == Commands \cup {"OK", "boot", "ready", "info", "CONNECT", ">", "Recv", "SENT", "eol", "+IPD"}
Tok == Words \cup UNION {Range(m) : m \in Range(Messages)}
Types ==
  /\ stream \in [Progs -> Seq(Tok)] /\ wire \in [Progs -> Seq(Tok)] /\ cmds \in [Progs -> Seq(Tok)]
  /\ job \in [Progs -> Commands \cup {"none", "boot", "data"}] /\ got \in [Progs -> Seq(Seq(Tok))]
  /\ fault = [p \in Progs |-> "none"]

Core == Types /\ Turns /\ Counts /\ Received /\ Linking /\ \A p \in Progs : Own(p)
IInv ==
  /\ TypeOK /\ call \in [Progs -> Nat] /\ at \in [Progs -> Nat]
  /\ restarts = 0 => Core

(* The programs.                                                           *)

\* One sequence after another, by their places.
LEMMA Joined ==
  ASSUME NEW S, NEW s \in Seq(S), NEW t \in Seq(S)
  PROVE  /\ s \o t \in Seq(S) /\ Len(s) \in Nat /\ Len(t) \in Nat /\ Len(s \o t) = Len(s) + Len(t)
         /\ DOMAIN (s \o t) = 1 .. Len(s) + Len(t)
         /\ \A i \in 1 .. Len(s) : (s \o t)[i] = s[i]
         /\ \A i \in 1 .. Len(t) : (s \o t)[Len(s) + i] = t[i]
<1>1. /\ s \o t \in Seq(S) /\ Len(s \o t) = Len(s) + Len(t)
      /\ \A i \in 1 .. Len(s) + Len(t) : (s \o t)[i] = IF i <= Len(s) THEN s[i] ELSE t[i - Len(s)]
  BY ConcatProperties, ZenonT(60)
<1>2. Len(s) \in Nat /\ Len(t) \in Nat /\ DOMAIN (s \o t) = 1 .. Len(s \o t)
  BY <1>1, LenProperties
<1>3. ASSUME NEW i \in 1 .. Len(s) PROVE (s \o t)[i] = s[i]
  BY <1>1, <1>2, SMTT(60)
<1>4. ASSUME NEW i \in 1 .. Len(t) PROVE (s \o t)[Len(s) + i] = t[i]
  <2>1. /\ Len(s) + i \in 1 .. Len(s) + Len(t) /\ ~(Len(s) + i <= Len(s))
        /\ (Len(s) + i) - Len(s) = i
    BY <1>2, SMTT(60)
  <2>2. QED BY <1>1, <2>1
<1>5. QED BY <1>1, <1>2, <1>3, <1>4

LEMMA Join31 ==
  ASSUME NEW a, NEW b, NEW c, NEW d
  PROVE  LET s == <<a, b, c>> \o <<d>> IN
         Len(s) = 4 /\ DOMAIN s = 1 .. 4 /\ s[1] = a /\ s[2] = b /\ s[3] = c /\ s[4] = d
<1> DEFINE S == {a, b, c, d}
           h == <<a, b, c>>
           t == <<d>>
<1>1. h \in Seq(S) /\ Len(h) = 3 /\ h[1] = a /\ h[2] = b /\ h[3] = c
  OBVIOUS
<1>2. t \in Seq(S) /\ Len(t) = 1 /\ t[1] = d
  OBVIOUS
<1> HIDE DEF S, h, t
<1>3. /\ Len(h \o t) = Len(h) + Len(t) /\ DOMAIN (h \o t) = 1 .. Len(h) + Len(t)
      /\ \A i \in 1 .. Len(h) : (h \o t)[i] = h[i]
      /\ \A i \in 1 .. Len(t) : (h \o t)[Len(h) + i] = t[i]
  <2>1. h \in Seq(S) /\ t \in Seq(S)
    BY <1>1, <1>2
  <2>2. QED BY <2>1, Joined
<1>4. Len(h) + Len(t) = 4 /\ 3 + 1 = 4
  BY <1>1, <1>2
<1>5. /\ (h \o t)[1] = a /\ (h \o t)[2] = b /\ (h \o t)[3] = c
  BY <1>1, <1>3, SMTT(60)
<1>6. (h \o t)[3 + 1] = d
  BY <1>1, <1>2, <1>3, SMTT(60)
<1>7. QED BY <1>3, <1>4, <1>5, <1>6 DEF h, t

LEMMA Join34 ==
  ASSUME NEW a, NEW b, NEW c, NEW d, NEW e, NEW f, NEW g
  PROVE  LET s == <<a, b, c>> \o <<d, e, f, g>> IN
         /\ Len(s) = 7 /\ DOMAIN s = 1 .. 7 /\ s[1] = a /\ s[2] = b /\ s[3] = c
         /\ s[4] = d /\ s[5] = e /\ s[6] = f /\ s[7] = g
<1> DEFINE S == {a, b, c, d, e, f, g}
           h == <<a, b, c>>
           t == <<d, e, f, g>>
<1>1. h \in Seq(S) /\ Len(h) = 3 /\ h[1] = a /\ h[2] = b /\ h[3] = c
  OBVIOUS
<1>2. t \in Seq(S) /\ Len(t) = 4 /\ t[1] = d /\ t[2] = e /\ t[3] = f /\ t[4] = g
  OBVIOUS
<1> HIDE DEF S, h, t
<1>3. /\ Len(h \o t) = Len(h) + Len(t) /\ DOMAIN (h \o t) = 1 .. Len(h) + Len(t)
      /\ \A i \in 1 .. Len(h) : (h \o t)[i] = h[i]
      /\ \A i \in 1 .. Len(t) : (h \o t)[Len(h) + i] = t[i]
  <2>1. h \in Seq(S) /\ t \in Seq(S)
    BY <1>1, <1>2
  <2>2. QED BY <2>1, Joined
<1>4. Len(h) + Len(t) = 7 /\ 3 + 1 = 4 /\ 3 + 2 = 5 /\ 3 + 3 = 6 /\ 3 + 4 = 7
  BY <1>1, <1>2
<1>5. /\ (h \o t)[1] = a /\ (h \o t)[2] = b /\ (h \o t)[3] = c
  BY <1>1, <1>3, SMTT(60)
<1>6. /\ (h \o t)[3 + 1] = d /\ (h \o t)[3 + 2] = e /\ (h \o t)[3 + 3] = f
      /\ (h \o t)[3 + 4] = g
  BY <1>1, <1>2, <1>3, SMTT(60)
<1>7. QED BY <1>3, <1>4, <1>5, <1>6 DEF h, t

\* do_at_cmd makes three operations, at_cmd_extra and at_drain four, esp_send seven.
LEMMA AtOps ==
  ASSUME NEW c, NEW x
  PROVE  /\ Len(At(c, x)) = 3 /\ DOMAIN At(c, x) = 1 .. 3
         /\ At(c, x)[1] = <<"puts", c, x>> /\ At(c, x)[2] = <<"ack", c, x>>
         /\ At(c, x)[3] = <<"expect", "OK", x>>
<1> DEFINE u == <<"puts", c, x>>
           v == <<"ack", c, x>>
           w == <<"expect", "OK", x>>
<1>1. At(c, x) = <<u, v, w>>
  BY DEF At
<1> HIDE DEF u, v, w
<1>2. /\ Len(<<u, v, w>>) = 3 /\ DOMAIN <<u, v, w>> = 1 .. 3
      /\ <<u, v, w>>[1] = u /\ <<u, v, w>>[2] = v /\ <<u, v, w>>[3] = w
  OBVIOUS
<1>3. QED BY <1>1, <1>2, Zenon DEF u, v, w

LEMMA ResetOps ==
  ASSUME NEW c
  PROVE  /\ Len(Reset(c)) = 4 /\ DOMAIN Reset(c) = 1 .. 4
         /\ Reset(c)[1] = <<"puts", c, TRUE>> /\ Reset(c)[2] = <<"ack", c, TRUE>>
         /\ Reset(c)[3] = <<"expect", "OK", TRUE>> /\ Reset(c)[4] = <<"ready", "ready", TRUE>>
<1> DEFINE u == <<"puts", c, TRUE>>
           v == <<"ack", c, TRUE>>
           w == <<"expect", "OK", TRUE>>
           y == <<"ready", "ready", TRUE>>
<1>1. Reset(c) = <<u, v, w>> \o <<y>>
  BY DEF Reset, At, at_drain
<1> HIDE DEF u, v, w, y
<1> DEFINE s == <<u, v, w>> \o <<y>>
<1>2. Len(s) = 4 /\ DOMAIN s = 1 .. 4 /\ s[1] = u /\ s[2] = v /\ s[3] = w /\ s[4] = y
  BY Join31
<1> HIDE DEF s
<1>3. Reset(c) = s
  BY <1>1 DEF s
<1>4. QED BY <1>2, <1>3, Zenon DEF u, v, w, y

LEMMA SendOps ==
  /\ Len(esp_send) = 7 /\ DOMAIN esp_send = 1 .. 7
  /\ esp_send[1] = <<"puts", "AT+CIPSEND", FALSE>> /\ esp_send[2] = <<"ack", "AT+CIPSEND", FALSE>>
  /\ esp_send[3] = <<"expect", "OK", FALSE>> /\ esp_send[4] = <<"prompt", ">", FALSE>>
  /\ esp_send[5] = <<"data", "bytes", FALSE>> /\ esp_send[6] = <<"expect", "Recv", FALSE>>
  /\ esp_send[7] = <<"expect", "SENT", FALSE>>
<1> DEFINE a == <<"puts", "AT+CIPSEND", FALSE>>
           b == <<"ack", "AT+CIPSEND", FALSE>>
           c == <<"expect", "OK", FALSE>>
           d == <<"prompt", ">", FALSE>>
           e == <<"data", "bytes", FALSE>>
           f == <<"expect", "Recv", FALSE>>
           g == <<"expect", "SENT", FALSE>>
<1>1. esp_send = <<a, b, c>> \o <<d, e, f, g>>
  BY DEF esp_send, At
<1> HIDE DEF a, b, c, d, e, f, g
<1> DEFINE s == <<a, b, c>> \o <<d, e, f, g>>
<1>2. /\ Len(s) = 7 /\ DOMAIN s = 1 .. 7 /\ s[1] = a /\ s[2] = b /\ s[3] = c
      /\ s[4] = d /\ s[5] = e /\ s[6] = f /\ s[7] = g
  BY Join34
<1> HIDE DEF s
<1>3. esp_send = s
  BY <1>1 DEF s
<1>4. QED BY <1>2, <1>3, Zenon DEF a, b, c, d, e, f, g

LEMMA LinkOps ==
  /\ Len(issue_tcp_connect) = 4 /\ DOMAIN issue_tcp_connect = 1 .. 4
  /\ issue_tcp_connect[1] = <<"puts", "AT+CIPSTART", FALSE>>
  /\ issue_tcp_connect[2] = <<"ack", "AT+CIPSTART", FALSE>>
  /\ issue_tcp_connect[3] = <<"expect", "CONNECT", FALSE>>
  /\ issue_tcp_connect[4] = <<"expect", "OK", FALSE>>
<1> DEFINE u == <<"puts", "AT+CIPSTART", FALSE>>
           v == <<"ack", "AT+CIPSTART", FALSE>>
           w == <<"expect", "CONNECT", FALSE>>
           y == <<"expect", "OK", FALSE>>
<1>1. issue_tcp_connect = <<u, v, w, y>>
  BY DEF issue_tcp_connect, CIPSTART
<1> HIDE DEF u, v, w, y
<1>2. /\ Len(<<u, v, w, y>>) = 4 /\ DOMAIN <<u, v, w, y>> = 1 .. 4 /\ <<u, v, w, y>>[1] = u
      /\ <<u, v, w, y>>[2] = v /\ <<u, v, w, y>>[3] = w /\ <<u, v, w, y>>[4] = y
  OBVIOUS
<1>3. QED BY <1>1, <1>2, Zenon DEF u, v, w, y

Eats == << <<"eat", "all", TRUE>> >>

LEMMA SingleOps ==
  /\ Len(Eats) = 1 /\ DOMAIN Eats = 1 .. 1 /\ Eats[1] = <<"eat", "all", TRUE>>
  /\ Len(wait_for_conn) = 1 /\ DOMAIN wait_for_conn = 1 .. 1
  /\ wait_for_conn[1] = <<"conn", "CONNECT", TRUE>>
  /\ Len(esp_is_recv) = 1 /\ DOMAIN esp_is_recv = 1 .. 1
  /\ esp_is_recv[1] = <<"recv", "+IPD", FALSE>>
<1>1. ASSUME NEW o PROVE Len(<<o>>) = 1 /\ DOMAIN <<o>> = 1 .. 1 /\ <<o>>[1] = o
  OBVIOUS
<1> DEFINE u == <<"eat", "all", TRUE>>
           v == <<"conn", "CONNECT", TRUE>>
           w == <<"recv", "+IPD", FALSE>>
<1>2. Eats = <<u>> /\ wait_for_conn = <<v>> /\ esp_is_recv = <<w>>
  BY DEF Eats, wait_for_conn, esp_is_recv
<1> HIDE DEF u, v, w
<1>3. QED BY <1>1, <1>2, Zenon DEF u, v, w

\* The calls that set the programs up.
LEMMA Join438 ==
  ASSUME NEW u1, NEW u2, NEW u3, NEW u4, NEW u5, NEW u6, NEW u7, NEW u8, NEW u9, NEW u10,
         NEW u11, NEW u12, NEW u13, NEW u14, NEW u15
  PROVE  LET s == <<u1, u2, u3, u4>>
                  \o <<u5, u6, u7>>
                  \o <<u8, u9, u10, u11, u12, u13, u14, u15>> IN
         /\ s \in Seq({u1, u2, u3, u4, u5, u6, u7, u8, u9, u10, u11, u12, u13, u14, u15})
         /\ Len(s) = 15 /\ s[1] = u1 /\ s[2] = u2 /\ s[3] = u3 /\ s[4] = u4 /\ s[5] = u5
         /\ s[6] = u6 /\ s[7] = u7 /\ s[8] = u8 /\ s[9] = u9 /\ s[10] = u10 /\ s[11] = u11
         /\ s[12] = u12 /\ s[13] = u13 /\ s[14] = u14 /\ s[15] = u15
<1> DEFINE S == {u1, u2, u3, u4, u5, u6, u7, u8, u9, u10, u11, u12, u13, u14, u15}
           h1 == <<u1, u2, u3, u4>>
           h2 == <<u5, u6, u7>>
           h3 == <<u8, u9, u10, u11, u12, u13, u14, u15>>
<1>1. /\ h1 \in Seq(S) /\ Len(h1) = 4
      /\ h1[1] = u1 /\ h1[2] = u2 /\ h1[3] = u3 /\ h1[4] = u4
  OBVIOUS
<1>2. /\ h2 \in Seq(S) /\ Len(h2) = 3
      /\ h2[1] = u5 /\ h2[2] = u6 /\ h2[3] = u7
  OBVIOUS
<1>3. /\ h3 \in Seq(S) /\ Len(h3) = 8
      /\ h3[1] = u8 /\ h3[2] = u9 /\ h3[3] = u10 /\ h3[4] = u11 /\ h3[5] = u12 /\ h3[6] = u13
      /\ h3[7] = u14 /\ h3[8] = u15
  OBVIOUS
<1> HIDE DEF S, h1, h2, h3
<1>4. /\ h1 \o h2 \in Seq(S) /\ Len(h1 \o h2) = Len(h1) + Len(h2)
      /\ \A i \in 1 .. Len(h1) : (h1 \o h2)[i] = (h1)[i]
      /\ \A i \in 1 .. Len(h2) : (h1 \o h2)[Len(h1) + i] = h2[i]
  <2>1. h1 \in Seq(S) /\ h2 \in Seq(S)
    BY <1>1, <1>2
  <2>2. QED BY <2>1, Joined
<1>5. /\ h1 \o h2 \in Seq(S) /\ Len(h1 \o h2) = 7
      /\ (h1 \o h2)[1] = u1 /\ (h1 \o h2)[2] = u2 /\ (h1 \o h2)[3] = u3 /\ (h1 \o h2)[4] = u4
  BY <1>1, <1>2, <1>4, SMTT(60)
<1>6. /\ (h1 \o h2)[4 + 1] = u5 /\ (h1 \o h2)[4 + 2] = u6 /\ (h1 \o h2)[4 + 3] = u7
  BY <1>1, <1>2, <1>4, SMTT(60)
<1>7. /\ 4 + 1 = 5 /\ 4 + 2 = 6 /\ 4 + 3 = 7
  OBVIOUS
<1>8. /\ h1 \o h2 \in Seq(S) /\ Len(h1 \o h2) = 7
      /\ (h1 \o h2)[1] = u1 /\ (h1 \o h2)[2] = u2 /\ (h1 \o h2)[3] = u3 /\ (h1 \o h2)[4] = u4
      /\ (h1 \o h2)[5] = u5 /\ (h1 \o h2)[6] = u6 /\ (h1 \o h2)[7] = u7
  BY <1>5, <1>6, <1>7
<1>9. /\ (h1 \o h2) \o h3 \in Seq(S) /\ Len((h1 \o h2) \o h3) = Len((h1 \o h2)) + Len(h3)
      /\ \A i \in 1 .. Len((h1 \o h2)) : ((h1 \o h2) \o h3)[i] = ((h1 \o h2))[i]
      /\ \A i \in 1 .. Len(h3) : ((h1 \o h2) \o h3)[Len((h1 \o h2)) + i] = h3[i]
  <2>1. (h1 \o h2) \in Seq(S) /\ h3 \in Seq(S)
    BY <1>8, <1>3
  <2>2. QED BY <2>1, Joined
<1> DEFINE y == h1 \o h2
           z == y \o h3
<1>15. z \in Seq(S) /\ Len(z) = 15 /\ (\A i \in 1 .. 7 : z[i] = y[i]) /\ \A i \in 1 .. 8 : z[7 + i] = h3[i]
  <2>1. Len(y) = 7 /\ Len(h3) = 8
    BY <1>8, <1>3, Zenon
  <2>2. 7 + 8 = 15
    OBVIOUS
  <2>3. QED BY <1>9, <2>1, <2>2, Zenon
<1> HIDE DEF y, z
<1>16. z[1] = y[1] /\ z[2] = y[2] /\ z[3] = y[3] /\ z[4] = y[4] /\ z[5] = y[5] /\ z[6] = y[6] /\ z[7] = y[7]
  BY <1>15
<1>17. /\ z[7 + 1] = h3[1] /\ z[7 + 2] = h3[2] /\ z[7 + 3] = h3[3] /\ z[7 + 4] = h3[4]
       /\ z[7 + 5] = h3[5] /\ z[7 + 6] = h3[6] /\ z[7 + 7] = h3[7] /\ z[7 + 8] = h3[8]
  <2>1. /\ 1 \in 1 .. 8 /\ 2 \in 1 .. 8 /\ 3 \in 1 .. 8 /\ 4 \in 1 .. 8 /\ 5 \in 1 .. 8 /\ 6 \in 1 .. 8
        /\ 7 \in 1 .. 8 /\ 8 \in 1 .. 8
    OBVIOUS
  <2>2. QED BY <1>15, <2>1, Zenon
<1>10. /\ (h1 \o h2) \o h3 \in Seq(S) /\ Len((h1 \o h2) \o h3) = 15
      /\ ((h1 \o h2) \o h3)[1] = u1 /\ ((h1 \o h2) \o h3)[2] = u2 /\ ((h1 \o h2) \o h3)[3] = u3
      /\ ((h1 \o h2) \o h3)[4] = u4 /\ ((h1 \o h2) \o h3)[5] = u5 /\ ((h1 \o h2) \o h3)[6] = u6
      /\ ((h1 \o h2) \o h3)[7] = u7
  BY <1>8, <1>15, <1>16, Zenon DEF y, z
<1>11. /\ ((h1 \o h2) \o h3)[7 + 1] = u8 /\ ((h1 \o h2) \o h3)[7 + 2] = u9
      /\ ((h1 \o h2) \o h3)[7 + 3] = u10 /\ ((h1 \o h2) \o h3)[7 + 4] = u11
      /\ ((h1 \o h2) \o h3)[7 + 5] = u12 /\ ((h1 \o h2) \o h3)[7 + 6] = u13
      /\ ((h1 \o h2) \o h3)[7 + 7] = u14 /\ ((h1 \o h2) \o h3)[7 + 8] = u15
  BY <1>3, <1>17, Zenon DEF y, z
<1>12. /\ 7 + 1 = 8 /\ 7 + 2 = 9 /\ 7 + 3 = 10 /\ 7 + 4 = 11 /\ 7 + 5 = 12 /\ 7 + 6 = 13
      /\ 7 + 7 = 14 /\ 7 + 8 = 15
  OBVIOUS
<1>13. /\ (h1 \o h2) \o h3 \in Seq(S) /\ Len((h1 \o h2) \o h3) = 15
      /\ ((h1 \o h2) \o h3)[1] = u1 /\ ((h1 \o h2) \o h3)[2] = u2 /\ ((h1 \o h2) \o h3)[3] = u3
      /\ ((h1 \o h2) \o h3)[4] = u4 /\ ((h1 \o h2) \o h3)[5] = u5 /\ ((h1 \o h2) \o h3)[6] = u6
      /\ ((h1 \o h2) \o h3)[7] = u7 /\ ((h1 \o h2) \o h3)[8] = u8 /\ ((h1 \o h2) \o h3)[9] = u9
      /\ ((h1 \o h2) \o h3)[10] = u10 /\ ((h1 \o h2) \o h3)[11] = u11
      /\ ((h1 \o h2) \o h3)[12] = u12 /\ ((h1 \o h2) \o h3)[13] = u13
      /\ ((h1 \o h2) \o h3)[14] = u14 /\ ((h1 \o h2) \o h3)[15] = u15
  BY <1>10, <1>11, <1>12
<1>14. QED BY <1>13 DEF S, h1, h2, h3

LEMMA Join422 ==
  ASSUME NEW u1, NEW u2, NEW u3, NEW u4, NEW u5, NEW u6, NEW u7, NEW u8
  PROVE  LET s == <<u1, u2, u3, u4>>
                  \o <<u5, u6>>
                  \o <<u7, u8>> IN
         /\ s \in Seq({u1, u2, u3, u4, u5, u6, u7, u8}) /\ Len(s) = 8 /\ s[1] = u1 /\ s[2] = u2
         /\ s[3] = u3 /\ s[4] = u4 /\ s[5] = u5 /\ s[6] = u6 /\ s[7] = u7 /\ s[8] = u8
<1> DEFINE S == {u1, u2, u3, u4, u5, u6, u7, u8}
           h1 == <<u1, u2, u3, u4>>
           h2 == <<u5, u6>>
           h3 == <<u7, u8>>
<1>1. /\ h1 \in Seq(S) /\ Len(h1) = 4
      /\ h1[1] = u1 /\ h1[2] = u2 /\ h1[3] = u3 /\ h1[4] = u4
  OBVIOUS
<1>2. /\ h2 \in Seq(S) /\ Len(h2) = 2
      /\ h2[1] = u5 /\ h2[2] = u6
  OBVIOUS
<1>3. /\ h3 \in Seq(S) /\ Len(h3) = 2
      /\ h3[1] = u7 /\ h3[2] = u8
  OBVIOUS
<1> HIDE DEF S, h1, h2, h3
<1>4. /\ h1 \o h2 \in Seq(S) /\ Len(h1 \o h2) = Len(h1) + Len(h2)
      /\ \A i \in 1 .. Len(h1) : (h1 \o h2)[i] = (h1)[i]
      /\ \A i \in 1 .. Len(h2) : (h1 \o h2)[Len(h1) + i] = h2[i]
  <2>1. h1 \in Seq(S) /\ h2 \in Seq(S)
    BY <1>1, <1>2
  <2>2. QED BY <2>1, Joined
<1>5. /\ h1 \o h2 \in Seq(S) /\ Len(h1 \o h2) = 6
      /\ (h1 \o h2)[1] = u1 /\ (h1 \o h2)[2] = u2 /\ (h1 \o h2)[3] = u3 /\ (h1 \o h2)[4] = u4
  BY <1>1, <1>2, <1>4, SMTT(60)
<1>6. /\ (h1 \o h2)[4 + 1] = u5 /\ (h1 \o h2)[4 + 2] = u6
  BY <1>1, <1>2, <1>4, SMTT(60)
<1>7. /\ 4 + 1 = 5 /\ 4 + 2 = 6
  OBVIOUS
<1>8. /\ h1 \o h2 \in Seq(S) /\ Len(h1 \o h2) = 6
      /\ (h1 \o h2)[1] = u1 /\ (h1 \o h2)[2] = u2 /\ (h1 \o h2)[3] = u3 /\ (h1 \o h2)[4] = u4
      /\ (h1 \o h2)[5] = u5 /\ (h1 \o h2)[6] = u6
  BY <1>5, <1>6, <1>7
<1>9. /\ (h1 \o h2) \o h3 \in Seq(S) /\ Len((h1 \o h2) \o h3) = Len((h1 \o h2)) + Len(h3)
      /\ \A i \in 1 .. Len((h1 \o h2)) : ((h1 \o h2) \o h3)[i] = ((h1 \o h2))[i]
      /\ \A i \in 1 .. Len(h3) : ((h1 \o h2) \o h3)[Len((h1 \o h2)) + i] = h3[i]
  <2>1. (h1 \o h2) \in Seq(S) /\ h3 \in Seq(S)
    BY <1>8, <1>3
  <2>2. QED BY <2>1, Joined
<1>10. /\ (h1 \o h2) \o h3 \in Seq(S) /\ Len((h1 \o h2) \o h3) = 8
      /\ ((h1 \o h2) \o h3)[1] = u1 /\ ((h1 \o h2) \o h3)[2] = u2 /\ ((h1 \o h2) \o h3)[3] = u3
      /\ ((h1 \o h2) \o h3)[4] = u4 /\ ((h1 \o h2) \o h3)[5] = u5 /\ ((h1 \o h2) \o h3)[6] = u6
  BY <1>8, <1>3, <1>9, SMTT(60)
<1>11. /\ ((h1 \o h2) \o h3)[6 + 1] = u7 /\ ((h1 \o h2) \o h3)[6 + 2] = u8
  BY <1>8, <1>3, <1>9, SMTT(60)
<1>12. /\ 6 + 1 = 7 /\ 6 + 2 = 8
  OBVIOUS
<1>13. /\ (h1 \o h2) \o h3 \in Seq(S) /\ Len((h1 \o h2) \o h3) = 8
      /\ ((h1 \o h2) \o h3)[1] = u1 /\ ((h1 \o h2) \o h3)[2] = u2 /\ ((h1 \o h2) \o h3)[3] = u3
      /\ ((h1 \o h2) \o h3)[4] = u4 /\ ((h1 \o h2) \o h3)[5] = u5 /\ ((h1 \o h2) \o h3)[6] = u6
      /\ ((h1 \o h2) \o h3)[7] = u7 /\ ((h1 \o h2) \o h3)[8] = u8
  BY <1>10, <1>11, <1>12
<1>14. QED BY <1>13 DEF S, h1, h2, h3

LEMMA ServerSetUpCalls ==
  /\ \E S : ServerSetUp \in Seq(S) /\ Len(ServerSetUp) = 15 /\ ServerSetUp[1] = Eats
  /\ ServerSetUp[2] = Reset("AT+RST") /\ ServerSetUp[3] = Reset("AT+RESTORE")
  /\ ServerSetUp[4] = Reset("AT+RST") /\ ServerSetUp[5] = At("AT+CWSAP", FALSE)
  /\ ServerSetUp[6] = At("AT+CWMODE=3", FALSE) /\ ServerSetUp[7] = At("AT+CIFSR", TRUE)
  /\ ServerSetUp[8] = At("AT+CWMODE=3", FALSE) /\ ServerSetUp[9] = At("AT+CIPMUX=1", FALSE)
  /\ ServerSetUp[10] = At("AT+CIPSERVER", FALSE) /\ ServerSetUp[11] = At("AT+CIPSTO?", TRUE)
  /\ ServerSetUp[12] = At("AT+CIPSTO=7200", TRUE) /\ ServerSetUp[13] = At("AT+CIPSTO?", TRUE)
  /\ ServerSetUp[14] = At("AT+CIFSR", TRUE) /\ ServerSetUp[15] = At("AT+GMR", TRUE)
<1> DEFINE u1 == Eats
           u2 == Reset("AT+RST")
           u3 == Reset("AT+RESTORE")
           u4 == Reset("AT+RST")
           u5 == At("AT+CWSAP", FALSE)
           u6 == At("AT+CWMODE=3", FALSE)
           u7 == At("AT+CIFSR", TRUE)
           u8 == At("AT+CWMODE=3", FALSE)
           u9 == At("AT+CIPMUX=1", FALSE)
           u10 == At("AT+CIPSERVER", FALSE)
           u11 == At("AT+CIPSTO?", TRUE)
           u12 == At("AT+CIPSTO=7200", TRUE)
           u13 == At("AT+CIPSTO?", TRUE)
           u14 == At("AT+CIFSR", TRUE)
           u15 == At("AT+GMR", TRUE)
<1>1. ServerSetUp = <<u1, u2, u3, u4>>
                  \o <<u5, u6, u7>>
                  \o <<u8, u9, u10, u11, u12, u13, u14, u15>>
  BY DEF ServerSetUp, esp_hard_reset, esp_setup_wifi, esp_start_tcp_server, Eats
<1> HIDE DEF u1, u2, u3, u4, u5, u6, u7, u8, u9, u10, u11, u12, u13, u14, u15
<1> DEFINE s == <<u1, u2, u3, u4>>
                  \o <<u5, u6, u7>>
                  \o <<u8, u9, u10, u11, u12, u13, u14, u15>>
<1>2. /\ s \in Seq({u1, u2, u3, u4, u5, u6, u7, u8, u9, u10, u11, u12, u13, u14, u15})
      /\ Len(s) = 15 /\ s[1] = u1 /\ s[2] = u2 /\ s[3] = u3 /\ s[4] = u4 /\ s[5] = u5
      /\ s[6] = u6 /\ s[7] = u7 /\ s[8] = u8 /\ s[9] = u9 /\ s[10] = u10 /\ s[11] = u11
      /\ s[12] = u12 /\ s[13] = u13 /\ s[14] = u14 /\ s[15] = u15
  BY Join438
<1> HIDE DEF s
<1>3. ServerSetUp = s
  BY <1>1 DEF s
<1>4. QED BY <1>2, <1>3, Zenon DEF u1, u2, u3, u4, u5, u6, u7, u8, u9, u10, u11, u12, u13, u14, u15

LEMMA ClientSetUpCalls ==
  /\ \E S : ClientSetUp \in Seq(S) /\ Len(ClientSetUp) = 8 /\ ClientSetUp[1] = Eats
  /\ ClientSetUp[2] = Reset("AT+RST") /\ ClientSetUp[3] = Reset("AT+RESTORE")
  /\ ClientSetUp[4] = Reset("AT+RST") /\ ClientSetUp[5] = At("AT+CWMODE=1", FALSE)
  /\ ClientSetUp[6] = At("AT+CWJAP", TRUE) /\ ClientSetUp[7] = At("AT+CIPMUX=1", FALSE)
  /\ ClientSetUp[8] = issue_tcp_connect
<1> DEFINE u1 == Eats
           u2 == Reset("AT+RST")
           u3 == Reset("AT+RESTORE")
           u4 == Reset("AT+RST")
           u5 == At("AT+CWMODE=1", FALSE)
           u6 == At("AT+CWJAP", TRUE)
           u7 == At("AT+CIPMUX=1", FALSE)
           u8 == issue_tcp_connect
<1>1. ClientSetUp = <<u1, u2, u3, u4>>
                  \o <<u5, u6>>
                  \o <<u7, u8>>
  BY DEF ClientSetUp, esp_hard_reset, esp_connect_to_wifi, esp_start_tcp_client, Eats
<1> HIDE DEF u1, u2, u3, u4, u5, u6, u7, u8
<1> DEFINE s == <<u1, u2, u3, u4>>
                  \o <<u5, u6>>
                  \o <<u7, u8>>
<1>2. /\ s \in Seq({u1, u2, u3, u4, u5, u6, u7, u8}) /\ Len(s) = 8 /\ s[1] = u1 /\ s[2] = u2
      /\ s[3] = u3 /\ s[4] = u4 /\ s[5] = u5 /\ s[6] = u6 /\ s[7] = u7 /\ s[8] = u8
  BY Join422
<1> HIDE DEF s
<1>3. ClientSetUp = s
  BY <1>1 DEF s
<1>4. QED BY <1>2, <1>3, Zenon DEF u1, u2, u3, u4, u5, u6, u7, u8

\* NTRIALS rounds of two calls.
N == Len(Messages)

LEMMA NType == N \in Nat
BY EspAssumption, LenProperties DEF N

LEMMA RoundsCalls ==
  ASSUME NEW a, NEW b
  PROVE  /\ Rounds(a, b) \in Seq({a, b}) /\ Len(Rounds(a, b)) = 2 * N
         /\ \A i \in 1 .. 2 * N : Rounds(a, b)[i] = IF i % 2 = 1 THEN a ELSE b
<1>1. 2 * N \in Nat
  BY NType
<1> DEFINE R == [i \in 1 .. 2 * N |-> IF i % 2 = 1 THEN a ELSE b]
<1>2. Rounds(a, b) = R
  BY DEF Rounds, N
<1>3. R \in [1 .. 2 * N -> {a, b}]
  OBVIOUS
<1>4. R \in Seq({a, b}) /\ Len(R) = 2 * N
  BY <1>1, <1>3
<1>5. QED BY <1>2, <1>4

\* The calls of a program, its set-up and then the rounds.
LEMMA ServerCalls ==
  /\ Len(ServerMain) = 16 + 2 * N /\ DOMAIN ServerMain = 1 .. 16 + 2 * N
  /\ \A k \in 1 .. 15 : ServerMain[k] = ServerSetUp[k]
  /\ ServerMain[16] = wait_for_conn
  /\ \A i \in 1 .. 2 * N : ServerMain[16 + i] = IF i % 2 = 1 THEN esp_send ELSE esp_is_recv
<1> DEFINE c == <<wait_for_conn>>
           R == Rounds(esp_send, esp_is_recv)
           h == ServerSetUp
           su == h \o c
<1>1. PICK S : h \in Seq(S)
  BY ServerSetUpCalls, Zenon
<1> DEFINE U == S \cup {wait_for_conn, esp_send, esp_is_recv}
<1>2. Len(h) = 15 /\ 2 * N \in Nat
  BY ServerSetUpCalls, NType
<1>3. c \in Seq({wait_for_conn}) /\ Len(c) = 1 /\ c[1] = wait_for_conn
  OBVIOUS
<1>4. /\ R \in Seq({esp_send, esp_is_recv}) /\ Len(R) = 2 * N
      /\ \A i \in 1 .. 2 * N : R[i] = IF i % 2 = 1 THEN esp_send ELSE esp_is_recv
  BY RoundsCalls
<1>5. S \subseteq U /\ {wait_for_conn} \subseteq U /\ {esp_send, esp_is_recv} \subseteq U
  OBVIOUS
<1>6. ServerMain = su \o R
  BY DEF ServerMain
<1> HIDE DEF c, R, h, U
<1>7. h \in Seq(U) /\ c \in Seq(U) /\ R \in Seq(U)
  BY <1>1, <1>3, <1>4, <1>5, SeqMonotonic, Zenon
<1>8. /\ su \in Seq(U) /\ Len(su) = Len(h) + Len(c)
      /\ \A i \in 1 .. Len(h) : su[i] = h[i]
      /\ \A i \in 1 .. Len(c) : su[Len(h) + i] = c[i]
  BY <1>7, Joined
<1> HIDE DEF su
<1>9. /\ Len(su) = 16 /\ \A k \in 1 .. 15 : su[k] = h[k]
      /\ su[15 + 1] = wait_for_conn
  BY <1>2, <1>3, <1>8, SMTT(60)
<1>10. 15 + 1 = 16
  OBVIOUS
<1>11. /\ Len(su \o R) = Len(su) + Len(R) /\ DOMAIN (su \o R) = 1 .. Len(su) + Len(R)
       /\ \A i \in 1 .. Len(su) : (su \o R)[i] = su[i]
       /\ \A i \in 1 .. Len(R) : (su \o R)[Len(su) + i] = R[i]
  <2>1. su \in Seq(U) /\ R \in Seq(U)
    BY <1>7, <1>8
  <2>2. QED BY <2>1, Joined
<1>12. /\ Len(su \o R) = 16 + 2 * N /\ DOMAIN (su \o R) = 1 .. 16 + 2 * N
       /\ \A i \in 1 .. 16 : (su \o R)[i] = su[i]
       /\ \A i \in 1 .. 2 * N : (su \o R)[16 + i] = R[i]
  BY <1>4, <1>9, <1>11, Zenon
<1>13. (\A k \in 1 .. 15 : k \in 1 .. 16) /\ 16 \in 1 .. 16
  OBVIOUS
<1>14. \A i \in 1 .. 2 * N : ServerMain[16 + i] = IF i % 2 = 1 THEN esp_send ELSE esp_is_recv
  BY <1>4, <1>6, <1>12, Zenon
<1>15. QED BY <1>6, <1>9, <1>10, <1>12, <1>13, <1>14, Zenon DEF h

LEMMA ClientCalls ==
  /\ Len(ClientMain) = 8 + 2 * N /\ DOMAIN ClientMain = 1 .. 8 + 2 * N
  /\ \A k \in 1 .. 8 : ClientMain[k] = ClientSetUp[k]
  /\ \A i \in 1 .. 2 * N : ClientMain[8 + i] = IF i % 2 = 1 THEN esp_is_recv ELSE esp_send
<1> DEFINE R == Rounds(esp_is_recv, esp_send)
           su == ClientSetUp
<1>1. PICK S : su \in Seq(S)
  BY ClientSetUpCalls, Zenon
<1> DEFINE U == S \cup {esp_send, esp_is_recv}
<1>2. Len(su) = 8 /\ 2 * N \in Nat
  BY ClientSetUpCalls, NType
<1>3. /\ R \in Seq({esp_is_recv, esp_send}) /\ Len(R) = 2 * N
      /\ \A i \in 1 .. 2 * N : R[i] = IF i % 2 = 1 THEN esp_is_recv ELSE esp_send
  BY RoundsCalls
<1>4. S \subseteq U /\ {esp_is_recv, esp_send} \subseteq U
  OBVIOUS
<1>5. ClientMain = su \o R
  BY DEF ClientMain
<1> HIDE DEF R, su, U
<1>6. su \in Seq(U) /\ R \in Seq(U)
  BY <1>1, <1>3, <1>4, SeqMonotonic, Zenon
<1>7. /\ Len(su \o R) = Len(su) + Len(R) /\ DOMAIN (su \o R) = 1 .. Len(su) + Len(R)
      /\ \A i \in 1 .. Len(su) : (su \o R)[i] = su[i]
      /\ \A i \in 1 .. Len(R) : (su \o R)[Len(su) + i] = R[i]
  BY <1>6, Joined
<1>8. QED BY <1>2, <1>3, <1>5, <1>7, Zenon DEF su

-----------------------------------------------------------------------------
(* The calls by their kind.                                                *)

Call(p, k)  == esp_main(p)[k]
Extra(p, k) == Call(p, k)[1][3]

LEMMA Sizes ==
  ASSUME NEW p \in Progs
  PROVE  /\ Len(esp_main(p)) \in Nat
         /\ p = "server" => Len(esp_main(p)) = 16 + 2 * N /\ Len(SetUp(p)) = 15
         /\ p = "client" => Len(esp_main(p)) = 8 + 2 * N /\ Len(SetUp(p)) = 8
         /\ DOMAIN esp_main(p) = 1 .. Len(esp_main(p))
         /\ Len(esp_hard_reset) = 4
<1>1. Len(esp_hard_reset) = 4
  <2>1. ASSUME NEW a, NEW b, NEW c, NEW d PROVE Len(<<a, b, c, d>>) = 4
    OBVIOUS
  <2>2. QED BY <2>1, Zenon DEF esp_hard_reset
<1>2. Len(ServerSetUp) = 15 /\ Len(ClientSetUp) = 8
  BY ServerSetUpCalls, ClientSetUpCalls, Zenon
<1>3. /\ Len(ServerMain) = 16 + 2 * N /\ DOMAIN ServerMain = 1 .. Len(ServerMain)
      /\ Len(ClientMain) = 8 + 2 * N /\ DOMAIN ClientMain = 1 .. Len(ClientMain)
  BY ServerCalls, ClientCalls, Zenon
<1>4. 16 + 2 * N \in Nat /\ 8 + 2 * N \in Nat
  BY NType
<1>5. "server" # "client"
  OBVIOUS
<1>6. p = "server" \/ p = "client"
  BY DEF Progs
<1>7. CASE p = "server"
  BY <1>1, <1>2, <1>3, <1>4, <1>5, <1>7, Zenon DEF esp_main, SetUp
<1>8. CASE p = "client"
  BY <1>1, <1>2, <1>3, <1>4, <1>5, <1>8, Zenon DEF esp_main, SetUp
<1>9. QED BY <1>6, <1>7, <1>8

\* What a set-up call of the server is.
LEMMA ServerSetUpKinds ==
  ASSUME NEW k \in 1 .. 15
  PROVE  /\ k = 1 => ServerSetUp[k] = Eats
         /\ k \in 2 .. 4 => \E s \in {"AT+RST", "AT+RESTORE"} : ServerSetUp[k] = Reset(s)
         /\ k > 4 => \E s \in SetUpCmds, x \in BOOLEAN :
              /\ ServerSetUp[k] = At(s, x) /\ (s \in Talkative => x)
              /\ (k > 10 => x) /\ (s = "AT+CIPSERVER" <=> k = 10)
<1> DEFINE W(s, x) == /\ s \in SetUpCmds /\ x \in BOOLEAN /\ ServerSetUp[k] = At(s, x)
                         /\ (s \in Talkative => x) /\ (k > 10 => x) /\ (s = "AT+CIPSERVER" <=> k = 10)
<1>1. k = 1 => ServerSetUp[k] = Eats
  BY ServerSetUpCalls, Zenon
<1>2. ASSUME k \in 2 .. 4 PROVE \E s \in {"AT+RST", "AT+RESTORE"} : ServerSetUp[k] = Reset(s)
  <2>1. k = 2 \/ k = 3 \/ k = 4
    BY <1>2
  <2>2. QED BY <2>1, ServerSetUpCalls, Zenon
<1>3. ASSUME k > 4 PROVE \E s, x : W(s, x)
  <2>1. \/ k = 5 \/ k = 6 \/ k = 7 \/ k = 8 \/ k = 9 \/ k = 10
        \/ k = 11 \/ k = 12 \/ k = 13 \/ k = 14 \/ k = 15
    BY <1>3
  <2>2. CASE k = 5
    <3>1. ServerSetUp[k] = At("AT+CWSAP", FALSE)
      BY <2>2, ServerSetUpCalls, Zenon
    <3>2. W("AT+CWSAP", FALSE)
      BY <2>2, <3>1 DEF SetUpCmds, Talkative
    <3>3. QED BY <3>2, Zenon
  <2>3. CASE k = 6
    <3>1. ServerSetUp[k] = At("AT+CWMODE=3", FALSE)
      BY <2>3, ServerSetUpCalls, Zenon
    <3>2. W("AT+CWMODE=3", FALSE)
      BY <2>3, <3>1 DEF SetUpCmds, Talkative
    <3>3. QED BY <3>2, Zenon
  <2>4. CASE k = 7
    <3>1. ServerSetUp[k] = At("AT+CIFSR", TRUE)
      BY <2>4, ServerSetUpCalls, Zenon
    <3>2. W("AT+CIFSR", TRUE)
      BY <2>4, <3>1 DEF SetUpCmds, Talkative
    <3>3. QED BY <3>2, Zenon
  <2>5. CASE k = 8
    <3>1. ServerSetUp[k] = At("AT+CWMODE=3", FALSE)
      BY <2>5, ServerSetUpCalls, Zenon
    <3>2. W("AT+CWMODE=3", FALSE)
      BY <2>5, <3>1 DEF SetUpCmds, Talkative
    <3>3. QED BY <3>2, Zenon
  <2>6. CASE k = 9
    <3>1. ServerSetUp[k] = At("AT+CIPMUX=1", FALSE)
      BY <2>6, ServerSetUpCalls, Zenon
    <3>2. W("AT+CIPMUX=1", FALSE)
      BY <2>6, <3>1 DEF SetUpCmds, Talkative
    <3>3. QED BY <3>2, Zenon
  <2>7. CASE k = 10
    <3>1. ServerSetUp[k] = At("AT+CIPSERVER", FALSE)
      BY <2>7, ServerSetUpCalls, Zenon
    <3>2. W("AT+CIPSERVER", FALSE)
      BY <2>7, <3>1 DEF SetUpCmds, Talkative
    <3>3. QED BY <3>2, Zenon
  <2>8. CASE k = 11
    <3>1. ServerSetUp[k] = At("AT+CIPSTO?", TRUE)
      BY <2>8, ServerSetUpCalls, Zenon
    <3>2. W("AT+CIPSTO?", TRUE)
      BY <2>8, <3>1 DEF SetUpCmds, Talkative
    <3>3. QED BY <3>2, Zenon
  <2>9. CASE k = 12
    <3>1. ServerSetUp[k] = At("AT+CIPSTO=7200", TRUE)
      BY <2>9, ServerSetUpCalls, Zenon
    <3>2. W("AT+CIPSTO=7200", TRUE)
      BY <2>9, <3>1 DEF SetUpCmds, Talkative
    <3>3. QED BY <3>2, Zenon
  <2>10. CASE k = 13
    <3>1. ServerSetUp[k] = At("AT+CIPSTO?", TRUE)
      BY <2>10, ServerSetUpCalls, Zenon
    <3>2. W("AT+CIPSTO?", TRUE)
      BY <2>10, <3>1 DEF SetUpCmds, Talkative
    <3>3. QED BY <3>2, Zenon
  <2>11. CASE k = 14
    <3>1. ServerSetUp[k] = At("AT+CIFSR", TRUE)
      BY <2>11, ServerSetUpCalls, Zenon
    <3>2. W("AT+CIFSR", TRUE)
      BY <2>11, <3>1 DEF SetUpCmds, Talkative
    <3>3. QED BY <3>2, Zenon
  <2>12. CASE k = 15
    <3>1. ServerSetUp[k] = At("AT+GMR", TRUE)
      BY <2>12, ServerSetUpCalls, Zenon
    <3>2. W("AT+GMR", TRUE)
      BY <2>12, <3>1 DEF SetUpCmds, Talkative
    <3>3. QED BY <3>2, Zenon
  <2>13. QED BY <2>1, <2>2, <2>3, <2>4, <2>5, <2>6, <2>7, <2>8, <2>9, <2>10, <2>11, <2>12, Zenon
<1>4. QED BY <1>1, <1>2, <1>3, Zenon

\* What a set-up call of the client is.
LEMMA ClientSetUpKinds ==
  ASSUME NEW k \in 1 .. 7
  PROVE  /\ k = 1 => ClientSetUp[k] = Eats
         /\ k \in 2 .. 4 => \E s \in {"AT+RST", "AT+RESTORE"} : ClientSetUp[k] = Reset(s)
         /\ k > 4 => \E s \in SetUpCmds, x \in BOOLEAN :
              /\ ClientSetUp[k] = At(s, x) /\ (s \in Talkative => x)
              /\ s # "AT+CIPSERVER"
<1> DEFINE W(s, x) == /\ s \in SetUpCmds /\ x \in BOOLEAN /\ ClientSetUp[k] = At(s, x)
                         /\ (s \in Talkative => x) /\ s # "AT+CIPSERVER"
<1>1. k = 1 => ClientSetUp[k] = Eats
  BY ClientSetUpCalls, Zenon
<1>2. ASSUME k \in 2 .. 4 PROVE \E s \in {"AT+RST", "AT+RESTORE"} : ClientSetUp[k] = Reset(s)
  <2>1. k = 2 \/ k = 3 \/ k = 4
    BY <1>2
  <2>2. QED BY <2>1, ClientSetUpCalls, Zenon
<1>3. ASSUME k > 4 PROVE \E s, x : W(s, x)
  <2>1. \/ k = 5 \/ k = 6 \/ k = 7
    BY <1>3
  <2>2. CASE k = 5
    <3>1. ClientSetUp[k] = At("AT+CWMODE=1", FALSE)
      BY <2>2, ClientSetUpCalls, Zenon
    <3>2. W("AT+CWMODE=1", FALSE)
      BY <2>2, <3>1 DEF SetUpCmds, Talkative
    <3>3. QED BY <3>2, Zenon
  <2>3. CASE k = 6
    <3>1. ClientSetUp[k] = At("AT+CWJAP", TRUE)
      BY <2>3, ClientSetUpCalls, Zenon
    <3>2. W("AT+CWJAP", TRUE)
      BY <2>3, <3>1 DEF SetUpCmds, Talkative
    <3>3. QED BY <3>2, Zenon
  <2>4. CASE k = 7
    <3>1. ClientSetUp[k] = At("AT+CIPMUX=1", FALSE)
      BY <2>4, ClientSetUpCalls, Zenon
    <3>2. W("AT+CIPMUX=1", FALSE)
      BY <2>4, <3>1 DEF SetUpCmds, Talkative
    <3>3. QED BY <3>2, Zenon
  <2>5. QED BY <2>1, <2>2, <2>3, <2>4, Zenon
<1>4. QED BY <1>1, <1>2, <1>3, Zenon

\* What a call of the rounds is.
LEMMA RoundKinds ==
  ASSUME NEW p \in Progs, NEW k \in 1 .. Len(esp_main(p)), k > Len(SetUp(p)), ~(p = "server" /\ k = 16)
  PROVE  \/ Kind(p, k) = "send" /\ Call(p, k) = esp_send /\ (k % 2 = 1 <=> p = "server")
         \/ Kind(p, k) = "recv" /\ Call(p, k) = esp_is_recv /\ (k % 2 = 1 <=> p = "client")
<1>1. CASE p = "server"
  <2>1. k \in Nat /\ k > 16 /\ k - 16 \in 1 .. 2 * N /\ 16 + (k - 16) = k /\ (k - 16) % 2 = k % 2
    <3>1. Len(esp_main(p)) = 16 + 2 * N /\ k > 15 /\ (p = "server" => k # 16)
      BY <1>1, Sizes
    <3>2. k \in Nat /\ k > 16 /\ k - 16 \in 1 .. 2 * N /\ 16 + (k - 16) = k
      BY <1>1, <3>1, NType
    <3>3. ASSUME NEW i \in Int PROVE (i - 16) % 2 = i % 2
      OBVIOUS
    <3>4. QED BY <3>2, <3>3
  <2>2. ServerMain[16 + (k - 16)] = IF (k - 16) % 2 = 1 THEN esp_send ELSE esp_is_recv
    BY <2>1, ServerCalls, Zenon
  <2>3. Call(p, k) = IF k % 2 = 1 THEN esp_send ELSE esp_is_recv
    BY <1>1, <2>1, <2>2, Zenon DEF Call, esp_main
  <2>4. Kind(p, k) = IF k % 2 = 1 THEN "send" ELSE "recv"
    <3>1. k # 1 /\ k \notin 2 .. 4 /\ k \notin 5 .. 15 /\ k # 16 /\ ~(k > Len(esp_main(p))) /\ p = "server"
      BY <1>1, <2>1, Sizes
    <3>2. Kind(p, k) = IF (k % 2 = 1) = (p = "server") THEN "send" ELSE "recv"
      BY <3>1, Zenon DEF Kind
    <3>3. CASE k % 2 = 1
      BY <3>1, <3>2, <3>3
    <3>4. CASE k % 2 # 1
      BY <3>1, <3>2, <3>4
    <3>5. QED BY <3>3, <3>4
  <2>5. QED BY <1>1, <2>3, <2>4
<1>2. CASE p = "client"
  <2>1. k \in Nat /\ k > 8 /\ k - 8 \in 1 .. 2 * N /\ 8 + (k - 8) = k /\ (k - 8) % 2 = k % 2
    <3>1. Len(esp_main(p)) = 8 + 2 * N /\ k > 8 /\ (p = "server" => k # 16)
      BY <1>2, Sizes
    <3>2. k \in Nat /\ k > 8 /\ k - 8 \in 1 .. 2 * N /\ 8 + (k - 8) = k
      BY <1>2, <3>1, NType
    <3>3. ASSUME NEW i \in Int PROVE (i - 8) % 2 = i % 2
      OBVIOUS
    <3>4. QED BY <3>2, <3>3
  <2>2. ClientMain[8 + (k - 8)] = IF (k - 8) % 2 = 1 THEN esp_is_recv ELSE esp_send
    BY <2>1, ClientCalls, Zenon
  <2>3. Call(p, k) = IF k % 2 = 1 THEN esp_is_recv ELSE esp_send
    BY <1>2, <2>1, <2>2, Zenon DEF Call, esp_main
  <2>4. Kind(p, k) = IF k % 2 = 1 THEN "recv" ELSE "send"
    BY <1>2, <2>1 DEF Kind
  <2>5. QED BY <1>2, <2>3, <2>4
<1>3. QED BY <1>1, <1>2 DEF Progs

\* What a call is.
LEMMA Kinds ==
  ASSUME NEW p \in Progs, NEW k \in 1 .. Len(esp_main(p))
  PROVE  \/ Kind(p, k) = "eat" /\ k = 1 /\ Call(p, k) = Eats
         \/ /\ Kind(p, k) = "reset" /\ k \in 2 .. 4
            /\ \E s \in {"AT+RST", "AT+RESTORE"} : Call(p, k) = Reset(s)
         \/ /\ Kind(p, k) = "at" /\ k \in 5 .. (IF p = "server" THEN 15 ELSE 7)
            /\ \E s \in SetUpCmds, x \in BOOLEAN :
                 /\ Call(p, k) = At(s, x) /\ (s \in Talkative => x)
                 /\ (p = "server" /\ k > 10) => x
                 /\ s = "AT+CIPSERVER" <=> (p = "server" /\ k = 10)
         \/ Kind(p, k) = "conn" /\ p = "server" /\ k = 16 /\ Call(p, k) = wait_for_conn
         \/ Kind(p, k) = "link" /\ p = "client" /\ k = 8 /\ Call(p, k) = issue_tcp_connect
         \/ /\ Kind(p, k) = "send" /\ k > (IF p = "server" THEN 16 ELSE 8) /\ Call(p, k) = esp_send
            /\ k % 2 = 1 <=> p = "server"
         \/ /\ Kind(p, k) = "recv" /\ k > (IF p = "server" THEN 16 ELSE 8) /\ Call(p, k) = esp_is_recv
            /\ k % 2 = 1 <=> p = "client"
<1>1. k \in Nat /\ k >= 1
  BY Sizes
<1>2. ASSUME p = "server", k <= 15 PROVE Call(p, k) = ServerSetUp[k] /\ k \in 1 .. 15
  <2>1. k \in 1 .. 15
    BY <1>1, <1>2
  <2>2. ServerMain[k] = ServerSetUp[k]
    BY <2>1, ServerCalls, Zenon
  <2>3. QED BY <1>2, <2>1, <2>2, Zenon DEF Call, esp_main
<1>3. ASSUME p = "client", k <= 8 PROVE Call(p, k) = ClientSetUp[k] /\ k \in 1 .. 8
  <2>1. k \in 1 .. 8
    BY <1>1, <1>3
  <2>2. ClientMain[k] = ClientSetUp[k]
    BY <2>1, ClientCalls, Zenon
  <2>3. "client" # "server"
    OBVIOUS
  <2>4. QED BY <1>3, <2>1, <2>2, <2>3, Zenon DEF Call, esp_main
<1>4. CASE k > Len(SetUp(p))
  <2>1. CASE p = "server" /\ k = 16
    <3>1. Call(p, k) = wait_for_conn
      BY <2>1, ServerCalls, Zenon DEF Call, esp_main
    <3>2. Kind(p, k) = "conn"
      BY <2>1 DEF Kind
    <3>3. QED BY <2>1, <3>1, <3>2
  <2>2. CASE ~(p = "server" /\ k = 16)
    <3>1. k > (IF p = "server" THEN 16 ELSE 8)
      <4>1. CASE p = "server"
        <5>1. Len(SetUp(p)) = 15
          BY <4>1, Sizes, Zenon
        <5>2. k > 15
          BY <1>4, <5>1, Zenon
        <5>3. k > 16
          BY <1>1, <2>2, <4>1, <5>2
        <5>4. QED BY <4>1, <5>3, Zenon
      <4>2. CASE p = "client"
        <5>1. Len(SetUp(p)) = 8 /\ p # "server"
          BY <4>2, Sizes
        <5>2. QED BY <1>1, <1>4, <4>2, <5>1
      <4>3. QED BY <4>1, <4>2 DEF Progs
    <3>2. QED BY <1>4, <2>2, <3>1, RoundKinds
  <2>3. QED BY <2>1, <2>2
<1>5. CASE p = "server" /\ k <= 15
  <2>1. CASE k = 1
    <3>1. Kind(p, k) = "eat"
      BY <2>1 DEF Kind
    <3>2. QED BY <1>2, <1>5, <2>1, <3>1, ServerSetUpKinds, Zenon
  <2>2. CASE k \in 2 .. 4
    <3>1. Kind(p, k) = "reset"
      BY <2>2 DEF Kind
    <3>2. QED BY <1>2, <1>5, <2>2, <3>1, ServerSetUpKinds, Zenon
  <2>3. CASE k > 4
    <3>1. Kind(p, k) = "at" /\ k \in 5 .. 15
      BY <1>1, <1>5, <2>3 DEF Kind
    <3>2. QED BY <1>2, <1>5, <2>3, <3>1, ServerSetUpKinds, Zenon
  <2>4. QED BY <1>1, <2>1, <2>2, <2>3
<1>6. CASE p = "client" /\ k <= 8
  <2>1. CASE k = 1
    <3>1. k \in 1 .. 7 /\ Kind(p, k) = "eat"
      BY <2>1 DEF Kind
    <3>2. QED BY <1>3, <1>6, <2>1, <3>1, ClientSetUpKinds, Zenon
  <2>2. CASE k \in 2 .. 4
    <3>1. Kind(p, k) = "reset" /\ k \in 1 .. 7
      BY <2>2 DEF Kind
    <3>2. QED BY <1>3, <1>6, <2>2, <3>1, ClientSetUpKinds, Zenon
  <2>3. CASE k > 4 /\ k <= 7
    <3>1. Kind(p, k) = "at" /\ k \in 5 .. 7 /\ k \in 1 .. 7
      BY <1>1, <1>6, <2>3 DEF Kind
    <3>2. "client" # "server"
      OBVIOUS
    <3>3. QED BY <1>3, <1>6, <2>3, <3>1, <3>2, ClientSetUpKinds, Zenon
  <2>4. CASE k = 8
    <3>1. Kind(p, k) = "link"
      BY <1>6, <2>4 DEF Kind
    <3>2. QED BY <1>3, <1>6, <2>4, <3>1, ClientSetUpCalls, Zenon
  <2>5. QED BY <1>1, <1>6, <2>1, <2>2, <2>3, <2>4
<1>7. k > Len(SetUp(p)) \/ (p = "server" /\ k <= 15) \/ (p = "client" /\ k <= 8)
  <2>1. (p = "server" => Len(SetUp(p)) = 15) /\ (p = "client" => Len(SetUp(p)) = 8)
    BY Sizes, Zenon
  <2>2. (k > 15 \/ k <= 15) /\ (k > 8 \/ k <= 8) /\ (p = "server" \/ p = "client")
    BY <1>1 DEF Progs
  <2>3. QED BY <2>1, <2>2, Zenon
<1>8. QED BY <1>4, <1>5, <1>6, <1>7, Zenon

\* The operations of a call, by its kind.
ResetOf(S, c) ==
  /\ Len(S) = 4 /\ DOMAIN S = 1 .. 4 /\ S[1] = <<"puts", c, TRUE>> /\ S[2] = <<"ack", c, TRUE>>
  /\ S[3] = <<"expect", "OK", TRUE>> /\ S[4] = <<"ready", "ready", TRUE>>
AtOf(S, c, x) ==
  /\ Len(S) = 3 /\ DOMAIN S = 1 .. 3 /\ S[1] = <<"puts", c, x>> /\ S[2] = <<"ack", c, x>>
  /\ S[3] = <<"expect", "OK", x>>
LinkOf(S) ==
  /\ Len(S) = 4 /\ DOMAIN S = 1 .. 4
  /\ S[1] = <<"puts", "AT+CIPSTART", FALSE>> /\ S[2] = <<"ack", "AT+CIPSTART", FALSE>>
  /\ S[3] = <<"expect", "CONNECT", FALSE>> /\ S[4] = <<"expect", "OK", FALSE>>
SendOf(S) ==
  /\ Len(S) = 7 /\ DOMAIN S = 1 .. 7
  /\ S[1] = <<"puts", "AT+CIPSEND", FALSE>> /\ S[2] = <<"ack", "AT+CIPSEND", FALSE>>
  /\ S[3] = <<"expect", "OK", FALSE>> /\ S[4] = <<"prompt", ">", FALSE>>
  /\ S[5] = <<"data", "bytes", FALSE>> /\ S[6] = <<"expect", "Recv", FALSE>>
  /\ S[7] = <<"expect", "SENT", FALSE>>
SingleOf(S, kind) ==
  /\ Len(S) = 1 /\ DOMAIN S = 1 .. 1
  /\ kind = "eat" => S[1] = <<"eat", "all", TRUE>>
  /\ kind = "conn" => S[1] = <<"conn", "CONNECT", TRUE>>
  /\ kind = "recv" => S[1] = <<"recv", "+IPD", FALSE>>

LEMMA ResetCall ==
  ASSUME NEW p \in Progs, NEW k \in 1 .. Len(esp_main(p)), Kind(p, k) = "reset"
  PROVE  k \in 2 .. 4 /\ Cmd(p, k) \in {"AT+RST", "AT+RESTORE"} /\ ResetOf(Call(p, k), Cmd(p, k))
<1>1. k \in 2 .. 4 /\ \E s \in {"AT+RST", "AT+RESTORE"} : Call(p, k) = Reset(s)
  BY Kinds
<1>2. PICK s \in {"AT+RST", "AT+RESTORE"} : Call(p, k) = Reset(s)
  BY <1>1
<1>3. Cmd(p, k) = s
  <2>1. Cmd(p, k) = <<"puts", s, TRUE>>[2]
    BY <1>2, ResetOps, Zenon DEF Cmd, Call
  <2>2. QED BY <2>1
<1>4. QED BY <1>1, <1>2, <1>3, ResetOps, Zenon DEF ResetOf

LEMMA AtCall ==
  ASSUME NEW p \in Progs, NEW k \in 1 .. Len(esp_main(p)), Kind(p, k) = "at"
  PROVE  /\ k \in 5 .. (IF p = "server" THEN 15 ELSE 7) /\ Cmd(p, k) \in SetUpCmds /\ Extra(p, k) \in BOOLEAN
         /\ AtOf(Call(p, k), Cmd(p, k), Extra(p, k))
         /\ Cmd(p, k) \in Talkative => Extra(p, k)
         /\ (p = "server" /\ k > 10) => Extra(p, k)
         /\ Cmd(p, k) = "AT+CIPSERVER" <=> (p = "server" /\ k = 10)
<1>1. /\ k \in 5 .. (IF p = "server" THEN 15 ELSE 7)
      /\ \E s \in SetUpCmds, x \in BOOLEAN :
           /\ Call(p, k) = At(s, x) /\ (s \in Talkative => x)
           /\ (p = "server" /\ k > 10) => x
           /\ s = "AT+CIPSERVER" <=> (p = "server" /\ k = 10)
  BY Kinds
<1>2. PICK s \in SetUpCmds, x \in BOOLEAN :
           /\ Call(p, k) = At(s, x) /\ (s \in Talkative => x)
           /\ (p = "server" /\ k > 10) => x
           /\ s = "AT+CIPSERVER" <=> (p = "server" /\ k = 10)
  BY <1>1, Zenon
<1>3. Cmd(p, k) = s /\ Extra(p, k) = x
  <2>1. Call(p, k)[1] = <<"puts", s, x>>
    BY <1>2, AtOps, Zenon
  <2>2. ASSUME NEW y PROVE <<"puts", s, y>>[2] = s /\ <<"puts", s, y>>[3] = y
    OBVIOUS
  <2>3. QED BY <2>1, <2>2, Zenon DEF Cmd, Extra, Call
<1>4. AtOf(Call(p, k), Cmd(p, k), Extra(p, k))
  <2>1. AtOf(At(s, x), s, x)
    BY AtOps, Zenon DEF AtOf
  <2>2. QED BY <1>2, <1>3, <2>1, Zenon
<1>5. QED BY <1>1, <1>2, <1>3, <1>4

LEMMA LinkCall ==
  ASSUME NEW p \in Progs, NEW k \in 1 .. Len(esp_main(p)), Kind(p, k) = "link"
  PROVE  p = "client" /\ k = 8 /\ Cmd(p, k) = "AT+CIPSTART" /\ LinkOf(Call(p, k))
<1>1. p = "client" /\ k = 8 /\ Call(p, k) = issue_tcp_connect
  BY Kinds
<1>2. <<"puts", "AT+CIPSTART", FALSE>>[2] = "AT+CIPSTART"
  OBVIOUS
<1>3. QED BY <1>1, <1>2, LinkOps, Zenon DEF Cmd, Call, LinkOf

LEMMA SendCall ==
  ASSUME NEW p \in Progs, NEW k \in 1 .. Len(esp_main(p)), Kind(p, k) = "send"
  PROVE  k > (IF p = "server" THEN 16 ELSE 8) /\ Cmd(p, k) = "AT+CIPSEND" /\ SendOf(Call(p, k))
<1>1. k > (IF p = "server" THEN 16 ELSE 8) /\ Call(p, k) = esp_send
  BY Kinds
<1>2. <<"puts", "AT+CIPSEND", FALSE>>[2] = "AT+CIPSEND"
  OBVIOUS
<1>3. QED BY <1>1, <1>2, SendOps, Zenon DEF Cmd, Call, SendOf

LEMMA OtherCalls ==
  ASSUME NEW p \in Progs, NEW k \in 1 .. Len(esp_main(p)), Kind(p, k) \notin Commanding
  PROVE  Kind(p, k) \in {"eat", "conn", "recv"} /\ SingleOf(Call(p, k), Kind(p, k))
<1>1. \/ Kind(p, k) = "eat" /\ Call(p, k) = Eats
      \/ Kind(p, k) = "conn" /\ Call(p, k) = wait_for_conn
      \/ Kind(p, k) = "recv" /\ Call(p, k) = esp_is_recv
  BY Kinds DEF Commanding
<1>2. "eat" # "conn" /\ "eat" # "recv" /\ "conn" # "recv"
  OBVIOUS
<1>3. QED BY <1>1, <1>2, SingleOps, Zenon DEF SingleOf
-----------------------------------------------------------------------------
(* The matchers.                                                           *)

\* Every nonempty set of naturals has a least element.
LEMMA NatLeast ==
  ASSUME NEW T \in SUBSET Nat, T # {}
  PROVE  \E m \in T : \A n \in T : m <= n
<1> DEFINE Up == {0 .. m : m \in T}
<1>1. Up \subseteq FiniteSubsetsOf(Nat) /\ Up # {}
  <2>1. \A m \in T : 0 .. m \subseteq Nat /\ IsFiniteSet(0 .. m)
    BY FS_Interval
  <2> QED BY <2>1 DEF FiniteSubsetsOf
<1>2. PICK U \in Up : \A V \in Up : ~ (<<V, U>> \in StrictSubsetOrdering(Nat))
  BY <1>1, FS_StrictSubsetOrderingWellFounded, WFMin
<1>3. PICK m \in T : U = 0 .. m
  OBVIOUS
<1>4. \A n \in T : m <= n
  <2> TAKE n \in T
  <2>1. <<0 .. n, 0 .. m>> \notin StrictSubsetOrdering(Nat)
    BY <1>2, <1>3
  <2>2. ~ (0 .. n \subseteq 0 .. m /\ 0 .. n # 0 .. m)
    BY <2>1 DEF StrictSubsetOrdering
  <2>3. n < m => (0 .. n \subseteq 0 .. m /\ m \in 0 .. m /\ m \notin 0 .. n)
    OBVIOUS
  <2> QED BY <2>2, <2>3
<1> QED BY <1>4

FirstAt(s, q) == q \in 1 .. Len(s) /\ s[q] # "eol" /\ \A k \in 1 .. q - 1 : s[k] = "eol"
EolAt(s, q)   == q \in 1 .. Len(s) /\ s[q] = "eol" /\ \A k \in 1 .. q - 1 : s[k] # "eol"
Dropped(s, d, t) == Len(t) = Len(s) - d /\ \A k \in 1 .. Len(t) : t[k] = s[k + d]

\* The rest of a sequence.
LEMMA Rest ==
  ASSUME NEW S, NEW s \in Seq(S), NEW q \in 1 .. Len(s)
  PROVE  /\ SubSeq(s, q, Len(s)) \in Seq(S) /\ Len(s) \in Nat
         /\ Len(SubSeq(s, q, Len(s))) = Len(s) - q + 1
         /\ \A i \in 1 .. Len(s) - q + 1 : SubSeq(s, q, Len(s))[i] = s[q + i - 1]
<1>1. Len(s) \in Nat /\ \A i \in q .. Len(s) : s[i] \in S
  BY LenProperties, ElementOfSeq
<1>2. QED BY <1>1, SubSeqProperties

LEMMA BodyIs ==
  ASSUME NEW S, NEW s \in Seq(S), NEW q, FirstAt(s, q)
  PROVE  Body(s) = SubSeq(s, q, Len(s))
<1> DEFINE I == {i \in 1 .. Len(s) : s[i] # "eol"}
<1>1. q \in I /\ \A i \in I : q <= i
  BY LenProperties DEF FirstAt
<1>2. Min(I) = q
  <2>1. \A i \in I : i \in Nat
    BY LenProperties
  <2>2. \A i \in I : (\A j \in I : i <= j) => i = q
    BY <1>1, <2>1
  <2>3. QED BY <1>1, <2>2 DEF Min
<1>3. SelectInSeq(s, NotEol) = q /\ q # 0
  BY <1>1, <1>2 DEF SelectInSeq, NotEol
<1>4. QED BY <1>3 DEF Body

LEMMA BodyOr ==
  ASSUME NEW S, NEW s \in Seq(S)
  PROVE  \/ Body(s) = <<>> /\ \A k \in 1 .. Len(s) : s[k] = "eol"
         \/ \E q \in 1 .. Len(s) : FirstAt(s, q)
<1> DEFINE I == {i \in 1 .. Len(s) : s[i] # "eol"}
<1>1. CASE I = {}
  <2>1. SelectInSeq(s, NotEol) = 0
    BY <1>1 DEF SelectInSeq, NotEol
  <2>2. QED BY <1>1, <2>1 DEF Body
<1>2. CASE I # {}
  <2>1. I \in SUBSET Nat
    BY LenProperties
  <2>2. PICK q \in I : \A i \in I : q <= i
    BY <1>2, <2>1, NatLeast
  <2>3. \A k \in 1 .. q - 1 : k \in 1 .. Len(s) /\ ~(q <= k)
    BY <2>2, LenProperties
  <2>4. FirstAt(s, q)
    BY <2>2, <2>3 DEF FirstAt
  <2>5. QED BY <2>4
<1>3. QED BY <1>1, <1>2

LEMMA LineEndIs ==
  ASSUME NEW S, NEW s \in Seq(S), NEW q, EolAt(s, q)
  PROVE  LineEnd(s) = q
<1> DEFINE I == {i \in 1 .. Len(s) : s[i] = "eol"}
<1>1. q \in I /\ \A i \in I : q <= i
  BY LenProperties DEF EolAt
<1>2. Min(I) = q
  <2>1. \A i \in I : i \in Nat
    BY LenProperties
  <2>2. \A i \in I : (\A j \in I : i <= j) => i = q
    BY <1>1, <2>1
  <2>3. QED BY <1>1, <2>2 DEF Min
<1>3. QED BY <1>1, <1>2 DEF SelectInSeq, IsEol, LineEnd

LEMMA LineEndOr ==
  ASSUME NEW S, NEW s \in Seq(S)
  PROVE  \/ LineEnd(s) = 0 /\ \A k \in 1 .. Len(s) : s[k] # "eol"
         \/ \E q \in 1 .. Len(s) : EolAt(s, q) /\ LineEnd(s) = q
<1> DEFINE I == {i \in 1 .. Len(s) : s[i] = "eol"}
<1>1. CASE I = {}
  BY <1>1 DEF SelectInSeq, IsEol, LineEnd
<1>2. CASE I # {}
  <2>1. I \in SUBSET Nat
    BY LenProperties
  <2>2. PICK q \in I : \A i \in I : q <= i
    BY <1>2, <2>1, NatLeast
  <2>3. \A k \in 1 .. q - 1 : k \in 1 .. Len(s) /\ ~(q <= k)
    BY <2>2, LenProperties
  <2>4. EolAt(s, q)
    BY <2>2, <2>3 DEF EolAt
  <2>5. QED BY <2>4, LineEndIs
<1>3. QED BY <1>1, <1>2

\* What is taken from the front of the buffer is taken from the front of the input.
LEMMA DropJoined ==
  ASSUME NEW S, NEW s \in Seq(S), NEW w \in Seq(S), NEW t \in Seq(S), NEW d \in 0 .. Len(s),
         Dropped(s, d, t)
  PROVE  Dropped(s \o w, d, t \o w)
<1>1. /\ Len(s \o w) = Len(s) + Len(w) /\ Len(s) \in Nat /\ Len(w) \in Nat
      /\ \A i \in 1 .. Len(s) : (s \o w)[i] = s[i]
      /\ \A i \in 1 .. Len(w) : (s \o w)[Len(s) + i] = w[i]
  BY Joined
<1>2. /\ Len(t \o w) = Len(t) + Len(w) /\ Len(t) \in Nat
      /\ \A i \in 1 .. Len(t) : (t \o w)[i] = t[i]
      /\ \A i \in 1 .. Len(w) : (t \o w)[Len(t) + i] = w[i]
  BY Joined
<1> DEFINE u == s \o w
           v == t \o w
<1> HIDE DEF u, v
<1>3. Len(v) = Len(u) - d
  BY <1>1, <1>2 DEF Dropped, u, v
<1>4. ASSUME NEW k \in 1 .. Len(v) PROVE v[k] = u[k + d]
  <2>1. CASE k <= Len(t)
    BY <1>1, <1>2, <2>1 DEF Dropped, u, v
  <2>2. CASE k > Len(t)
    <3>1. k - Len(t) \in 1 .. Len(w) /\ Len(t) + (k - Len(t)) = k /\ Len(s) + (k - Len(t)) = k + d
      BY <1>1, <1>2, <2>2 DEF Dropped, v
    <3>2. QED BY <1>1, <1>2, <3>1 DEF u, v
  <2>3. QED BY <1>2, <2>1, <2>2 DEF v
<1>5. QED BY <1>3, <1>4 DEF Dropped, u, v

\* A line and its end are taken, and the ends of lines after it that have come.
LEMMA TakeLine ==
  ASSUME NEW S, NEW s \in Seq(S), LineEnd(Body(s)) > 0
  PROVE  \E q \in 1 .. Len(s) - 1 :
           /\ FirstAt(s, q) /\ Body(s)[1] = s[q]
           /\ s[q + 1] = "eol" => \E d \in q + 1 .. Len(s) :
                /\ \A k \in q + 1 .. d : s[k] = "eol"
                /\ AfterLine(Body(s)) \in Seq(S) /\ Dropped(s, d, AfterLine(Body(s)))
<1>1. PICK q \in 1 .. Len(s) : FirstAt(s, q)
  <2>1. ASSUME Body(s) = <<>> PROVE FALSE
    <3>1. <<>> \in Seq(S) /\ 1 .. Len(<<>>) = {}
      OBVIOUS
    <3>2. LineEnd(<<>>) = 0
      BY <3>1, LineEndOr
    <3>3. QED BY <2>1, <3>2
  <2>2. QED BY <2>1, BodyOr
<1> DEFINE b == SubSeq(s, q, Len(s))
<1>2. Body(s) = b
  BY <1>1, BodyIs
<1>3. /\ b \in Seq(S) /\ Len(s) \in Nat /\ Len(b) = Len(s) - q + 1
      /\ \A i \in 1 .. Len(s) - q + 1 : b[i] = s[q + i - 1]
  BY <1>1, Rest
<1> HIDE DEF b
<1>4. b[1] = s[q] /\ b[1] # "eol"
  BY <1>1, <1>3 DEF FirstAt
<1>5. Len(b) >= 2
  <2>1. PICK e \in 1 .. Len(b) : EolAt(b, e)
    BY <1>2, <1>3, LineEndOr
  <2>2. e # 1
    BY <1>4, <2>1 DEF EolAt
  <2>3. QED BY <1>1, <1>3, <2>2
<1>6. q \in 1 .. Len(s) - 1
  BY <1>1, <1>3, <1>5
<1>7. ASSUME s[q + 1] = "eol"
      PROVE  \E d \in q + 1 .. Len(s) :
                /\ \A k \in q + 1 .. d : s[k] = "eol"
                /\ AfterLine(b) \in Seq(S) /\ Dropped(s, d, AfterLine(b))
  <2>1. EolAt(b, 2)
    <3>1. b[2] = s[q + 1] /\ 2 \in 1 .. Len(b)
      BY <1>1, <1>3, <1>5
    <3>2. QED BY <1>4, <1>7, <3>1 DEF EolAt
  <2>2. LineEnd(b) = 2
    BY <1>3, <2>1, LineEndIs
  <2> DEFINE c == SubSeq(b, 2, Len(b))
  <2>3. /\ c \in Seq(S) /\ Len(c) = Len(b) - 2 + 1
        /\ \A i \in 1 .. Len(b) - 2 + 1 : c[i] = b[2 + i - 1]
    BY <1>1, <1>3, <1>5, Rest
  <2>4. AfterLine(b) = Body(c)
    BY <2>2 DEF AfterLine
  <2> HIDE DEF c
  <2>9. c \in Seq(S)
    BY <2>3, Zenon
  <2>5. Len(c) = Len(s) - q /\ \A i \in 1 .. Len(s) - q : c[i] = s[q + i]
    <3>1. Len(c) = Len(s) - q
      BY <1>1, <1>3, <2>3
    <3>2. ASSUME NEW i \in 1 .. Len(s) - q PROVE c[i] = s[q + i]
      <4>1. i \in 1 .. Len(b) - 2 + 1 /\ 2 + i - 1 = i + 1 /\ i + 1 \in 1 .. Len(s) - q + 1 /\ q + (i + 1) - 1 = q + i
        BY <1>1, <1>3
      <4>2. c[i] = b[i + 1]
        BY <2>3, <4>1
      <4>3. b[i + 1] = s[q + i]
        BY <1>3, <4>1
      <4>4. QED BY <4>2, <4>3
    <3>3. QED BY <3>1, <3>2
  <2>6. CASE Body(c) = <<>> /\ \A k \in 1 .. Len(c) : c[k] = "eol"
    <3>1. \A k \in q + 1 .. Len(s) : s[k] = "eol"
      <4>1. ASSUME NEW k \in q + 1 .. Len(s) PROVE s[k] = "eol"
        <5>1. k - q \in 1 .. Len(s) - q /\ q + (k - q) = k
          BY <1>1, <1>3
        <5>2. QED BY <2>5, <2>6, <5>1
      <4>2. QED BY <4>1
    <3>2. <<>> \in Seq(S) /\ Dropped(s, Len(s), <<>>)
      BY <1>3 DEF Dropped
    <3>3. Len(s) \in q + 1 .. Len(s)
      BY <1>3, <1>6
    <3>4. QED BY <2>4, <2>6, <3>1, <3>2, <3>3
  <2>7. ASSUME NEW h \in 1 .. Len(c), FirstAt(c, h)
        PROVE  \E d \in q + 1 .. Len(s) :
                /\ \A k \in q + 1 .. d : s[k] = "eol"
                /\ AfterLine(b) \in Seq(S) /\ Dropped(s, d, AfterLine(b))
    <3> DEFINE t == SubSeq(c, h, Len(c))
    <3>1. AfterLine(b) = t
      BY <2>3, <2>4, <2>7, BodyIs
    <3>2. /\ t \in Seq(S) /\ Len(t) = Len(c) - h + 1
          /\ \A i \in 1 .. Len(c) - h + 1 : t[i] = c[h + i - 1]
      BY <2>7, <2>9, Rest
    <3> HIDE DEF t
    <3>3. h # 1
      <4>1. c[1] = s[q + 1]
        BY <1>3, <1>6, <2>5
      <4>2. QED BY <1>7, <2>7, <4>1 DEF FirstAt
    <3>4. q + h - 1 \in q + 1 .. Len(s) /\ h \in Nat
      BY <1>1, <1>3, <2>5, <2>7, <3>3
    <3>5. ASSUME NEW k \in q + 1 .. q + h - 1 PROVE s[k] = "eol"
      <4>1. k - q \in 1 .. Len(s) - q /\ q + (k - q) = k /\ k - q \in 1 .. h - 1
        BY <1>1, <1>3, <3>4
      <4>2. QED BY <2>5, <2>7, <4>1 DEF FirstAt
    <3>6. Dropped(s, q + h - 1, t)
      <4>1. Len(t) = Len(s) - (q + h - 1)
        BY <1>1, <1>3, <2>5, <3>2, <3>4
      <4>2. ASSUME NEW i \in 1 .. Len(t) PROVE t[i] = s[i + (q + h - 1)]
        <5>1. i \in 1 .. Len(c) - h + 1 /\ h + i - 1 \in 1 .. Len(s) - q /\ q + (h + i - 1) = i + (q + h - 1)
          BY <1>1, <1>3, <2>5, <3>2, <3>4
        <5>2. t[i] = c[h + i - 1]
          BY <3>2, <5>1
        <5>3. c[h + i - 1] = s[q + (h + i - 1)]
          BY <2>5, <5>1
        <5>4. QED BY <5>1, <5>2, <5>3
      <4>3. QED BY <4>1, <4>2 DEF Dropped
    <3>7. QED BY <3>1, <3>2, <3>4, <3>5, <3>6
  <2>8. QED BY <2>3, <2>6, <2>7, BodyOr
<1>8. QED BY <1>1, <1>2, <1>4, <1>6, <1>7

TookLine(S, b, w, I) ==
  \E q \in 1 .. Len(I) - 1 :
    /\ FirstAt(I, q) /\ b[1] = I[q]
    /\ I[q + 1] = "eol" => \E d \in q + 1 .. Len(I) :
         /\ \A k \in q + 1 .. d : I[k] = "eol"
         /\ AfterLine(b) \in Seq(S) /\ Dropped(I, d, AfterLine(b) \o w)

\* The same of the input, what has been read in and what has not.
LEMMA LineTaken ==
  ASSUME NEW S, NEW s \in Seq(S), NEW w \in Seq(S), NEW I, I = s \o w, LineEnd(Body(s)) > 0
  PROVE  TookLine(S, Body(s), w, I)
<1>1. PICK q \in 1 .. Len(s) - 1 :
           /\ FirstAt(s, q) /\ Body(s)[1] = s[q]
           /\ s[q + 1] = "eol" => \E d \in q + 1 .. Len(s) :
                /\ \A k \in q + 1 .. d : s[k] = "eol"
                /\ AfterLine(Body(s)) \in Seq(S) /\ Dropped(s, d, AfterLine(Body(s)))
  BY TakeLine
<1>2. /\ Len(I) = Len(s) + Len(w) /\ Len(s) \in Nat /\ Len(w) \in Nat
      /\ \A i \in 1 .. Len(s) : I[i] = s[i]
  BY Joined
<1>3. q \in 1 .. Len(I) - 1 /\ q \in 1 .. Len(s) /\ q + 1 \in 1 .. Len(s)
  BY <1>1, <1>2
<1>4. FirstAt(I, q) /\ Body(s)[1] = I[q]
  BY <1>1, <1>2, <1>3 DEF FirstAt
<1>5. ASSUME I[q + 1] = "eol"
      PROVE  \E d \in q + 1 .. Len(I) :
                /\ \A k \in q + 1 .. d : I[k] = "eol"
                /\ AfterLine(Body(s)) \in Seq(S) /\ Dropped(I, d, AfterLine(Body(s)) \o w)
  <2>1. s[q + 1] = "eol"
    BY <1>2, <1>3, <1>5
  <2>2. PICK d \in q + 1 .. Len(s) :
                /\ \A k \in q + 1 .. d : s[k] = "eol"
                /\ AfterLine(Body(s)) \in Seq(S) /\ Dropped(s, d, AfterLine(Body(s)))
    BY <1>1, <2>1
  <2>3. Dropped(I, d, AfterLine(Body(s)) \o w)
    <3>1. d \in 0 .. Len(s)
      BY <1>2, <1>3, <2>2
    <3>2. QED BY <2>2, <3>1, DropJoined
  <2>4. d \in q + 1 .. Len(I) /\ \A k \in q + 1 .. d : I[k] = "eol"
    BY <1>2, <1>3, <2>2
  <2>5. QED BY <2>2, <2>3, <2>4
<1>6. QED BY <1>3, <1>4, <1>5, Zenon DEF TookLine

TookPrompt(S, s, b, w, I) ==
  \E q \in 1 .. Len(s) :
    /\ FirstAt(I, q) /\ b[1] = I[q] /\ b \in Seq(S) /\ Len(b) = Len(s) - q + 1
    /\ \A i \in 1 .. Len(s) - q + 1 : b[i] = I[q + i - 1]
    /\ Tail(b) \in Seq(S) /\ Dropped(I, q, Tail(b) \o w)

\* The prompt is taken, and what came before it.
LEMMA PromptTaken ==
  ASSUME NEW S, NEW s \in Seq(S), NEW w \in Seq(S), NEW I, I = s \o w, Body(s) # <<>>
  PROVE  TookPrompt(S, s, Body(s), w, I)
<1>1. PICK q \in 1 .. Len(s) : FirstAt(s, q)
  BY BodyOr
<1> DEFINE b == SubSeq(s, q, Len(s))
<1>2. Body(s) = b
  BY <1>1, BodyIs
<1>3. /\ b \in Seq(S) /\ Len(s) \in Nat /\ Len(b) = Len(s) - q + 1
      /\ \A i \in 1 .. Len(s) - q + 1 : b[i] = s[q + i - 1]
  BY <1>1, Rest
<1> HIDE DEF b
<1>4. /\ Len(I) = Len(s) + Len(w) /\ Len(s) \in Nat /\ Len(w) \in Nat
      /\ \A i \in 1 .. Len(s) : I[i] = s[i]
  BY Joined
<1>5. FirstAt(I, q) /\ \A i \in 1 .. Len(s) - q + 1 : b[i] = I[q + i - 1]
  <2>1. FirstAt(I, q)
    BY <1>1, <1>4 DEF FirstAt
  <2>2. ASSUME NEW i \in 1 .. Len(s) - q + 1 PROVE b[i] = I[q + i - 1]
    <3>1. q + i - 1 \in 1 .. Len(s)
      BY <1>1, <1>4
    <3>2. QED BY <1>3, <1>4, <3>1
  <2>3. QED BY <2>1, <2>2
<1>6. b[1] = I[q]
  BY <1>1, <1>3, <1>4
<1>7. Tail(b) \in Seq(S) /\ Dropped(s, q, Tail(b))
  <2>1. b # <<>>
    BY <1>1, <1>3
  <2>2. Tail(b) \in Seq(S) /\ Len(Tail(b)) = Len(b) - 1 /\ \A i \in 1 .. Len(Tail(b)) : Tail(b)[i] = b[i + 1]
    BY <1>3, <2>1, HeadTailProperties
  <2>3. ASSUME NEW i \in 1 .. Len(Tail(b)) PROVE Tail(b)[i] = s[i + q]
    <3>1. i + 1 \in 1 .. Len(s) - q + 1 /\ q + (i + 1) - 1 = i + q
      BY <1>1, <1>3, <2>2
    <3>2. QED BY <1>3, <2>2, <3>1
  <2>4. Len(Tail(b)) = Len(s) - q
    BY <1>1, <1>3, <2>2
  <2>5. QED BY <2>2, <2>3, <2>4 DEF Dropped
<1>8. Dropped(I, q, Tail(b) \o w)
  <2>1. q \in 0 .. Len(s)
    BY <1>1
  <2>2. QED BY <1>7, <2>1, DropJoined
<1>9. QED BY <1>1, <1>2, <1>3, <1>5, <1>6, <1>7, <1>8, Zenon DEF TookPrompt

TookMessage(S, b, w, I, n) ==
  \E q \in 1 .. Len(I) - n :
    /\ FirstAt(I, q) /\ b[1] = I[q]
    /\ SubSeq(b, 2, n + 1) \in Seq(S) /\ Len(SubSeq(b, 2, n + 1)) = n
    /\ \A k \in 1 .. n : SubSeq(b, 2, n + 1)[k] = I[q + k]
    /\ SubSeq(b, n + 2, Len(b)) \in Seq(S)
    /\ Dropped(I, q + n, SubSeq(b, n + 2, Len(b)) \o w)

\* The head of a message and its n bytes are taken.
LEMMA MessageTaken ==
  ASSUME NEW S, NEW s \in Seq(S), NEW w \in Seq(S), NEW I, I = s \o w, NEW n \in Nat,
         Len(Body(s)) > n
  PROVE  TookMessage(S, Body(s), w, I, n)
<1>1. Body(s) # <<>>
  BY BodyOr
<1>2. PICK q \in 1 .. Len(s) :
           /\ FirstAt(I, q) /\ Body(s)[1] = I[q] /\ Body(s) \in Seq(S) /\ Len(Body(s)) = Len(s) - q + 1
           /\ \A i \in 1 .. Len(s) - q + 1 : Body(s)[i] = I[q + i - 1]
  <2>1. TookPrompt(S, s, Body(s), w, I)
    BY <1>1, PromptTaken
  <2>2. QED BY <2>1, Zenon DEF TookPrompt
<1> DEFINE b == Body(s)
           t == SubSeq(b, n + 2, Len(b))
           u == SubSeq(b, 2, n + 1)
<1>3. b \in Seq(S) /\ Len(b) > n /\ Len(b) = Len(s) - q + 1 /\ Len(s) \in Nat /\ b[1] = I[q]
      /\ \A i \in 1 .. Len(s) - q + 1 : b[i] = I[q + i - 1]
  BY <1>2, LenProperties
<1> HIDE DEF b
<1>4. /\ Len(I) = Len(s) + Len(w) /\ Len(s) \in Nat /\ Len(w) \in Nat
      /\ \A i \in 1 .. Len(s) : I[i] = s[i]
  BY Joined
<1>5. q \in 1 .. Len(I) - n /\ q + n \in 0 .. Len(s)
  BY <1>3, <1>4
<1>6. u \in Seq(S) /\ Len(u) = n /\ \A k \in 1 .. n : u[k] = I[q + k]
  <2>1. \A i \in 2 .. n + 1 : b[i] \in S
    BY <1>3, ElementOfSeq
  <2>2. u \in Seq(S) /\ Len(u) = (IF 2 <= n + 1 THEN (n + 1) - 2 + 1 ELSE 0) /\ \A i \in 1 .. (n + 1) - 2 + 1 : u[i] = b[2 + i - 1]
    BY <2>1, SubSeqProperties
  <2>3. Len(u) = n
    <3>1. (2 <= n + 1 => (n + 1) - 2 + 1 = n) /\ (~(2 <= n + 1) => 0 = n)
      OBVIOUS
    <3>2. QED BY <2>2, <3>1, Zenon
  <2>4. ASSUME NEW k \in 1 .. n PROVE u[k] = I[q + k]
    <3>1. k \in 1 .. (n + 1) - 2 + 1 /\ 2 + k - 1 = k + 1 /\ k + 1 \in 1 .. Len(s) - q + 1 /\ q + (k + 1) - 1 = q + k
      BY <1>3
    <3>2. QED BY <1>3, <2>2, <3>1
  <2>5. QED BY <2>2, <2>3, <2>4
<1>7. t \in Seq(S) /\ Len(t) = Len(b) - n - 1 /\ \A k \in 1 .. Len(t) : t[k] = b[n + 1 + k]
  <2>1. \A i \in n + 2 .. Len(b) : b[i] \in S
    BY <1>3, ElementOfSeq
  <2>2. /\ t \in Seq(S) /\ Len(t) = (IF n + 2 <= Len(b) THEN Len(b) - (n + 2) + 1 ELSE 0)
        /\ \A i \in 1 .. Len(b) - (n + 2) + 1 : t[i] = b[n + 2 + i - 1]
    <3>1. n + 2 \in Int /\ Len(b) \in Int
      BY <1>3
    <3>2. QED BY <2>1, <3>1, SubSeqProperties
  <2>3. Len(t) = Len(b) - n - 1
    <3>1. Len(b) \in Nat /\ Len(b) > n
      BY <1>3, LenProperties
    <3>2. /\ n + 2 <= Len(b) => Len(b) - (n + 2) + 1 = Len(b) - n - 1
          /\ ~(n + 2 <= Len(b)) => 0 = Len(b) - n - 1
      BY <3>1
    <3>3. QED BY <2>2, <3>2, Zenon
  <2>4. ASSUME NEW k \in 1 .. Len(t) PROVE t[k] = b[n + 1 + k]
    <3>1. k \in 1 .. Len(b) - (n + 2) + 1 /\ n + 2 + k - 1 = n + 1 + k
      BY <1>3, <2>3
    <3>2. QED BY <2>2, <3>1
  <2>5. QED BY <2>2, <2>3, <2>4
<1> HIDE DEF t, u
<1>8. Dropped(s, q + n, t)
  <2>1. Len(t) = Len(s) - (q + n)
    BY <1>3, <1>7
  <2>2. ASSUME NEW k \in 1 .. Len(t) PROVE t[k] = s[k + (q + n)]
    <3>1. n + 1 + k \in 1 .. Len(s) - q + 1 /\ q + (n + 1 + k) - 1 = k + (q + n) /\ k + (q + n) \in 1 .. Len(s)
      BY <1>3, <1>7
    <3>2. QED BY <1>3, <1>4, <1>7, <3>1
  <2>3. QED BY <2>1, <2>2 DEF Dropped
<1>9. Dropped(I, q + n, t \o w)
  BY <1>5, <1>7, <1>8, DropJoined
<1>10. QED BY <1>2, <1>3, <1>5, <1>6, <1>7, <1>9, Zenon DEF TookMessage, b, t, u

Regroups(S, s, a, b) == s \o a \in Seq(S) /\ (s \o a) \o b = s \o (a \o b)

LEMMA Regroup ==
  ASSUME NEW S, NEW s \in Seq(S), NEW a \in Seq(S), NEW b \in Seq(S)
  PROVE  Regroups(S, s, a, b)
<1>1. (s \o a) \o b = s \o (a \o b)
  BY ConcatAssociative
<1>2. QED BY <1>1, ConcatProperties DEF Regroups

ReadsIn(S, s, w, t, u) == t \in Seq(S) /\ u \in Seq(S) /\ t \o u = s \o w
\* Reading in moves tokens from the wire to the buffer and changes nothing else.
LEMMA ReadIn ==
  ASSUME NEW S, NEW s \in Seq(S), NEW w \in Seq(S), NEW k \in 1 .. Len(w)
  PROVE  ReadsIn(S, s, w, s \o SubSeq(w, 1, k), SubSeq(w, k + 1, Len(w)))
<1> DEFINE a == SubSeq(w, 1, k)
           b == SubSeq(w, k + 1, Len(w))
<1>1. Len(w) \in Nat /\ \A i \in 1 .. Len(w) : w[i] \in S
  BY LenProperties, ElementOfSeq
<1>2. a \in Seq(S) /\ Len(a) = k /\ \A i \in 1 .. k : a[i] = w[i]
  <2>1. \A i \in 1 .. k : w[i] \in S
    BY <1>1
  <2>2. a \in Seq(S) /\ Len(a) = (IF 1 <= k THEN k - 1 + 1 ELSE 0) /\ \A i \in 1 .. k - 1 + 1 : a[i] = w[1 + i - 1]
    BY <2>1, SubSeqProperties
  <2>3. 1 <= k /\ k - 1 + 1 = k /\ \A i \in 1 .. k : 1 + i - 1 = i
    OBVIOUS
  <2>4. QED BY <2>2, <2>3, Zenon
<1>3. b \in Seq(S) /\ Len(b) = Len(w) - k /\ \A i \in 1 .. Len(w) - k : b[i] = w[k + i]
  <2>1. \A i \in k + 1 .. Len(w) : w[i] \in S
    BY <1>1
  <2>2. k + 1 \in Int /\ Len(w) \in Int
    BY <1>1
  <2>3. /\ b \in Seq(S) /\ Len(b) = (IF k + 1 <= Len(w) THEN Len(w) - (k + 1) + 1 ELSE 0)
        /\ \A i \in 1 .. Len(w) - (k + 1) + 1 : b[i] = w[k + 1 + i - 1]
    BY <2>1, <2>2, SubSeqProperties
  <2>4. /\ Len(w) - (k + 1) + 1 = Len(w) - k /\ (~(k + 1 <= Len(w)) => 0 = Len(w) - k)
        /\ \A i \in 1 .. Len(w) - k : k + 1 + i - 1 = k + i
    BY <1>1
  <2>5. QED BY <2>3, <2>4, Zenon
<1> HIDE DEF a, b
<1>4. a \o b = w
  <2>1. 1 \in 1 .. Len(w) + 1 /\ k \in 1 .. Len(w) /\ Len(w) \in 1 .. Len(w) /\ k \in 1 - 1 .. Len(w)
    BY <1>1
  <2>2. a \o b = SubSeq(w, 1, Len(w))
    BY <2>1, ConcatAdjacentSubSeq DEF a, b
  <2>3. QED BY <2>2, SubSeqFull
<1>5. s \o a \in Seq(S) /\ (s \o a) \o b = s \o w
  <2>1. a \in Seq(S) /\ b \in Seq(S)
    BY <1>2, <1>3
  <2>2. Regroups(S, s, a, b)
    BY <2>1, Regroup
  <2>3. QED BY <1>4, <2>2, Zenon DEF Regroups
<1>6. QED BY <1>3, <1>5, Zenon DEF ReadsIn, a, b

-----------------------------------------------------------------------------
(* The input, line by line.                                                *)

Extended(I, L, J) ==
  /\ Len(J) = Len(I) + Len(L)
  /\ \A k \in 1 .. Len(I) : J[k] = I[k]
  /\ \A k \in 1 .. Len(L) : J[Len(I) + k] = L[k]

\* What is printed extends the input.
LEMMA Appended ==
  ASSUME NEW S, NEW s \in Seq(S), NEW w \in Seq(S), NEW L \in Seq(S)
  PROVE  w \o L \in Seq(S) /\ Extended(s \o w, L, s \o (w \o L))
<1>1. s \o w \in Seq(S) /\ w \o L \in Seq(S) /\ s \o (w \o L) = (s \o w) \o L
  <2>1. s \o w \in Seq(S)
    BY ConcatProperties
  <2>2. w \o L \in Seq(S)
    BY ConcatProperties
  <2>3. (s \o w) \o L = s \o (w \o L)
    BY ConcatAssociative
  <2>4. QED BY <2>1, <2>2, <2>3
<1> DEFINE I == s \o w
<1> HIDE DEF I
<1>2. I \in Seq(S)
  BY <1>1 DEF I
<1>3. /\ Len(I \o L) = Len(I) + Len(L)
      /\ \A i \in 1 .. Len(I) : (I \o L)[i] = I[i]
      /\ \A i \in 1 .. Len(L) : (I \o L)[Len(I) + i] = L[i]
  BY <1>2, Joined
<1>4. Extended(I, L, I \o L)
  BY <1>3, Zenon DEF Extended
<1>5. QED BY <1>1, <1>4, Zenon DEF I

LEMMA LineShape ==
  ASSUME NEW S, NEW l \in S, "eol" \in S
  PROVE  Line(l) \in Seq(S) /\ Len(Line(l)) = 3 /\ Line(l)[1] = l /\ Line(l)[2] = "eol" /\ Line(l)[3] = "eol"
BY DEF Line

AddsLine(I, J, T, e, f, r, m, n, x, L) ==
  /\ e \in Nat /\ LineUp(I, e, T, f, r, m, x) /\ Len(I) = e /\ Len(T) \in Nat /\ m < Len(T) /\ n = m + 1
  /\ Len(L) = 3 /\ L[1] = T[n] /\ L[2] = "eol" /\ L[3] = "eol" /\ Extended(I, L, J)
Longer(J, T, r, n, x) == \E g : LineUp(J, Len(J), T, g, r, n, x)

\* One more line of the answer has been printed.
LEMMA AddLine ==
  ASSUME NEW I, NEW J, NEW T, NEW e, NEW f, NEW r, NEW m, NEW n, NEW x, NEW L,
         AddsLine(I, J, T, e, f, r, m, n, x, L)
  PROVE  Longer(J, T, r, n, x)
<1> /\ e \in Nat /\ LineUp(I, e, T, f, r, m, x) /\ Len(I) = e /\ Len(T) \in Nat /\ m < Len(T) /\ n = m + 1
    /\ Len(L) = 3 /\ L[1] = T[n] /\ L[2] = "eol" /\ L[3] = "eol" /\ Extended(I, L, J)
  BY Zenon DEF AddsLine
<1> DEFINE g == [f EXCEPT ![m + 1] = e + 1]
<1>1. /\ r \in Nat /\ m \in Nat /\ x \in Nat /\ r <= m /\ m + 1 <= Len(T) /\ f \in [Int -> Int]
      /\ m + 1 \in Nat
  <2>1. r \in Nat /\ m \in Nat /\ x \in Nat /\ r <= m /\ f \in [Int -> Int]
    BY Zenon DEF LineUp
  <2>2. m + 1 \in Nat /\ m + 1 <= Len(T)
    BY <2>1
  <2>3. QED BY <2>1, <2>2
<1>2. /\ g \in [Int -> Int] /\ g[m + 1] = e + 1 /\ \A i \in r + 1 .. m : g[i] = f[i]
  BY <1>1
<1> HIDE DEF g
<1>3. /\ Len(J) = e + 3 /\ (\A k \in 1 .. e : J[k] = I[k])
      /\ J[e + 1] = T[m + 1] /\ J[e + 2] = "eol" /\ J[e + 3] = "eol"
  BY DEF Extended
<1>4. \A i \in r + 1 .. m + 1 : i \in r + 1 .. m \/ i = m + 1
  BY <1>1
<1>5. ASSUME NEW i \in r + 1 .. m + 1
      PROVE  /\ g[i] \in 1 .. e + 3 /\ J[g[i]] = T[i]
             /\ T[i] # ">" => g[i] < e + 3 /\ J[g[i] + 1] = "eol"
  <2>1. CASE i \in r + 1 .. m
    <3>1. g[i] = f[i] /\ f[i] \in 1 .. e /\ I[f[i]] = T[i] /\ (T[i] # ">" => f[i] < e /\ I[f[i] + 1] = "eol")
      BY <1>2, <2>1 DEF LineUp
    <3>2. T[i] # ">" => f[i] + 1 \in 1 .. e
      BY <3>1
    <3>3. QED BY <1>3, <3>1, <3>2
  <2>2. CASE i = m + 1
    <3>1. g[i] = e + 1 /\ T[i] = T[m + 1]
      BY <1>2, <2>2
    <3>2. (e + 1) + 1 = e + 2 /\ e + 1 \in 1 .. e + 3 /\ e + 1 < e + 3
      OBVIOUS
    <3>3. QED BY <1>3, <3>1, <3>2
  <2>3. QED BY <1>4, <2>1, <2>2
<1>6. ASSUME NEW i \in r + 1 .. m + 1, NEW j \in r + 1 .. m + 1, i < j PROVE g[i] < g[j]
  <2>1. i \in r + 1 .. m /\ g[i] = f[i] /\ f[i] \in 1 .. e
    <3>1. i \in r + 1 .. m
      BY <1>1, <1>6
    <3>2. f[i] \in 1 .. e
      BY <3>1, Zenon DEF LineUp
    <3>3. QED BY <1>2, <3>1, <3>2
  <2>2. CASE j \in r + 1 .. m
    <3>1. g[j] = f[j] /\ f[i] < f[j]
      BY <1>2, <1>6, <2>1, <2>2 DEF LineUp
    <3>2. QED BY <2>1, <3>1
  <2>3. CASE j = m + 1
    <3>1. g[j] = e + 1
      BY <1>2, <2>3
    <3>2. QED BY <2>1, <3>1
  <2>4. QED BY <1>4, <2>2, <2>3
<1>7. ASSUME NEW k \in 1 .. e + 3
      PROVE  J[k] = "eol" \/ k = x \/ \E i \in r + 1 .. m + 1 : g[i] = k
  <2>1. CASE k \in 1 .. e
    <3>1. J[k] = I[k] /\ (I[k] = "eol" \/ k = x \/ \E i \in r + 1 .. m : f[i] = k)
      BY <1>3, <2>1 DEF LineUp
    <3>2. CASE \E i \in r + 1 .. m : f[i] = k
      <4>1. PICK i \in r + 1 .. m : f[i] = k
        BY <3>2
      <4>2. i \in r + 1 .. m + 1 /\ g[i] = k
        BY <1>1, <1>2, <4>1
      <4>3. QED BY <4>2
    <3>3. QED BY <3>1, <3>2
  <2>2. CASE k = e + 1
    <3>1. m + 1 \in r + 1 .. m + 1
      BY <1>1
    <3>2. QED BY <1>2, <2>2, <3>1
  <2>3. CASE k = e + 2 \/ k = e + 3
    BY <1>3, <2>3
  <2>4. QED BY <2>1, <2>2, <2>3
<1>8. ASSUME x # 0
      PROVE  /\ x \in 1 .. (e + 3) - 1 /\ J[x] = "CONNECT" /\ J[x + 1] = "eol"
             /\ \A i \in r + 1 .. m + 1 : g[i] # x
  <2>1. /\ x \in 1 .. e - 1 /\ I[x] = "CONNECT" /\ I[x + 1] = "eol"
        /\ \A i \in r + 1 .. m : f[i] # x
    BY <1>8 DEF LineUp
  <2>2. x \in 1 .. e /\ x + 1 \in 1 .. e /\ x # e + 1 /\ x \in 1 .. (e + 3) - 1
    <3>1. x \in 1 .. e - 1
      BY <2>1
    <3>2. QED BY <3>1
  <2>3. J[x] = "CONNECT" /\ J[x + 1] = "eol"
    BY <1>3, <2>1, <2>2
  <2>4. ASSUME NEW i \in r + 1 .. m + 1 PROVE g[i] # x
    BY <1>2, <1>4, <2>1, <2>2
  <2>5. QED BY <2>2, <2>3, <2>4
<1>9. LineUp(J, e + 3, T, g, r, m + 1, x)
  <2>1. e + 3 \in Nat /\ r <= m + 1
    BY <1>1
  <2>2. QED BY <1>1, <1>2, <1>5, <1>6, <1>7, <1>8, <2>1 DEF LineUp
<1>10. QED BY <1>3, <1>9, Zenon DEF Longer

AddsPrompt(I, J, T, e, f, r, m, n, x, L) ==
  /\ e \in Nat /\ LineUp(I, e, T, f, r, m, x) /\ Len(I) = e /\ Len(T) \in Nat /\ m < Len(T) /\ n = m + 1
  /\ Len(L) = 1 /\ L[1] = ">" /\ T[n] = ">" /\ Extended(I, L, J)

\* The prompt, which no end of line follows, has been printed.
LEMMA AddPrompt ==
  ASSUME NEW I, NEW J, NEW T, NEW e, NEW f, NEW r, NEW m, NEW n, NEW x, NEW L,
         AddsPrompt(I, J, T, e, f, r, m, n, x, L)
  PROVE  Longer(J, T, r, n, x)
<1> /\ e \in Nat /\ LineUp(I, e, T, f, r, m, x) /\ Len(I) = e /\ Len(T) \in Nat /\ m < Len(T) /\ n = m + 1
    /\ Len(L) = 1 /\ L[1] = ">" /\ T[n] = ">" /\ Extended(I, L, J)
  BY Zenon DEF AddsPrompt
<1> DEFINE g == [f EXCEPT ![m + 1] = e + 1]
<1>1. /\ r \in Nat /\ m \in Nat /\ x \in Nat /\ r <= m /\ m + 1 <= Len(T) /\ f \in [Int -> Int]
      /\ m + 1 \in Nat
  <2>1. r \in Nat /\ m \in Nat /\ x \in Nat /\ r <= m /\ f \in [Int -> Int]
    BY Zenon DEF LineUp
  <2>2. m + 1 \in Nat /\ m + 1 <= Len(T)
    BY <2>1
  <2>3. QED BY <2>1, <2>2
<1>2. /\ g \in [Int -> Int] /\ g[m + 1] = e + 1 /\ \A i \in r + 1 .. m : g[i] = f[i]
  BY <1>1
<1> HIDE DEF g
<1>3. Len(J) = e + 1 /\ (\A k \in 1 .. e : J[k] = I[k]) /\ J[e + 1] = ">"
  BY DEF Extended
<1>4. \A i \in r + 1 .. m + 1 : i \in r + 1 .. m \/ i = m + 1
  BY <1>1
<1>5. ASSUME NEW i \in r + 1 .. m + 1
      PROVE  /\ g[i] \in 1 .. e + 1 /\ J[g[i]] = T[i]
             /\ T[i] # ">" => g[i] < e + 1 /\ J[g[i] + 1] = "eol"
  <2>1. CASE i \in r + 1 .. m
    <3>1. g[i] = f[i] /\ f[i] \in 1 .. e /\ I[f[i]] = T[i] /\ (T[i] # ">" => f[i] < e /\ I[f[i] + 1] = "eol")
      BY <1>2, <2>1 DEF LineUp
    <3>2. T[i] # ">" => f[i] + 1 \in 1 .. e
      BY <3>1
    <3>3. QED BY <1>3, <3>1, <3>2
  <2>2. CASE i = m + 1
    <3>1. g[i] = e + 1 /\ T[i] = T[m + 1]
      BY <1>2, <2>2
    <3>2. QED BY <1>3, <3>1
  <2>3. QED BY <1>4, <2>1, <2>2
<1>6. ASSUME NEW i \in r + 1 .. m + 1, NEW j \in r + 1 .. m + 1, i < j PROVE g[i] < g[j]
  <2>1. i \in r + 1 .. m /\ g[i] = f[i] /\ f[i] \in 1 .. e
    <3>1. i \in r + 1 .. m
      BY <1>1, <1>6
    <3>2. f[i] \in 1 .. e
      BY <3>1, Zenon DEF LineUp
    <3>3. QED BY <1>2, <3>1, <3>2
  <2>2. CASE j \in r + 1 .. m
    <3>1. g[j] = f[j] /\ f[i] < f[j]
      BY <1>2, <1>6, <2>1, <2>2 DEF LineUp
    <3>2. QED BY <2>1, <3>1
  <2>3. CASE j = m + 1
    <3>1. g[j] = e + 1
      BY <1>2, <2>3
    <3>2. QED BY <2>1, <3>1
  <2>4. QED BY <1>4, <2>2, <2>3
<1>7. ASSUME NEW k \in 1 .. e + 1
      PROVE  J[k] = "eol" \/ k = x \/ \E i \in r + 1 .. m + 1 : g[i] = k
  <2>1. CASE k \in 1 .. e
    <3>1. J[k] = I[k] /\ (I[k] = "eol" \/ k = x \/ \E i \in r + 1 .. m : f[i] = k)
      BY <1>3, <2>1 DEF LineUp
    <3>2. CASE \E i \in r + 1 .. m : f[i] = k
      <4>1. PICK i \in r + 1 .. m : f[i] = k
        BY <3>2
      <4>2. i \in r + 1 .. m + 1 /\ g[i] = k
        BY <1>1, <1>2, <4>1
      <4>3. QED BY <4>2
    <3>3. QED BY <3>1, <3>2
  <2>2. CASE k = e + 1
    <3>1. m + 1 \in r + 1 .. m + 1
      BY <1>1
    <3>2. QED BY <1>2, <2>2, <3>1
  <2>3. QED BY <2>1, <2>2
<1>8. ASSUME x # 0
      PROVE  /\ x \in 1 .. (e + 1) - 1 /\ J[x] = "CONNECT" /\ J[x + 1] = "eol"
             /\ \A i \in r + 1 .. m + 1 : g[i] # x
  <2>1. /\ x \in 1 .. e - 1 /\ I[x] = "CONNECT" /\ I[x + 1] = "eol"
        /\ \A i \in r + 1 .. m : f[i] # x
    BY <1>8 DEF LineUp
  <2>2. x \in 1 .. e /\ x + 1 \in 1 .. e /\ x # e + 1 /\ x \in 1 .. (e + 1) - 1
    <3>1. x \in 1 .. e - 1
      BY <2>1
    <3>2. QED BY <3>1
  <2>3. J[x] = "CONNECT" /\ J[x + 1] = "eol"
    BY <1>3, <2>1, <2>2
  <2>4. ASSUME NEW i \in r + 1 .. m + 1 PROVE g[i] # x
    BY <1>2, <1>4, <2>1, <2>2
  <2>5. QED BY <2>2, <2>3, <2>4
<1>9. LineUp(J, e + 1, T, g, r, m + 1, x)
  <2>1. e + 1 \in Nat /\ r <= m + 1
    BY <1>1
  <2>2. QED BY <1>1, <1>2, <1>5, <1>6, <1>7, <1>8, <2>1 DEF LineUp
<1>10. QED BY <1>3, <1>9, Zenon DEF Longer

AddsConnect(I, J, T, e, f, r, m, x, L) ==
  /\ e \in Nat /\ LineUp(I, e, T, f, r, m, x) /\ x = 0 /\ Len(I) = e
  /\ Len(L) = 3 /\ L[1] = "CONNECT" /\ L[2] = "eol" /\ L[3] = "eol" /\ Extended(I, L, J)
Connected(J, T, e, f, r, m) ==
  /\ LineUp(J, Len(J), T, f, r, m, e + 1) /\ Len(J) = e + 3
  /\ \A i \in r + 1 .. m : f[i] < e + 1

\* The connection has been printed, after all lines of the answer.
LEMMA AddConnect ==
  ASSUME NEW I, NEW J, NEW T, NEW e, NEW f, NEW r, NEW m, NEW x, NEW L,
         AddsConnect(I, J, T, e, f, r, m, x, L)
  PROVE  Connected(J, T, e, f, r, m)
<1> /\ e \in Nat /\ LineUp(I, e, T, f, r, m, x) /\ x = 0 /\ Len(I) = e
    /\ Len(L) = 3 /\ L[1] = "CONNECT" /\ L[2] = "eol" /\ L[3] = "eol" /\ Extended(I, L, J)
  BY Zenon DEF AddsConnect
<1>1. r \in Nat /\ m \in Nat /\ r <= m /\ m <= Len(T) /\ f \in [Int -> Int]
  BY Zenon DEF LineUp
<1>2. /\ Len(J) = e + 3 /\ (\A k \in 1 .. e : J[k] = I[k])
      /\ J[e + 1] = "CONNECT" /\ J[e + 2] = "eol" /\ J[e + 3] = "eol"
  BY DEF Extended
<1>3. ASSUME NEW i \in r + 1 .. m
      PROVE  /\ f[i] \in 1 .. e + 3 /\ J[f[i]] = T[i]
             /\ T[i] # ">" => f[i] < e + 3 /\ J[f[i] + 1] = "eol"
             /\ f[i] < e + 1
  <2>1. f[i] \in 1 .. e /\ I[f[i]] = T[i] /\ (T[i] # ">" => f[i] < e /\ I[f[i] + 1] = "eol")
    BY DEF LineUp
  <2>2. T[i] # ">" => f[i] + 1 \in 1 .. e
    BY <2>1
  <2>3. QED BY <1>2, <2>1, <2>2
<1>4. ASSUME NEW k \in 1 .. e + 3
      PROVE  J[k] = "eol" \/ k = e + 1 \/ \E i \in r + 1 .. m : f[i] = k
  <2>1. CASE k \in 1 .. e
    BY <1>2, <2>1 DEF LineUp
  <2>2. CASE k = e + 2 \/ k = e + 3
    BY <1>2, <2>2
  <2>3. QED BY <2>1, <2>2
<1>5. LineUp(J, e + 3, T, f, r, m, e + 1)
  <2>1. e + 3 \in Nat /\ e + 1 \in Nat /\ e + 1 \in 1 .. (e + 3) - 1 /\ (e + 1) + 1 = e + 2
    OBVIOUS
  <2>2. \A i, j \in r + 1 .. m : i < j => f[i] < f[j]
    BY Zenon DEF LineUp
  <2>3. \A i \in r + 1 .. m : f[i] # e + 1
    BY <1>3
  <2>4. J[(e + 1) + 1] = "eol"
    BY <1>2, <2>1
  <2>5. QED BY <1>1, <1>2, <1>3, <1>4, <2>1, <2>2, <2>3, <2>4, Zenon DEF LineUp
<1>6. QED BY <1>2, <1>3, <1>5, Zenon DEF Connected

AddsMessage(I, J, T, e, f, r, m, x, L, W) ==
  /\ e \in Nat /\ LineUp(I, e, T, f, r, m, x) /\ Len(I) = e /\ Len(W) \in Nat
  /\ Len(L) = 1 + Len(W) /\ L[1] = "eol" /\ (\A k \in 1 .. Len(W) : L[k + 1] = W[k]) /\ Extended(I, L, J)
Followed(J, T, f, r, m, x, W) ==
  \E b : Len(J) = b + Len(W) /\ b \in Nat /\ LineUp(J, b, T, f, r, m, x) /\ Ends(J, b, W)

\* An end of line has been printed, and then a message W.
LEMMA AddMessage ==
  ASSUME NEW I, NEW J, NEW T, NEW e, NEW f, NEW r, NEW m, NEW x, NEW L, NEW W,
         AddsMessage(I, J, T, e, f, r, m, x, L, W)
  PROVE  Followed(J, T, f, r, m, x, W)
<1> /\ e \in Nat /\ LineUp(I, e, T, f, r, m, x) /\ Len(I) = e /\ Len(W) \in Nat
    /\ Len(L) = 1 + Len(W) /\ L[1] = "eol" /\ (\A k \in 1 .. Len(W) : L[k + 1] = W[k]) /\ Extended(I, L, J)
  BY Zenon DEF AddsMessage
<1>1. r \in Nat /\ m \in Nat /\ x \in Nat /\ r <= m /\ m <= Len(T) /\ f \in [Int -> Int]
  BY Zenon DEF LineUp
<1>2. /\ Len(J) = (e + 1) + Len(W) /\ (\A k \in 1 .. e : J[k] = I[k]) /\ J[e + 1] = "eol"
  BY DEF Extended
<1>3. ASSUME NEW i \in r + 1 .. m
      PROVE  /\ f[i] \in 1 .. e + 1 /\ J[f[i]] = T[i]
             /\ T[i] # ">" => f[i] < e + 1 /\ J[f[i] + 1] = "eol"
  <2>1. f[i] \in 1 .. e /\ I[f[i]] = T[i] /\ (T[i] # ">" => f[i] < e /\ I[f[i] + 1] = "eol")
    BY DEF LineUp
  <2>2. T[i] # ">" => f[i] + 1 \in 1 .. e
    BY <2>1
  <2>3. QED BY <1>2, <2>1, <2>2
<1>4. ASSUME NEW k \in 1 .. e + 1
      PROVE  J[k] = "eol" \/ k = x \/ \E i \in r + 1 .. m : f[i] = k
  <2>1. CASE k \in 1 .. e
    BY <1>2, <2>1 DEF LineUp
  <2>2. CASE k = e + 1
    BY <1>2, <2>2
  <2>3. QED BY <2>1, <2>2
<1>5. ASSUME x # 0
      PROVE  /\ x \in 1 .. (e + 1) - 1 /\ J[x] = "CONNECT" /\ J[x + 1] = "eol"
             /\ \A i \in r + 1 .. m : f[i] # x
  <2>1. /\ x \in 1 .. e - 1 /\ I[x] = "CONNECT" /\ I[x + 1] = "eol"
        /\ \A i \in r + 1 .. m : f[i] # x
    BY <1>5 DEF LineUp
  <2>2. x \in 1 .. e /\ x + 1 \in 1 .. e /\ x \in 1 .. (e + 1) - 1
    <3>1. x \in 1 .. e - 1
      BY <2>1
    <3>2. QED BY <3>1
  <2>3. QED BY <1>2, <2>1, <2>2
<1>6. LineUp(J, e + 1, T, f, r, m, x)
  <2>1. e + 1 \in Nat /\ \A i, j \in r + 1 .. m : i < j => f[i] < f[j]
    BY DEF LineUp
  <2>2. QED BY <1>1, <1>3, <1>4, <1>5, <2>1, Zenon DEF LineUp
<1>7. ASSUME NEW k \in 1 .. Len(W) PROVE J[(e + 1) + k] = W[k]
  <2>1. k + 1 \in 1 .. Len(L) /\ e + (k + 1) = (e + 1) + k
    OBVIOUS
  <2>2. J[e + (k + 1)] = L[k + 1]
    BY <2>1 DEF Extended
  <2>3. QED BY <2>1, <2>2
<1>8. Ends(J, e + 1, W) /\ e + 1 \in Nat
  BY <1>2, <1>7, SMT DEF Ends
<1>9. QED BY <1>2, <1>6, <1>8, Zenon DEF Followed

\* What is left of the lines when some have been read.
Shifts(I, J, T, e, f, r, m, x, d, h, y) ==
  /\ LineUp(I, e, T, f, r, m, x) /\ e \in Nat /\ Len(I) \in Nat /\ e <= Len(I) /\ d \in 1 .. e
  /\ Dropped(I, d, J)
  /\ h \in Nat /\ r <= h /\ h <= m /\ y \in Nat /\ (y # 0 => x > d /\ y = x - d)
  /\ \A i \in h + 1 .. m : f[i] > d
  /\ \A k \in d + 1 .. e : I[k] = "eol" \/ (y # 0 /\ k = x) \/ \E i \in h + 1 .. m : f[i] = k
Moved(J, e, T, f, m, d, h, y) ==
  \E g : LineUp(J, e - d, T, g, h, m, y) /\ \A i \in Int : g[i] = f[i] - d

LEMMA PlacesLess ==
  ASSUME NEW f \in [Int -> Int], NEW d \in Nat
  PROVE  \E g \in [Int -> Int] : \A i \in Int : g[i] = f[i] - d
<1> DEFINE g == [i \in Int |-> f[i] - d]
<1>1. g \in [Int -> Int]
  OBVIOUS
<1>2. \A i \in Int : g[i] = f[i] - d
  OBVIOUS
<1> HIDE DEF g
<1>3. QED BY <1>1, <1>2, Zenon

LEMMA Shifted ==
  ASSUME NEW I, NEW J, NEW T, NEW e, NEW f, NEW r, NEW m, NEW x, NEW d, NEW h, NEW y,
         Shifts(I, J, T, e, f, r, m, x, d, h, y)
  PROVE  Moved(J, e, T, f, m, d, h, y)
<1> /\ LineUp(I, e, T, f, r, m, x) /\ e \in Nat /\ Len(I) \in Nat /\ e <= Len(I) /\ d \in 1 .. e
    /\ Dropped(I, d, J)
    /\ h \in Nat /\ r <= h /\ h <= m /\ y \in Nat /\ (y # 0 => x > d /\ y = x - d)
    /\ \A i \in h + 1 .. m : f[i] > d
    /\ \A k \in d + 1 .. e : I[k] = "eol" \/ (y # 0 /\ k = x) \/ \E i \in h + 1 .. m : f[i] = k
  BY Zenon DEF Shifts
<1>1. r \in Nat /\ m \in Nat /\ x \in Nat /\ f \in [Int -> Int]
  BY Zenon DEF LineUp
<1>2. PICK g : g \in [Int -> Int] /\ \A i \in Int : g[i] = f[i] - d
  <2>1. \A b \in Nat : \A a \in 1 .. b : a \in Nat
    OBVIOUS
  <2>2. d \in Nat
    BY <2>1, Zenon
  <2>3. \E z \in [Int -> Int] : \A i \in Int : z[i] = f[i] - d
    BY <1>1, <2>2, PlacesLess
  <2>4. QED BY <2>3, Zenon
<1>0. ASSUME NEW i \in h + 1 .. m PROVE i \in Int /\ i \in r + 1 .. m
  <2>1. h \in Nat /\ r \in Nat /\ m \in Nat /\ r <= h
    BY <1>1
  <2>2. QED BY <2>1
<1>3. Len(J) = Len(I) - d /\ \A k \in 1 .. Len(J) : J[k] = I[k + d]
  BY DEF Dropped
<1>4. \A k \in 1 .. e - d : J[k] = I[k + d] /\ k + d \in d + 1 .. e
  BY <1>3
<1>5. ASSUME NEW i \in h + 1 .. m
      PROVE  /\ g[i] \in 1 .. e - d /\ J[g[i]] = T[i]
             /\ T[i] # ">" => g[i] < e - d /\ J[g[i] + 1] = "eol"
  <2>1. i \in Int /\ i \in r + 1 .. m
    BY <1>0
  <2>2. f[i] \in 1 .. e /\ I[f[i]] = T[i] /\ (T[i] # ">" => f[i] < e /\ I[f[i] + 1] = "eol")
    BY <2>1 DEF LineUp
  <2>3. f[i] > d /\ g[i] = f[i] - d
    BY <1>2, <2>1
  <2>4. g[i] \in 1 .. e - d /\ g[i] + d = f[i]
    BY <2>2, <2>3
  <2>5. J[g[i]] = T[i]
    BY <1>4, <2>2, <2>4
  <2>6. ASSUME T[i] # ">" PROVE g[i] < e - d /\ J[g[i] + 1] = "eol"
    <3>1. f[i] < e /\ I[f[i] + 1] = "eol"
      BY <2>2, <2>6
    <3>2. PICK a, b, c, v : a = e /\ b = d /\ c = f[i] /\ v = g[i]
      OBVIOUS
    <3>3. a \in Int /\ b \in Int /\ c \in Int /\ c < a /\ c > b /\ v = c - b
      BY <2>2, <2>3, <3>1, <3>2
    <3>5. v + 1 \in 1 .. a - b /\ (v + 1) + b = c + 1 /\ v < a - b
      BY <3>3
    <3>6. g[i] + 1 \in 1 .. e - d /\ (g[i] + 1) + d = f[i] + 1 /\ g[i] < e - d
      BY <3>2, <3>5, Zenon
    <3>7. QED BY <1>4, <3>1, <3>6
  <2>7. QED BY <2>4, <2>5, <2>6
<1>6. ASSUME NEW i \in h + 1 .. m, NEW j \in h + 1 .. m, i < j PROVE g[i] < g[j]
  <2>1. i \in Int /\ i \in r + 1 .. m /\ j \in Int /\ j \in r + 1 .. m
    BY <1>0
  <2>2. f[i] < f[j] /\ f[i] \in Int /\ f[j] \in Int
    BY <1>1, <1>6, <2>1 DEF LineUp
  <2>3. g[i] = f[i] - d /\ g[j] = f[j] - d
    BY <1>2, <2>1
  <2>4. QED BY <2>2, <2>3
<1>7. ASSUME NEW k \in 1 .. e - d
      PROVE  J[k] = "eol" \/ k = y \/ \E i \in h + 1 .. m : g[i] = k
  <2>1. k + d \in d + 1 .. e /\ J[k] = I[k + d]
    BY <1>4
  <2>2. I[k + d] = "eol" \/ (y # 0 /\ k + d = x) \/ \E i \in h + 1 .. m : f[i] = k + d
    BY <2>1
  <2>3. CASE y # 0 /\ k + d = x
    BY <2>3
  <2>4. ASSUME NEW i \in h + 1 .. m, f[i] = k + d PROVE g[i] = k
    <3>1. i \in Int
      BY <1>1
    <3>2. g[i] = f[i] - d
      BY <1>2, <3>1
    <3>3. QED BY <2>4, <3>2
  <2>5. QED BY <2>1, <2>2, <2>3, <2>4
<1>8. ASSUME y # 0
      PROVE  /\ y \in 1 .. (e - d) - 1 /\ J[y] = "CONNECT" /\ J[y + 1] = "eol"
             /\ \A i \in h + 1 .. m : g[i] # y
  <2>1. x > d /\ y = x - d /\ x # 0
    BY <1>1, <1>8
  <2>2. /\ x \in 1 .. e - 1 /\ I[x] = "CONNECT" /\ I[x + 1] = "eol"
        /\ \A i \in r + 1 .. m : f[i] # x
    BY <2>1, Zenon DEF LineUp
  <2>3. y \in 1 .. (e - d) - 1 /\ y \in 1 .. e - d /\ y + 1 \in 1 .. e - d /\ y + d = x /\ (y + 1) + d = x + 1
    <3>1. x \in 1 .. e - 1
      BY <2>2
    <3>2. QED BY <2>1, <3>1
  <2>4. J[y] = "CONNECT" /\ J[y + 1] = "eol"
    BY <1>4, <2>2, <2>3
  <2>5. ASSUME NEW i \in h + 1 .. m PROVE g[i] # y
    <3>1. i \in Int /\ i \in r + 1 .. m
      BY <1>0
    <3>2. g[i] = f[i] - d /\ f[i] # x /\ f[i] \in Int
      BY <1>1, <1>2, <2>2, <3>1
    <3>3. d \in Int /\ x \in Int /\ y = x - d
      BY <1>1, <2>1
    <3>4. QED BY <3>2, <3>3
  <2>6. QED BY <2>3, <2>4, <2>5
<1>9. LineUp(J, e - d, T, g, h, m, y)
  <2>1. e - d \in Nat /\ m <= Len(T)
    BY DEF LineUp
  <2>2. QED BY <1>1, <1>2, <1>5, <1>6, <1>7, <1>8, <2>1 DEF LineUp
<1>10. QED BY <1>2, <1>9, Zenon DEF Moved

Begins(I, T, e, f, r, m, x, q) ==
  /\ e \in Nat /\ LineUp(I, e, T, f, r, m, x) /\ Len(I) \in Nat /\ e <= Len(I) /\ FirstAt(I, q) /\ q <= e
  /\ \A i \in 1 .. m : T[i] # "eol"
WithConnect(I, e, f, r, m, x, q) ==
  /\ x # 0 /\ q = x /\ I[q] = "CONNECT" /\ q + 1 \in 1 .. e /\ I[q + 1] = "eol"
  /\ \A i \in r + 1 .. m : f[i] > q
WithItem(I, T, e, f, r, m, x, q) ==
  /\ r < m /\ q = f[r + 1] /\ I[q] = T[r + 1]
  /\ T[r + 1] # ">" => q + 1 \in 1 .. e /\ I[q + 1] = "eol"
  /\ x # 0 => x > q
  /\ \A i \in r + 2 .. m : f[i] > q

\* The first line of the input is the first of the answer, or the connection.
LEMMA FirstItem ==
  ASSUME NEW I, NEW T, NEW e, NEW f, NEW r, NEW m, NEW x, NEW q, Begins(I, T, e, f, r, m, x, q)
  PROVE  WithConnect(I, e, f, r, m, x, q) \/ WithItem(I, T, e, f, r, m, x, q)
<1> /\ e \in Nat /\ LineUp(I, e, T, f, r, m, x) /\ Len(I) \in Nat /\ e <= Len(I) /\ FirstAt(I, q) /\ q <= e
    /\ \A i \in 1 .. m : T[i] # "eol"
  BY Zenon DEF Begins
<1>1. r \in Nat /\ m \in Nat /\ x \in Nat /\ f \in [Int -> Int] /\ r <= m
  BY Zenon DEF LineUp
<1>2. q \in 1 .. e /\ I[q] # "eol" /\ \A k \in 1 .. q - 1 : I[k] = "eol"
  BY DEF FirstAt
<1>3. ASSUME NEW i \in r + 1 .. m
      PROVE  /\ f[i] \in 1 .. e /\ I[f[i]] = T[i] /\ (T[i] # ">" => f[i] < e /\ I[f[i] + 1] = "eol")
             /\ T[i] # "eol" /\ f[i] >= q
  <2>1. f[i] \in 1 .. e /\ I[f[i]] = T[i] /\ (T[i] # ">" => f[i] < e /\ I[f[i] + 1] = "eol")
    BY DEF LineUp
  <2>2. T[i] # "eol"
    <3>1. i \in 1 .. m
      BY <1>1
    <3>2. QED BY <3>1
  <2>3. f[i] \notin 1 .. q - 1
    BY <1>2, <2>1, <2>2
  <2>4. f[i] >= q
    BY <1>2, <2>1, <2>3
  <2>5. QED BY <2>1, <2>2, <2>4
<1>4. ASSUME x # 0
      PROVE  x \in 1 .. e - 1 /\ I[x] = "CONNECT" /\ I[x + 1] = "eol" /\ x >= q /\ \A i \in r + 1 .. m : f[i] # x
  <2>1. x \in 1 .. e - 1 /\ I[x] = "CONNECT" /\ I[x + 1] = "eol" /\ \A i \in r + 1 .. m : f[i] # x
    BY <1>4, Zenon DEF LineUp
  <2>2. x \in 1 .. e - 1
    BY <2>1
  <2>3. x \notin 1 .. q - 1
    BY <1>2, <2>1
  <2>4. x >= q
    BY <1>2, <2>2, <2>3
  <2>5. QED BY <2>1, <2>4
<1>5. q = x \/ \E i \in r + 1 .. m : f[i] = q
  BY <1>2 DEF LineUp
<1>6. CASE q = x
  <2>1. x # 0
    BY <1>2, <1>6
  <2>2. \A i \in r + 1 .. m : f[i] > q
    <3>1. ASSUME NEW i \in r + 1 .. m PROVE f[i] > q
      BY <1>2, <1>3, <1>4, <1>6, <2>1
    <3>2. QED BY <3>1
  <2>3. q + 1 \in 1 .. e
    <3>1. x \in 1 .. e - 1
      BY <1>4, <2>1
    <3>2. QED BY <1>6, <3>1
  <2>4. QED BY <1>4, <1>6, <2>1, <2>2, <2>3, Zenon DEF WithConnect
<1>7. CASE \E i \in r + 1 .. m : f[i] = q
  <2>1. PICK i \in r + 1 .. m : f[i] = q
    BY <1>7
  <2>2. r < m /\ r + 1 \in r + 1 .. m
    BY <1>1, <2>1
  <2>3. i = r + 1
    <3>1. ASSUME i > r + 1 PROVE FALSE
      <4>1. f[r + 1] < f[i]
        BY <2>2, <3>1 DEF LineUp
      <4>2. f[r + 1] >= q /\ f[r + 1] \in 1 .. e
        BY <1>3, <2>2
      <4>3. QED BY <1>2, <2>1, <4>1, <4>2
    <3>2. QED BY <1>1, <2>1, <3>1
  <2>4. I[q] = T[r + 1] /\ (T[r + 1] # ">" => q < e /\ I[q + 1] = "eol")
    BY <1>3, <2>1, <2>3
  <2>5. x # 0 => x > q
    <3>1. ASSUME x # 0 PROVE x > q
      <4>1. x >= q /\ x # q
        BY <1>4, <2>1, <3>1
      <4>2. QED BY <1>1, <1>2, <4>1
    <3>2. QED BY <3>1
  <2>6. ASSUME NEW j \in r + 2 .. m PROVE f[j] > q
    <3>1. j \in r + 1 .. m /\ r + 1 < j
      BY <1>1
    <3>2. f[r + 1] < f[j]
      BY <2>2, <3>1 DEF LineUp
    <3>3. QED BY <2>1, <2>3, <3>2
  <2>7. T[r + 1] # ">" => q + 1 \in 1 .. e
    BY <1>2, <2>4
  <2>8. QED BY <2>1, <2>2, <2>3, <2>4, <2>5, <2>6, <2>7, Zenon DEF WithItem
<1>8. QED BY <1>5, <1>6, <1>7

\* What was taken from the front ends before the message that waits.
LEMMA DropEnds ==
  ASSUME NEW I, NEW J, NEW W, NEW e \in Nat, NEW q \in 1 .. e, NEW d \in Nat,
         Ends(I, e, W), Len(I) \in Nat, Len(W) \in Nat, Len(W) > 0 => W[1] # "eol",
         d >= q, d <= Len(I), \A k \in q + 1 .. d : I[k] = "eol", Dropped(I, d, J)
  PROVE  d \in 1 .. e /\ e <= Len(I) /\ Len(J) \in Nat /\ Len(J) - Len(W) = e - d /\ Ends(J, e - d, W)
<1>1. Len(I) = e + Len(W) /\ \A k \in 1 .. Len(W) : I[e + k] = W[k]
  BY DEF Ends
<1>2. d <= e
  <2>1. ASSUME d > e PROVE FALSE
    <3>1. e + 1 \in q + 1 .. d /\ 1 \in 1 .. Len(W) /\ Len(W) > 0
      BY <1>1, <2>1
    <3>2. I[e + 1] = "eol" /\ I[e + 1] = W[1]
      BY <1>1, <3>1
    <3>3. QED BY <3>1, <3>2
  <2>2. QED BY <2>1
<1>3. Len(J) = Len(I) - d /\ \A k \in 1 .. Len(J) : J[k] = I[k + d]
  BY DEF Dropped
<1>4. d \in 1 .. e /\ e <= Len(I) /\ Len(J) \in Nat /\ Len(J) - Len(W) = e - d /\ Len(J) = (e - d) + Len(W)
  BY <1>1, <1>2, <1>3
<1>5. ASSUME NEW k \in 1 .. Len(W) PROVE J[(e - d) + k] = W[k]
  <2>1. (e - d) + k \in 1 .. Len(J) /\ ((e - d) + k) + d = e + k
    BY <1>4
  <2>2. QED BY <1>1, <1>3, <2>1
<1>6. QED BY <1>4, <1>5 DEF Ends

DropsItem(I, J, T, W, e, f, r, m, x, q, d) ==
  /\ e \in Nat /\ d \in Nat /\ LineUp(I, e, T, f, r, m, x) /\ Ends(I, e, W) /\ Len(I) \in Nat /\ Len(W) \in Nat
  /\ Len(W) > 0 => W[1] # "eol"
  /\ \A i \in 1 .. m : T[i] # "eol"
  /\ r < m /\ q = f[r + 1] /\ (x # 0 => x > q) /\ \A i \in r + 2 .. m : f[i] > q
  /\ d >= q /\ d <= Len(I) /\ (\A k \in q + 1 .. d : I[k] = "eol") /\ Dropped(I, d, J)
ItemDropped(J, T, W, f, r, m, x) ==
  \E g, y : /\ LineUp(J, Len(J) - Len(W), T, g, r + 1, m, y) /\ Ends(J, Len(J) - Len(W), W)
            /\ y # 0 <=> x # 0
            /\ \A i \in Int : x # 0 /\ f[i] < x => g[i] < y

\* The next line of the answer has been read.
LEMMA DropItem ==
  ASSUME NEW I, NEW J, NEW T, NEW W, NEW e, NEW f, NEW r, NEW m, NEW x, NEW q, NEW d,
         DropsItem(I, J, T, W, e, f, r, m, x, q, d)
  PROVE  ItemDropped(J, T, W, f, r, m, x)
<1> /\ e \in Nat /\ d \in Nat /\ LineUp(I, e, T, f, r, m, x) /\ Ends(I, e, W) /\ Len(I) \in Nat /\ Len(W) \in Nat
    /\ Len(W) > 0 => W[1] # "eol"
    /\ \A i \in 1 .. m : T[i] # "eol"
    /\ r < m /\ q = f[r + 1] /\ (x # 0 => x > q) /\ \A i \in r + 2 .. m : f[i] > q
    /\ d >= q /\ d <= Len(I) /\ (\A k \in q + 1 .. d : I[k] = "eol") /\ Dropped(I, d, J)
  BY Zenon DEF DropsItem
<1>1. r \in Nat /\ m \in Nat /\ x \in Nat /\ f \in [Int -> Int] /\ r <= m
  BY Zenon DEF LineUp
<1>2. r + 1 \in r + 1 .. m /\ r + 1 \in Nat /\ r <= r + 1 /\ r + 1 <= m
  BY <1>1
<1>3. q \in 1 .. e
  BY <1>2 DEF LineUp
<1>4. d \in 1 .. e /\ e <= Len(I) /\ Len(J) \in Nat /\ Len(J) - Len(W) = e - d /\ Ends(J, e - d, W)
  BY <1>3, DropEnds
<1>5. x # 0 => x > d
  <2>1. ASSUME x # 0, ~(x > d) PROVE FALSE
    <3>1. x \in q + 1 .. d
      BY <1>1, <1>3, <2>1
    <3>2. I[x] = "CONNECT"
      BY <2>1, Zenon DEF LineUp
    <3>3. I[x] = "eol"
      BY <3>1
    <3>4. QED BY <3>2, <3>3
  <2>2. QED BY <2>1
<1>6. ASSUME NEW i \in r + 2 .. m PROVE f[i] > d /\ f[i] \in Int /\ i \in Int
  <2>1. i \in r + 1 .. m /\ i \in 1 .. m /\ i \in Int
    BY <1>1
  <2>2. f[i] \in 1 .. e /\ I[f[i]] = T[i]
    BY <2>1 DEF LineUp
  <2>3. T[i] # "eol" /\ f[i] > q
    BY <2>1
  <2>4. f[i] \notin q + 1 .. d
    BY <2>2, <2>3
  <2>5. QED BY <1>3, <2>1, <2>2, <2>3, <2>4
<1>7. PICK y \in Nat : y = IF x = 0 THEN 0 ELSE x - d
  <2>1. x # 0 => x - d \in Nat
    <3>1. x \in Nat /\ d \in Nat
      BY <1>1
    <3>2. QED BY <1>5, <3>1
  <2>2. QED BY <2>1
<1>8. (y # 0 <=> x # 0) /\ (y # 0 => x > d /\ y = x - d)
  BY <1>1, <1>4, <1>5, <1>7
<1>9. ASSUME NEW k \in d + 1 .. e
      PROVE  I[k] = "eol" \/ (y # 0 /\ k = x) \/ \E i \in (r + 1) + 1 .. m : f[i] = k
  <2>1. k \in 1 .. e /\ k # 0 /\ k > q
    BY <1>3, <1>4
  <2>2. I[k] = "eol" \/ k = x \/ \E i \in r + 1 .. m : f[i] = k
    BY <2>1 DEF LineUp
  <2>3. ASSUME k = x PROVE y # 0
    BY <1>8, <2>1, <2>3
  <2>4. ASSUME NEW i \in r + 1 .. m, f[i] = k PROVE i \in (r + 1) + 1 .. m
    <3>1. i # r + 1
      BY <2>1, <2>4
    <3>2. QED BY <1>1, <3>1
  <2>5. QED BY <2>2, <2>3, <2>4
<1>10. \A i \in (r + 1) + 1 .. m : i \in r + 2 .. m
  BY <1>1
<1>11. PICK h : h = r + 1
  OBVIOUS
<1>15. PICK g : LineUp(J, e - d, T, g, h, m, y) /\ \A i \in Int : g[i] = f[i] - d
  <2>1. /\ y \in Nat /\ (y # 0 => x > d /\ y = x - d) /\ h \in Nat /\ r <= h /\ h <= m
        /\ d \in 1 .. e /\ e <= Len(I)
    BY <1>2, <1>4, <1>7, <1>8, <1>11
  <2>2. \A k \in d + 1 .. e : I[k] = "eol" \/ (y # 0 /\ k = x) \/ \E i \in h + 1 .. m : f[i] = k
    BY <1>9, <1>11
  <2>3. \A i \in h + 1 .. m : f[i] > d
    BY <1>6, <1>10, <1>11
  <2>4. Shifts(I, J, T, e, f, r, m, x, d, h, y)
    BY <2>1, <2>2, <2>3, Zenon DEF Shifts
  <2>5. Moved(J, e, T, f, m, d, h, y)
    BY <2>4, Shifted
  <2>6. QED BY <2>5, Zenon DEF Moved
<1>12. LineUp(J, e - d, T, g, r + 1, m, y) /\ \A i \in Int : g[i] = f[i] - d
  BY <1>11, <1>15
<1>13. ASSUME NEW i \in Int, x # 0, f[i] < x PROVE g[i] < y
  <2>1. g[i] = f[i] - d /\ y = x - d
    BY <1>8, <1>12, <1>13
  <2>2. f[i] \in Int /\ x \in Int /\ d \in Int /\ f[i] < x
    BY <1>1, <1>13
  <2>3. QED BY <2>1, <2>2
<1>14. LineUp(J, Len(J) - Len(W), T, g, r + 1, m, y) /\ Ends(J, Len(J) - Len(W), W)
  BY <1>4, <1>12, Zenon
<1>16. QED BY <1>8, <1>13, <1>14, Zenon DEF ItemDropped

DropsConnect(I, J, T, W, e, f, r, m, x, q, d) ==
  /\ e \in Nat /\ d \in Nat /\ LineUp(I, e, T, f, r, m, x) /\ Ends(I, e, W) /\ Len(I) \in Nat /\ Len(W) \in Nat
  /\ Len(W) > 0 => W[1] # "eol"
  /\ \A i \in 1 .. m : T[i] # "eol"
  /\ x # 0 /\ q = x /\ \A i \in r + 1 .. m : f[i] > q
  /\ d >= q /\ d <= Len(I) /\ (\A k \in q + 1 .. d : I[k] = "eol") /\ Dropped(I, d, J)
ConnectDropped(J, T, W, r, m) ==
  \E g : LineUp(J, Len(J) - Len(W), T, g, r, m, 0) /\ Ends(J, Len(J) - Len(W), W)

\* The connection has been read.
LEMMA DropConnect ==
  ASSUME NEW I, NEW J, NEW T, NEW W, NEW e, NEW f, NEW r, NEW m, NEW x, NEW q, NEW d,
         DropsConnect(I, J, T, W, e, f, r, m, x, q, d)
  PROVE  ConnectDropped(J, T, W, r, m)
<1> /\ e \in Nat /\ d \in Nat /\ LineUp(I, e, T, f, r, m, x) /\ Ends(I, e, W) /\ Len(I) \in Nat /\ Len(W) \in Nat
    /\ Len(W) > 0 => W[1] # "eol"
    /\ \A i \in 1 .. m : T[i] # "eol"
    /\ x # 0 /\ q = x /\ \A i \in r + 1 .. m : f[i] > q
    /\ d >= q /\ d <= Len(I) /\ (\A k \in q + 1 .. d : I[k] = "eol") /\ Dropped(I, d, J)
  BY Zenon DEF DropsConnect
<1>1. r \in Nat /\ m \in Nat /\ x \in Nat /\ f \in [Int -> Int] /\ r <= m
  BY Zenon DEF LineUp
<1>2. q \in 1 .. e
  <2>1. x \in 1 .. e - 1
    BY Zenon DEF LineUp
  <2>2. QED BY <2>1
<1>3. d \in 1 .. e /\ e <= Len(I) /\ Len(J) \in Nat /\ Len(J) - Len(W) = e - d /\ Ends(J, e - d, W)
  BY <1>2, DropEnds
<1>4. ASSUME NEW i \in r + 1 .. m PROVE f[i] > d
  <2>1. i \in 1 .. m
    BY <1>1
  <2>2. f[i] \in 1 .. e /\ I[f[i]] = T[i] /\ T[i] # "eol" /\ f[i] > q
    BY <2>1 DEF LineUp
  <2>3. f[i] \notin q + 1 .. d
    BY <2>2
  <2>4. QED BY <1>2, <2>2, <2>3
<1>5. ASSUME NEW k \in d + 1 .. e
      PROVE  I[k] = "eol" \/ \E i \in r + 1 .. m : f[i] = k
  <2>1. k \in 1 .. e /\ k # x
    BY <1>2, <1>3
  <2>2. QED BY <2>1 DEF LineUp
<1>6. 0 \in Nat /\ r <= r
  BY <1>1
<1>7. PICK y, h : y = 0 /\ h = r
  OBVIOUS
<1>8. PICK g : LineUp(J, e - d, T, g, h, m, y) /\ \A i \in Int : g[i] = f[i] - d
  <2>1. /\ y \in Nat /\ (y # 0 => x > d /\ y = x - d) /\ h \in Nat /\ r <= h /\ h <= m
        /\ d \in 1 .. e /\ e <= Len(I)
    BY <1>1, <1>3, <1>6, <1>7
  <2>2. \A k \in d + 1 .. e : I[k] = "eol" \/ (y # 0 /\ k = x) \/ \E i \in h + 1 .. m : f[i] = k
    BY <1>5, <1>7
  <2>3. \A i \in h + 1 .. m : f[i] > d
    BY <1>4, <1>7
  <2>4. Shifts(I, J, T, e, f, r, m, x, d, h, y)
    BY <2>1, <2>2, <2>3, Zenon DEF Shifts
  <2>5. Moved(J, e, T, f, m, d, h, y)
    BY <2>4, Shifted
  <2>6. QED BY <2>5, Zenon DEF Moved
<1>9. LineUp(J, Len(J) - Len(W), T, g, r, m, 0) /\ Ends(J, Len(J) - Len(W), W)
  BY <1>3, <1>7, <1>8, Zenon
<1>10. QED BY <1>9, Zenon DEF ConnectDropped

-----------------------------------------------------------------------------
(* The answers.                                                            *)

LEMMA ThreeLines ==
  ASSUME NEW a, NEW b, NEW c
  PROVE  LET T == <<a, b, c>> IN Len(T) = 3 /\ T[1] = a /\ T[2] = b /\ T[3] = c
OBVIOUS

LEMMA FourLines ==
  ASSUME NEW a, NEW b, NEW c, NEW d
  PROVE  LET T == <<a, b, c, d>> IN Len(T) = 4 /\ T[1] = a /\ T[2] = b /\ T[3] = c /\ T[4] = d
OBVIOUS

LEMMA FiveLines ==
  ASSUME NEW a, NEW b, NEW c, NEW d, NEW e
  PROVE  LET T == <<a, b, c, d, e>> IN
         Len(T) = 5 /\ T[1] = a /\ T[2] = b /\ T[3] = c /\ T[4] = d /\ T[5] = e
OBVIOUS

\* The lines of each answer.
LEMMA Answers ==
  ASSUME NEW p, NEW k
  PROVE  LET T == Answer(p, k)
             c == Cmd(p, k) IN
         /\ Kind(p, k) = "reset" =>
              Len(T) = 4 /\ T[1] = c /\ T[2] = "OK" /\ T[3] = "boot" /\ T[4] = "ready"
         /\ Kind(p, k) = "at" /\ c \in Talkative =>
              Len(T) = 3 /\ T[1] = c /\ T[2] = "info" /\ T[3] = "OK"
         /\ Kind(p, k) = "at" /\ c \notin Talkative => Len(T) = 2 /\ T[1] = c /\ T[2] = "OK"
         /\ Kind(p, k) = "link" => Len(T) = 3 /\ T[1] = c /\ T[2] = "CONNECT" /\ T[3] = "OK"
         /\ Kind(p, k) = "send" =>
              Len(T) = 5 /\ T[1] = c /\ T[2] = "OK" /\ T[3] = ">" /\ T[4] = "Recv" /\ T[5] = "SENT"
         /\ Kind(p, k) \notin Commanding => Len(T) = 0
<1> DEFINE T == Answer(p, k)
           c == Cmd(p, k)
<1>1. T = Script(Kind(p, k), c)
  BY DEF Answer
<1> HIDE DEF T, c
<1>2. ASSUME NEW a, NEW b PROVE Len(<<a, b>>) = 2 /\ <<a, b>>[1] = a /\ <<a, b>>[2] = b
  OBVIOUS
<1>3. CASE Kind(p, k) = "reset"
  <2>1. T = <<c, "OK", "boot", "ready">>
    BY <1>1, <1>3 DEF Script
  <2>2. QED BY <1>3, <2>1, FourLines DEF T, c, Commanding
<1>4. CASE Kind(p, k) = "at" /\ c \in Talkative
  <2>1. T = <<c, "info", "OK">>
    BY <1>1, <1>4 DEF Script
  <2>2. QED BY <1>4, <2>1, ThreeLines DEF T, c, Commanding
<1>5. CASE Kind(p, k) = "at" /\ c \notin Talkative
  <2>1. T = <<c, "OK">>
    BY <1>1, <1>5 DEF Script
  <2>2. QED BY <1>2, <1>5, <2>1 DEF T, c, Commanding
<1>6. CASE Kind(p, k) = "link"
  <2>1. T = <<c, "CONNECT", "OK">>
    BY <1>1, <1>6 DEF Script
  <2>2. QED BY <1>6, <2>1, ThreeLines DEF T, c, Commanding
<1>7. CASE Kind(p, k) = "send"
  <2>1. T = <<c, "OK", ">", "Recv", "SENT">>
    BY <1>1, <1>7 DEF Script
  <2>2. QED BY <1>7, <2>1, FiveLines DEF T, c, Commanding
<1>8. CASE Kind(p, k) \notin Commanding
  <2>1. T = <<>>
    BY <1>1, <1>8 DEF Script, Commanding
  <2>2. Len(<<>>) = 0
    OBVIOUS
  <2>3. QED BY <1>8, <2>1, <2>2 DEF T, c, Commanding
<1>9. QED BY <1>3, <1>4, <1>5, <1>6, <1>7, <1>8 DEF Commanding, T, c

\* A program that has ended makes no call.
LEMMA EndKind ==
  ASSUME NEW p \in Progs
  PROVE  Kind(p, Len(esp_main(p)) + 1) = "end"
<1> DEFINE k == Len(esp_main(p)) + 1
<1>1. k \in Nat /\ k > Len(esp_main(p)) /\ k > 8 /\ (p = "server" => k > 16)
  BY Sizes, NType DEF Progs
<1> HIDE DEF k
<1>2. k # 1 /\ k \notin 2 .. 4 /\ k \notin 5 .. 7 /\ k # 8 /\ (p = "server" => k \notin 5 .. 15 /\ k # 16)
  BY <1>1
<1>3. Kind(p, k) = "end"
  BY <1>1, <1>2, Zenon DEF Kind
<1>4. QED BY <1>3 DEF k

Places(p) == 1 .. Len(esp_main(p)) + 1

\* No line of an answer is an end of line, and only esp_send's has the prompt.
LEMMA AnswerLines ==
  ASSUME NEW p \in Progs, NEW k \in Places(p)
  PROVE  /\ Len(Answer(p, k)) \in Nat
         /\ \A i \in 1 .. Len(Answer(p, k)) :
              /\ Answer(p, k)[i] \in Words /\ Answer(p, k)[i] # "eol" /\ Answer(p, k)[i] # "+IPD"
              /\ Answer(p, k)[i] = ">" <=> (Kind(p, k) = "send" /\ i = 3)
         /\ Kind(p, k) \in Commanding =>
              /\ k \in 1 .. Len(esp_main(p)) /\ Len(Answer(p, k)) >= 2 /\ Answer(p, k)[1] = Cmd(p, k)
              /\ Cmd(p, k) \notin {"none", "boot", "data", "eol"} /\ Cmd(p, k) \in Commands
              /\ Cmd(p, k) # "CONNECT"
<1> DEFINE T == Answer(p, k)
           c == Cmd(p, k)
<1>1. k \in 1 .. Len(esp_main(p)) \/ Kind(p, k) = "end"
  <2>1. k \in 1 .. Len(esp_main(p)) \/ k = Len(esp_main(p)) + 1
    BY Sizes DEF Places
  <2>2. QED BY <2>1, EndKind
<1>2. Kind(p, k) \in Commanding =>
        k \in 1 .. Len(esp_main(p)) /\ c \in Commands
  BY <1>1, ResetCall, AtCall, LinkCall, SendCall DEF Commanding, Commands
<1>3. \A w \in Commands :
        /\ w \in Words /\ w # "eol" /\ w # "+IPD" /\ w # ">" /\ w # "CONNECT"
        /\ w \notin {"none", "boot", "data", "eol"}
  BY DEF Words, Commands, SetUpCmds
<1>4. /\ Kind(p, k) = "reset" =>
           Len(T) = 4 /\ T[1] = c /\ T[2] = "OK" /\ T[3] = "boot" /\ T[4] = "ready"
      /\ Kind(p, k) = "at" /\ c \in Talkative =>
           Len(T) = 3 /\ T[1] = c /\ T[2] = "info" /\ T[3] = "OK"
      /\ Kind(p, k) = "at" /\ c \notin Talkative => Len(T) = 2 /\ T[1] = c /\ T[2] = "OK"
      /\ Kind(p, k) = "link" => Len(T) = 3 /\ T[1] = c /\ T[2] = "CONNECT" /\ T[3] = "OK"
      /\ Kind(p, k) = "send" =>
           Len(T) = 5 /\ T[1] = c /\ T[2] = "OK" /\ T[3] = ">" /\ T[4] = "Recv" /\ T[5] = "SENT"
      /\ Kind(p, k) \notin Commanding => Len(T) = 0
  BY Answers
<1> HIDE DEF T, c
<1> DEFINE P == {w \in Words : w # "eol" /\ w # "+IPD" /\ w # ">"}
<1>5. /\ "OK" \in P /\ "boot" \in P /\ "ready" \in P /\ "info" \in P /\ "CONNECT" \in P
      /\ "Recv" \in P /\ "SENT" \in P /\ ">" \in Words /\ (Kind(p, k) \in Commanding => c \in P)
  BY <1>2, <1>3 DEF Words
<1>6. \A w \in P : w \in Words /\ w # "eol" /\ w # "+IPD" /\ w # ">"
  OBVIOUS
<1> HIDE DEF P
<1>7. /\ Len(T) \in Nat
      /\ \A i \in 1 .. Len(T) : T[i] \in P \/ (T[i] = ">" /\ Kind(p, k) = "send" /\ i = 3)
      /\ Kind(p, k) = "send" => T[3] = ">"
      /\ Kind(p, k) \in Commanding => Len(T) >= 2 /\ T[1] = c
  <2>1. CASE Kind(p, k) = "reset"
    <3>1. Len(T) = 4 /\ c \in P /\ \A i \in 1 .. 4 : i = 1 \/ i = 2 \/ i = 3 \/ i = 4
      BY <1>4, <1>5, <2>1 DEF Commanding
    <3>2. QED BY <1>4, <1>5, <2>1, <3>1 DEF Commanding
  <2>2. CASE Kind(p, k) = "at" /\ c \in Talkative
    <3>1. Len(T) = 3 /\ c \in P /\ \A i \in 1 .. 3 : i = 1 \/ i = 2 \/ i = 3
      BY <1>4, <1>5, <2>2 DEF Commanding
    <3>2. QED BY <1>4, <1>5, <2>2, <3>1 DEF Commanding
  <2>3. CASE Kind(p, k) = "at" /\ c \notin Talkative
    <3>1. Len(T) = 2 /\ c \in P /\ \A i \in 1 .. 2 : i = 1 \/ i = 2
      BY <1>4, <1>5, <2>3 DEF Commanding
    <3>2. QED BY <1>4, <1>5, <2>3, <3>1 DEF Commanding
  <2>4. CASE Kind(p, k) = "link"
    <3>1. Len(T) = 3 /\ c \in P /\ \A i \in 1 .. 3 : i = 1 \/ i = 2 \/ i = 3
      BY <1>4, <1>5, <2>4 DEF Commanding
    <3>2. QED BY <1>4, <1>5, <2>4, <3>1 DEF Commanding
  <2>5. CASE Kind(p, k) = "send"
    <3>1. Len(T) = 5 /\ c \in P /\ \A i \in 1 .. 5 : i = 1 \/ i = 2 \/ i = 3 \/ i = 4 \/ i = 5
      BY <1>4, <1>5, <2>5 DEF Commanding
    <3>2. QED BY <1>4, <1>5, <2>5, <3>1 DEF Commanding
  <2>6. CASE Kind(p, k) \notin Commanding
    BY <1>4, <2>6 DEF Commanding
  <2>7. QED BY <2>1, <2>2, <2>3, <2>4, <2>5, <2>6 DEF Commanding
<1>8. /\ \A i \in 1 .. Len(T) :
           /\ T[i] \in Words /\ T[i] # "eol" /\ T[i] # "+IPD"
           /\ T[i] = ">" <=> (Kind(p, k) = "send" /\ i = 3)
  BY <1>5, <1>6, <1>7
<1>9. QED BY <1>2, <1>3, <1>7, <1>8, Zenon DEF T, c

-----------------------------------------------------------------------------
(* What the esp prints and what the program reads, without the places.     *)

Longest(p, k, J, W, l, s, r, n, x) ==
  /\ Longer(J, Answer(p, k), r, n, x) /\ Len(J) \in Nat /\ Len(W) = 0
  /\ \E f : Connects(p, k, l, s, f, x) /\ (p = "server" /\ k = 10 => x = 0)

LEMMA LongerStaged ==
  ASSUME NEW p, NEW k, NEW J, NEW W, NEW l, NEW s, NEW r, NEW n, NEW x,
         Longest(p, k, J, W, l, s, r, n, x)
  PROVE  Staged(p, k, J, W, l, s, r, n)
<1> DEFINE T == Answer(p, k)
<1>1. Longer(J, T, r, n, x) /\ Len(J) \in Nat /\ Len(W) = 0
  BY Zenon DEF Longest
<1>2. PICK f : Connects(p, k, l, s, f, x) /\ (p = "server" /\ k = 10 => x = 0)
  BY Zenon DEF Longest
<1>3. PICK g : LineUp(J, Len(J), T, g, r, n, x)
  BY <1>1, Zenon DEF Longer
<1> HIDE DEF T
<1>4. Len(J) - Len(W) = Len(J) /\ Len(J) = Len(J) + Len(W) /\ 1 .. Len(W) = {}
  BY <1>1
<1>5. x \in Nat /\ g \in [Int -> Int]
  BY <1>3, Zenon DEF LineUp
<1>6. Ends(J, Len(J), W)
  BY <1>4 DEF Ends
<1>7. Connects(p, k, l, s, g, x)
  BY <1>2, Zenon DEF Connects
<1>8. QED BY <1>3, <1>4, <1>5, <1>6, <1>7, Zenon DEF Staged, T

More(p, k, I, W, l, s, r, m, n, L, J) ==
  /\ p \in Progs /\ k \in Places(p) /\ Staged(p, k, I, W, l, s, r, m) /\ Len(I) \in Nat /\ Len(W) = 0
  /\ n = m + 1 /\ n <= Len(Answer(p, k)) /\ (p = "server" /\ k = 10 => ~l) /\ Extended(I, L, J)

\* The esp prints the next line of its answer.
LEMMA MoreLine ==
  ASSUME NEW p, NEW k, NEW I, NEW W, NEW l, NEW s, NEW r, NEW m, NEW n, NEW L, NEW J,
         More(p, k, I, W, l, s, r, m, n, L, J),
         Len(L) = 3, L[1] = Answer(p, k)[n], L[2] = "eol", L[3] = "eol"
  PROVE  Staged(p, k, J, W, l, s, r, n)
<1> DEFINE T == Answer(p, k)
           e == Len(I)
<1>1. /\ p \in Progs /\ k \in Places(p) /\ Staged(p, k, I, W, l, s, r, m) /\ e \in Nat /\ Len(W) = 0
      /\ n = m + 1 /\ n <= Len(T) /\ (p = "server" /\ k = 10 => ~l) /\ Extended(I, L, J)
  BY Zenon DEF More
<1>2. PICK x \in Nat, f \in [Int -> Int] : LineUp(I, e - Len(W), T, f, r, m, x) /\ Connects(p, k, l, s, f, x)
  BY <1>1, Zenon DEF Staged
<1>3. Len(T) \in Nat
  BY <1>1, AnswerLines
<1> HIDE DEF T, e
<1>4. e - Len(W) = e /\ m \in Nat
  BY <1>1, <1>2 DEF LineUp
<1>5. AddsLine(I, J, T, e, f, r, m, n, x, L)
  <2>1. m < Len(T)
    BY <1>1, <1>3, <1>4
  <2>2. e = Len(I) /\ L[1] = T[n]
    BY DEF e, T
  <2>3. QED BY <1>1, <1>2, <1>3, <1>4, <2>1, <2>2, Zenon DEF AddsLine
<1>6. Longer(J, T, r, n, x)
  BY <1>5, AddLine
<1>7. Len(J) \in Nat
  BY <1>1 DEF Extended, e
<1>8. p = "server" /\ k = 10 => x = 0
  BY <1>1, <1>2 DEF Connects
<1>9. Longest(p, k, J, W, l, s, r, n, x)
  BY <1>1, <1>2, <1>6, <1>7, <1>8, Zenon DEF Longest, T
<1>10. QED BY <1>9, LongerStaged

\* It prompts for the data.
LEMMA MorePrompt ==
  ASSUME NEW p, NEW k, NEW I, NEW W, NEW l, NEW s, NEW r, NEW m, NEW n, NEW L, NEW J,
         More(p, k, I, W, l, s, r, m, n, L, J),
         Len(L) = 1, L[1] = ">", Answer(p, k)[n] = ">"
  PROVE  Staged(p, k, J, W, l, s, r, n)
<1> DEFINE T == Answer(p, k)
           e == Len(I)
<1>1. /\ p \in Progs /\ k \in Places(p) /\ Staged(p, k, I, W, l, s, r, m) /\ e \in Nat /\ Len(W) = 0
      /\ n = m + 1 /\ n <= Len(T) /\ (p = "server" /\ k = 10 => ~l) /\ Extended(I, L, J)
  BY Zenon DEF More
<1>2. PICK x \in Nat, f \in [Int -> Int] : LineUp(I, e - Len(W), T, f, r, m, x) /\ Connects(p, k, l, s, f, x)
  BY <1>1, Zenon DEF Staged
<1>3. Len(T) \in Nat
  BY <1>1, AnswerLines
<1> HIDE DEF T, e
<1>4. e - Len(W) = e /\ m \in Nat
  BY <1>1, <1>2 DEF LineUp
<1>5. AddsPrompt(I, J, T, e, f, r, m, n, x, L)
  <2>1. m < Len(T)
    BY <1>1, <1>3, <1>4
  <2>2. e = Len(I) /\ T[n] = ">"
    BY DEF e, T
  <2>3. QED BY <1>1, <1>2, <1>3, <1>4, <2>1, <2>2, Zenon DEF AddsPrompt
<1>6. Longer(J, T, r, n, x)
  BY <1>5, AddPrompt
<1>7. Len(J) \in Nat
  BY <1>1 DEF Extended, e
<1>8. p = "server" /\ k = 10 => x = 0
  BY <1>1, <1>2 DEF Connects
<1>9. Longest(p, k, J, W, l, s, r, n, x)
  BY <1>1, <1>2, <1>6, <1>7, <1>8, Zenon DEF Longest, T
<1>10. QED BY <1>9, LongerStaged

\* It passes on a message.
LEMMA MoreMessage ==
  ASSUME NEW p, NEW k, NEW I, NEW V, NEW l, NEW s, NEW r, NEW m, NEW L, NEW J, NEW W,
         Staged(p, k, I, V, l, s, r, m), Len(I) \in Nat, Len(V) = 0, Len(W) \in Nat,
         Len(L) = 1 + Len(W), L[1] = "eol", \A i \in 1 .. Len(W) : L[i + 1] = W[i], Extended(I, L, J)
  PROVE  Staged(p, k, J, W, l, s, r, m)
<1> DEFINE T == Answer(p, k)
           e == Len(I)
<1>1. PICK x \in Nat, f \in [Int -> Int] : LineUp(I, e - Len(V), T, f, r, m, x) /\ Connects(p, k, l, s, f, x)
  BY Zenon DEF Staged
<1> HIDE DEF T
<1>2. e - Len(V) = e
  OBVIOUS
<1>3. LineUp(I, e, T, f, r, m, x)
  BY <1>1, <1>2, Zenon
<1>4. AddsMessage(I, J, T, e, f, r, m, x, L, W)
  BY <1>3, Zenon DEF AddsMessage
<1>5. Followed(J, T, f, r, m, x, W)
  BY <1>4, AddMessage
<1>6. PICK b : Len(J) = b + Len(W) /\ b \in Nat /\ LineUp(J, b, T, f, r, m, x) /\ Ends(J, b, W)
  BY <1>5, Zenon DEF Followed
<1>7. b = Len(J) - Len(W)
  BY <1>6
<1>8. QED BY <1>1, <1>6, <1>7, Zenon DEF Staged, T

GetsConnect(p, k, I, W, l, s, r, m, L, J) ==
  /\ p = "server" /\ k \in Nat /\ Staged(p, k, I, W, l, s, r, m) /\ Len(I) \in Nat /\ Len(W) = 0 /\ ~l
  /\ k <= 16 /\ (k = 10 => r <= 1 /\ m >= 2)
  /\ Len(L) = 3 /\ L[1] = "CONNECT" /\ L[2] = "eol" /\ L[3] = "eol" /\ Extended(I, L, J)
IsLinked(p, k, J, W, z, r, m) == Staged(p, k, J, W, TRUE, z, r, m)
\* It tells the server of the connection.
LEMMA MoreConnect ==
  ASSUME NEW p, NEW k, NEW I, NEW W, NEW l, NEW s, NEW r, NEW m, NEW L, NEW J, NEW z,
         GetsConnect(p, k, I, W, l, s, r, m, L, J)
  PROVE  IsLinked(p, k, J, W, z, r, m)
<1> SUFFICES ASSUME p = "server", k \in Nat, Staged(p, k, I, W, l, s, r, m), Len(I) \in Nat, Len(W) = 0, ~l,
                    k <= 16, k = 10 => r <= 1 /\ m >= 2,
                    Len(L) = 3, L[1] = "CONNECT", L[2] = "eol", L[3] = "eol", Extended(I, L, J)
             PROVE  Staged(p, k, J, W, TRUE, z, r, m)
  BY Zenon DEF GetsConnect, IsLinked
<1> DEFINE T == Answer(p, k)
<1>0. PICK e : e = Len(I) /\ e \in Nat
  OBVIOUS
<1>1. PICK x \in Nat, f \in [Int -> Int] : LineUp(I, e - Len(W), T, f, r, m, x) /\ Connects(p, k, l, s, f, x)
  BY <1>0, Zenon DEF Staged
<1> HIDE DEF T
<1>2. e - Len(W) = e
  BY <1>0
<1>3. x = 0
  BY <1>1, Zenon DEF Connects
<1>4. AddsConnect(I, J, T, e, f, r, m, x, L)
  BY <1>0, <1>1, <1>2, <1>3, Zenon DEF AddsConnect
<1>5. Connected(J, T, e, f, r, m)
  BY <1>4, AddConnect
<1>6. LineUp(J, Len(J), T, f, r, m, e + 1) /\ Len(J) = e + 3 /\ \A i \in r + 1 .. m : f[i] < e + 1
  BY <1>5, Zenon DEF Connected
<1>7. /\ Len(J) - Len(W) = Len(J) /\ Len(J) = Len(J) + Len(W) /\ 1 .. Len(W) = {} /\ e + 1 \in Nat
      /\ e + 1 # 0
  <2>1. Len(J) = e + 3 /\ e \in Nat
    BY <1>0, <1>6
  <2>2. Len(J) \in Nat /\ e + 1 \in Nat /\ e + 1 # 0
    BY <2>1
  <2>3. QED BY <2>2
<1>8. Ends(J, Len(J), W)
  BY <1>7 DEF Ends
<1>9. r \in Nat /\ m \in Nat
  BY <1>1, Zenon DEF LineUp
<1>10. k = 10 => f[2] < e + 1
  BY <1>6, <1>9
<1>11. p # "client"
  OBVIOUS
<1>12. Connects(p, k, TRUE, z, f, e + 1)
  BY <1>7, <1>10, <1>11, Zenon DEF Connects
<1>13. QED BY <1>1, <1>6, <1>7, <1>8, <1>12, Zenon DEF Staged, T

Drops(I, J, q, d) ==
  d \in Nat /\ d >= q /\ d <= Len(I) /\ (\A i \in q + 1 .. d : I[i] = "eol") /\ Dropped(I, d, J)
Unconnected(p, k, J, W, r, m) ==
  \E f \in [Int -> Int] : LineUp(J, Len(J) - Len(W), Answer(p, k), f, r, m, 0) /\ Ends(J, Len(J) - Len(W), W)

AtFront(p, k, I, W, l, s, r, m, q) ==
  /\ p \in Progs /\ k \in Places(p) /\ Staged(p, k, I, W, l, s, r, m) /\ Len(I) \in Nat /\ Len(W) \in Nat
  /\ Len(W) > 0 => W[1] # "eol"
  /\ FirstAt(I, q) /\ (r < m \/ Len(W) = 0)
FrontConnect(p, k, I, W, l, r, m, q) ==
  /\ p = "server" /\ l /\ k <= 16 /\ I[q] = "CONNECT" /\ q + 1 <= Len(I) /\ I[q + 1] = "eol"
  /\ k = 10 => 2 \notin r + 1 .. m
  /\ \A J, d : Drops(I, J, q, d) => Unconnected(p, k, J, W, r, m)
FrontItem(p, k, I, W, l, s, r, m, q) ==
  /\ r < m /\ I[q] = Answer(p, k)[r + 1]
  /\ Answer(p, k)[r + 1] # ">" => q + 1 <= Len(I) /\ I[q + 1] = "eol"
  /\ \A J, d : Drops(I, J, q, d) => Staged(p, k, J, W, l, s, r + 1, m)

\* The connection is read and dropped.
LEMMA FrontIsConnect ==
  ASSUME NEW p, NEW k \in Nat, NEW I, NEW W, NEW l, NEW s, NEW e \in Nat, NEW f, NEW r, NEW m, NEW x, NEW q,
         p \in Progs, Len(I) \in Nat, Len(W) \in Nat, Len(W) > 0 => W[1] # "eol", e <= Len(I),
         \A i \in 1 .. m : Answer(p, k)[i] # "eol",
         LineUp(I, e, Answer(p, k), f, r, m, x), Ends(I, e, W), Connects(p, k, l, s, f, x),
         WithConnect(I, e, f, r, m, x, q)
  PROVE  FrontConnect(p, k, I, W, l, r, m, q)
<1> DEFINE T == Answer(p, k)
<1>1. x # 0 /\ q = x /\ I[q] = "CONNECT" /\ q + 1 \in 1 .. e /\ I[q + 1] = "eol" /\ \A i \in r + 1 .. m : f[i] > q
  BY Zenon DEF WithConnect
<1>2. p = "server" /\ l /\ k <= 16 /\ (k = 10 => f[2] < x)
  BY <1>1 DEF Connects, Progs
<1>3. q \in Nat /\ q + 1 <= Len(I) /\ f \in [Int -> Int] /\ x \in Nat
  <2>1. x \in Nat /\ f \in [Int -> Int]
    BY Zenon DEF LineUp
  <2>2. x + 1 \in 1 .. e
    BY <1>1, Zenon
  <2>3. x + 1 <= Len(I)
    BY <2>1, <2>2
  <2>4. QED BY <1>1, <2>1, <2>3, Zenon
<1>4. k = 10 => 2 \notin r + 1 .. m
  <2>1. f[2] \in Int
    BY <1>3
  <2>2. QED BY <1>1, <1>2, <1>3, <2>1
<1>5. ASSUME NEW J, NEW d, Drops(I, J, q, d) PROVE Unconnected(p, k, J, W, r, m)
  <2>1. d \in Nat /\ d >= q /\ d <= Len(I) /\ (\A i \in q + 1 .. d : I[i] = "eol") /\ Dropped(I, d, J)
    BY <1>5, Zenon DEF Drops
  <2>2. DropsConnect(I, J, T, W, e, f, r, m, x, q, d)
    BY <1>1, <2>1, Zenon DEF DropsConnect
  <2>3. ConnectDropped(J, T, W, r, m)
    BY <2>2, DropConnect
  <2>4. PICK g : LineUp(J, Len(J) - Len(W), T, g, r, m, 0) /\ Ends(J, Len(J) - Len(W), W)
    BY <2>3, Zenon DEF ConnectDropped
  <2>5. g \in [Int -> Int]
    BY <2>4, Zenon DEF LineUp
  <2>6. QED BY <2>4, <2>5, Zenon DEF Unconnected
<1>6. QED BY <1>1, <1>2, <1>3, <1>4, <1>5, Zenon DEF FrontConnect

\* The next line of the answer is read and dropped.
LEMMA FrontIsItem ==
  ASSUME NEW p, NEW k \in Nat, NEW I, NEW W, NEW l, NEW s, NEW e \in Nat, NEW f, NEW r, NEW m, NEW x, NEW q,
         p \in Progs, Len(I) \in Nat, Len(W) \in Nat, Len(W) > 0 => W[1] # "eol", e <= Len(I),
         \A i \in 1 .. m : Answer(p, k)[i] # "eol",
         LineUp(I, e, Answer(p, k), f, r, m, x), Ends(I, e, W), Connects(p, k, l, s, f, x),
         WithItem(I, Answer(p, k), e, f, r, m, x, q)
  PROVE  FrontItem(p, k, I, W, l, s, r, m, q)
<1> DEFINE T == Answer(p, k)
<1>1. /\ r < m /\ q = f[r + 1] /\ I[q] = T[r + 1] /\ (x # 0 => x > q) /\ \A i \in r + 2 .. m : f[i] > q
      /\ T[r + 1] # ">" => q + 1 \in 1 .. e /\ I[q + 1] = "eol"
  BY Zenon DEF WithItem
<1>2. T[r + 1] # ">" => q + 1 <= Len(I) /\ I[q + 1] = "eol"
  <2>1. ASSUME T[r + 1] # ">" PROVE q + 1 <= Len(I)
    <3>1. q + 1 \in 1 .. e
      BY <1>1, <2>1
    <3>2. QED BY <3>1
  <2>2. QED BY <1>1, <2>1
<1>3. ASSUME NEW J, NEW d, Drops(I, J, q, d) PROVE Staged(p, k, J, W, l, s, r + 1, m)
  <2>1. d \in Nat /\ d >= q /\ d <= Len(I) /\ (\A i \in q + 1 .. d : I[i] = "eol") /\ Dropped(I, d, J)
    BY <1>3, Zenon DEF Drops
  <2>2. DropsItem(I, J, T, W, e, f, r, m, x, q, d)
    BY <1>1, <2>1, Zenon DEF DropsItem
  <2>3. ItemDropped(J, T, W, f, r, m, x)
    BY <2>2, DropItem
  <2>4. PICK g, y : /\ LineUp(J, Len(J) - Len(W), T, g, r + 1, m, y) /\ Ends(J, Len(J) - Len(W), W)
                    /\ y # 0 <=> x # 0
                    /\ \A i \in Int : x # 0 /\ f[i] < x => g[i] < y
    BY <2>3, Zenon DEF ItemDropped
  <2>5. g \in [Int -> Int] /\ y \in Nat
    BY <2>4, Zenon DEF LineUp
  <2>6. Connects(p, k, l, s, g, y)
    <3>1. 2 \in Int /\ (p = "client" => x = 0)
      BY DEF Connects
    <3>2. p = "client" => y = 0
      BY <2>4, <3>1, Zenon
    <3>3. QED BY <2>4, <3>1, <3>2, Zenon DEF Connects
  <2>7. QED BY <2>4, <2>5, <2>6, Zenon DEF Staged
<1>4. QED BY <1>1, <1>2, <1>3, Zenon DEF FrontItem

\* What is read first.
LEMMA FrontIs ==
  ASSUME NEW p, NEW k, NEW I, NEW W, NEW l, NEW s, NEW r, NEW m, NEW q, AtFront(p, k, I, W, l, s, r, m, q)
  PROVE  FrontConnect(p, k, I, W, l, r, m, q) \/ FrontItem(p, k, I, W, l, s, r, m, q)
<1> DEFINE T == Answer(p, k)
<1>1. /\ p \in Progs /\ k \in Places(p) /\ Staged(p, k, I, W, l, s, r, m) /\ Len(I) \in Nat /\ Len(W) \in Nat
      /\ Len(W) > 0 => W[1] # "eol"
      /\ FirstAt(I, q) /\ (r < m \/ Len(W) = 0)
  BY Zenon DEF AtFront
<1>2. PICK x \in Nat, f \in [Int -> Int] :
        LineUp(I, Len(I) - Len(W), T, f, r, m, x) /\ Ends(I, Len(I) - Len(W), W) /\ Connects(p, k, l, s, f, x)
  BY <1>1, Zenon DEF Staged
<1>3. PICK e : e = Len(I) - Len(W)
  OBVIOUS
<1>4. LineUp(I, e, T, f, r, m, x) /\ Ends(I, e, W)
  BY <1>2, <1>3, Zenon
<1>5. e \in Nat /\ r \in Nat /\ m \in Nat /\ m <= Len(T)
  BY <1>4, Zenon DEF LineUp
<1>6. k \in Nat /\ e <= Len(I)
  <2>1. k \in Nat
    BY <1>1, Sizes DEF Places
  <2>2. QED BY <1>1, <1>3, <2>1
<1>7. \A i \in 1 .. m : T[i] # "eol"
  <2>1. \A i \in 1 .. Len(T) : T[i] # "eol"
    BY <1>1, AnswerLines
  <2>2. Len(T) \in Nat
    BY <1>1, AnswerLines
  <2>3. QED BY <1>5, <2>1, <2>2
<1>8. q <= e
  <2>1. CASE Len(W) = 0
    <3>1. q \in 1 .. Len(I) /\ e = Len(I)
      BY <1>1, <1>3, <2>1 DEF FirstAt
    <3>2. QED BY <3>1
  <2>2. CASE r < m
    <3>1. r + 1 \in r + 1 .. m /\ r + 1 \in 1 .. m
      BY <1>5, <2>2
    <3>2. f[r + 1] \in 1 .. e /\ I[f[r + 1]] = T[r + 1]
      BY <1>4, <3>1 DEF LineUp
    <3>3. f[r + 1] \notin 1 .. q - 1
      BY <1>1, <1>7, <3>1, <3>2 DEF FirstAt
    <3>4. q \in Int
      BY <1>1 DEF FirstAt
    <3>5. ASSUME NEW y \in 1 .. e, y \notin 1 .. q - 1 PROVE q <= e
      BY <1>5, <3>4, <3>5
    <3>6. QED BY <3>2, <3>3, <3>5, Zenon
  <2>3. QED BY <1>1, <2>1, <2>2
<1>9. Begins(I, T, e, f, r, m, x, q)
  BY <1>1, <1>4, <1>5, <1>6, <1>7, <1>8, Zenon DEF Begins
<1>10. WithConnect(I, e, f, r, m, x, q) \/ WithItem(I, T, e, f, r, m, x, q)
  BY <1>9, FirstItem
<1>11. CASE WithConnect(I, e, f, r, m, x, q)
  BY <1>1, <1>2, <1>4, <1>5, <1>6, <1>7, <1>11, FrontIsConnect, Zenon
<1>12. CASE WithItem(I, T, e, f, r, m, x, q)
  BY <1>1, <1>2, <1>4, <1>5, <1>6, <1>7, <1>12, FrontIsItem, Zenon
<1>13. QED BY <1>10, <1>11, <1>12

\* Bounds of places.
LEMMA Within ==
  /\ \A n \in Nat, e \in Nat : e <= n =>
       \A i \in 1 .. e : i \in 1 .. n /\ (i < e => i + 1 \in 1 .. n)
  /\ \A n \in Nat, e \in Nat : e <= n => \A i \in 1 .. e - 1 : i \in 1 .. n /\ i + 1 \in 1 .. n
  /\ \A k \in Nat : k # 16 => (k <= 16 => k + 1 <= 16) /\ (k + 1 <= 16 => k <= 16) /\ (k + 1 = 10 => k = 9)
OBVIOUS

\* Nothing has been read or printed of the next call's answer.
LEMMA NoneYet ==
  ASSUME NEW I, NEW T, NEW e, NEW f, NEW m, NEW x, NEW U, LineUp(I, e, T, f, m, m, x), Len(U) \in Nat
  PROVE  LineUp(I, e, U, f, 0, 0, x)
<1>1. e \in Nat /\ m \in Nat /\ x \in Nat /\ f \in [Int -> Int]
  BY Zenon DEF LineUp
<1>2. m + 1 .. m = {} /\ 0 + 1 .. 0 = {} /\ 0 \in Nat /\ 0 <= 0 /\ 0 <= Len(U)
  BY <1>1
<1>3. \A k \in 1 .. e : I[k] = "eol" \/ k = x
  BY <1>2, Zenon DEF LineUp
<1>4. x # 0 => /\ x \in 1 .. e - 1 /\ I[x] = "CONNECT" /\ I[x + 1] = "eol"
  BY Zenon DEF LineUp
<1>5. QED BY <1>1, <1>2, <1>3, <1>4, Zenon DEF LineUp

LEMMA NextCall ==
  ASSUME NEW p, NEW k \in Nat, NEW n, NEW I, NEW W, NEW l, NEW s, NEW m,
         Staged(p, k, I, W, l, s, m, m), n = k + 1, Len(Answer(p, n)) \in Nat,
         p = "server" => k # 16 /\ (k = 9 => ~l)
  PROVE  Staged(p, n, I, W, l, s, 0, 0)
<1>1. PICK x \in Nat, f \in [Int -> Int] :
        /\ LineUp(I, Len(I) - Len(W), Answer(p, k), f, m, m, x) /\ Ends(I, Len(I) - Len(W), W)
        /\ Connects(p, k, l, s, f, x)
  BY Zenon DEF Staged
<1>2. LineUp(I, Len(I) - Len(W), Answer(p, n), f, 0, 0, x)
  BY <1>1, NoneYet, Zenon
<1>3. Connects(p, n, l, s, f, x)
  <2>1. p = "server" => (k <= 16 => n <= 16) /\ (n <= 16 => k <= 16) /\ (n = 10 => k = 9)
    <3>1. k # 16 => (k <= 16 => k + 1 <= 16) /\ (k + 1 <= 16 => k <= 16) /\ (k + 1 = 10 => k = 9)
      BY Within, Zenon
    <3>2. QED BY <3>1, Zenon
  <2>2. QED BY <1>1, <2>1, Zenon DEF Connects
<1>4. QED BY <1>1, <1>2, <1>3, Zenon DEF Staged

LEMMA NextFromConn ==
  ASSUME NEW p, NEW k, NEW n \in Nat, NEW I, NEW W, NEW l, NEW s, NEW m,
         Unconnected(p, k, I, W, m, m), Len(Answer(p, n)) \in Nat, n > 16
  PROVE  Staged(p, n, I, W, l, s, 0, 0)
<1>1. PICK f \in [Int -> Int] :
        /\ LineUp(I, Len(I) - Len(W), Answer(p, k), f, m, m, 0) /\ Ends(I, Len(I) - Len(W), W)
  BY Zenon DEF Unconnected
<1>2. PICK x : x = 0
  OBVIOUS
<1>3. LineUp(I, Len(I) - Len(W), Answer(p, k), f, m, m, x)
  BY <1>1, <1>2, Zenon
<1>4. LineUp(I, Len(I) - Len(W), Answer(p, n), f, 0, 0, x)
  BY <1>3, NoneYet, Zenon
<1>5. Connects(p, n, l, s, f, x) /\ x \in Nat
  <2>1. ~(n <= 16) /\ n # 10
    OBVIOUS
  <2>2. QED BY <1>2, <2>1 DEF Connects
<1>6. QED BY <1>1, <1>4, <1>5, Zenon DEF Staged

\* The server skips the connection.
LEMMA Missed ==
  ASSUME NEW p, NEW k, NEW I, NEW W, NEW l, NEW r, NEW m, p = "server", Unconnected(p, k, I, W, r, m)
  PROVE  Staged(p, k, I, W, l, TRUE, r, m)
<1>1. PICK f \in [Int -> Int] :
        /\ LineUp(I, Len(I) - Len(W), Answer(p, k), f, r, m, 0) /\ Ends(I, Len(I) - Len(W), W)
  BY Zenon DEF Unconnected
<1>2. Connects(p, k, l, TRUE, f, 0) /\ 0 \in Nat
  BY DEF Connects
<1>3. QED BY <1>1, <1>2, Zenon DEF Staged

\* The connection is no part of the client's input.
LEMMA ClientStaged ==
  ASSUME NEW p, NEW k, NEW I, NEW W, NEW l, NEW s, NEW r, NEW m, NEW y, NEW z, p = "client",
         Staged(p, k, I, W, l, s, r, m)
  PROVE  Staged(p, k, I, W, y, z, r, m)
<1>1. PICK x \in Nat, f \in [Int -> Int] :
        /\ LineUp(I, Len(I) - Len(W), Answer(p, k), f, r, m, x) /\ Ends(I, Len(I) - Len(W), W)
        /\ Connects(p, k, l, s, f, x)
  BY Zenon DEF Staged
<1>2. Connects(p, k, y, z, f, x)
  BY <1>1 DEF Connects
<1>3. QED BY <1>1, <1>2, Zenon DEF Staged

\* When all was read, only ends of lines and the server's connection are left.
LEMMA AllRead ==
  ASSUME NEW p, NEW k, NEW I, NEW W, NEW l, NEW s, NEW m, p \in Progs,
         Staged(p, k, I, W, l, s, m, m), Len(I) \in Nat, Len(W) = 0
  PROVE  \A i \in 1 .. Len(I) : I[i] = "eol" \/ (p = "server" /\ I[i] = "CONNECT")
<1>1. PICK x \in Nat, f \in [Int -> Int] :
        LineUp(I, Len(I) - Len(W), Answer(p, k), f, m, m, x) /\ Connects(p, k, l, s, f, x)
  BY Zenon DEF Staged
<1>2. Len(I) - Len(W) = Len(I)
  OBVIOUS
<1>3. m \in Nat /\ \A i \in 1 .. Len(I) : I[i] = "eol" \/ i = x \/ \E j \in m + 1 .. m : f[j] = i
  BY <1>1, <1>2, Zenon DEF LineUp
<1>4. m + 1 .. m = {}
  BY <1>3
<1>5. x # 0 => I[x] = "CONNECT"
  BY <1>1, Zenon DEF LineUp
<1>6. p # "client" => p = "server"
  BY DEF Progs
<1>7. p = "client" => x = 0
  BY <1>1, Zenon DEF Connects
<1>8. \A i \in 1 .. Len(I) : i # 0
  OBVIOUS
<1>9. QED BY <1>3, <1>4, <1>5, <1>6, <1>7, <1>8

\* A line that was printed and not read is in the input.
Unread(p, k, I, W, l, s, r, m) == Staged(p, k, I, W, l, s, r, m) /\ Len(I) \in Nat /\ Len(W) \in Nat /\ r < m
HasLine(I, t) == \E i \in 1 .. Len(I) : I[i] = t /\ (t # ">" => i + 1 \in 1 .. Len(I) /\ I[i + 1] = "eol")

LEMMA ItemThere ==
  ASSUME NEW p, NEW k, NEW I, NEW W, NEW l, NEW s, NEW r, NEW m, Unread(p, k, I, W, l, s, r, m)
  PROVE  HasLine(I, Answer(p, k)[r + 1])
<1>0. Staged(p, k, I, W, l, s, r, m) /\ Len(I) \in Nat /\ Len(W) \in Nat /\ r < m
  BY Zenon DEF Unread
<1>1. PICK x \in Nat, f \in [Int -> Int] :
        LineUp(I, Len(I) - Len(W), Answer(p, k), f, r, m, x)
  BY <1>0, Zenon DEF Staged
<1> DEFINE T == Answer(p, k)
<1>2. PICK e : e = Len(I) - Len(W)
  OBVIOUS
<1>3. LineUp(I, e, T, f, r, m, x)
  BY <1>1, <1>2, Zenon
<1>4. e \in Nat /\ r \in Nat /\ m \in Nat
  BY <1>3, Zenon DEF LineUp
<1>5. r + 1 \in r + 1 .. m /\ e <= Len(I)
  BY <1>0, <1>2, <1>4
<1>6. f[r + 1] \in 1 .. e /\ I[f[r + 1]] = T[r + 1] /\ (T[r + 1] # ">" => f[r + 1] < e /\ I[f[r + 1] + 1] = "eol")
  BY <1>3, <1>5, Zenon DEF LineUp
<1> HIDE DEF T
<1>7. PICK i : i = f[r + 1]
  OBVIOUS
<1>8. i \in 1 .. e /\ I[i] = T[r + 1] /\ (T[r + 1] # ">" => i < e /\ I[i + 1] = "eol")
  BY <1>6, <1>7, Zenon
<1>9. i \in 1 .. Len(I) /\ (i < e => i + 1 \in 1 .. Len(I))
  <2>1. i \in 1 .. e /\ e \in Nat /\ e <= Len(I) /\ Len(I) \in Nat
    BY <1>0, <1>4, <1>5, <1>8, Zenon
  <2>2. QED BY <2>1, Within, Zenon
<1>10. QED BY <1>8, <1>9, Zenon DEF T, HasLine

\* So is the connection, until the server has skipped it or got it.
Unskipped(p, k, I, W, l, s, r, m) ==
  p = "server" /\ l /\ k <= 16 /\ ~s /\ Staged(p, k, I, W, l, s, r, m) /\ Len(I) \in Nat /\ Len(W) \in Nat

LEMMA ConnectThere ==
  ASSUME NEW p, NEW k, NEW I, NEW W, NEW l, NEW s, NEW r, NEW m, Unskipped(p, k, I, W, l, s, r, m)
  PROVE  \E i \in 1 .. Len(I) : I[i] # "eol" /\ i + 1 \in 1 .. Len(I) /\ I[i + 1] = "eol"
<1>1. PICK x \in Nat, f \in [Int -> Int] :
        LineUp(I, Len(I) - Len(W), Answer(p, k), f, r, m, x) /\ Connects(p, k, l, s, f, x)
  BY Zenon DEF Staged, Unskipped
<1>2. x # 0
  BY <1>1, Zenon DEF Connects, Unskipped
<1>3. PICK e : e = Len(I) - Len(W)
  OBVIOUS
<1>4. e \in Nat /\ x \in 1 .. e - 1 /\ I[x] = "CONNECT" /\ I[x + 1] = "eol"
  BY <1>1, <1>2, <1>3, Zenon DEF LineUp
<1>5. x \in 1 .. Len(I) /\ x + 1 \in 1 .. Len(I)
  <2>1. Len(I) \in Nat /\ Len(W) \in Nat
    BY Zenon DEF Unskipped
  <2>2. x \in 1 .. e - 1 /\ e \in Nat /\ e <= Len(I)
    BY <1>3, <1>4, <2>1
  <2>3. QED BY <2>1, <2>2, Within, Zenon
<1>6. "CONNECT" # "eol"
  OBVIOUS
<1>7. QED BY <1>4, <1>5, <1>6, Zenon

\* A message that waits ends the input.
LEMMA MessageThere ==
  ASSUME NEW p, NEW k, NEW I, NEW W, NEW l, NEW s, NEW r, NEW m,
         Staged(p, k, I, W, l, s, r, m), Len(I) \in Nat, Len(W) \in Nat
  PROVE  /\ Len(I) - Len(W) \in Nat /\ r \in Nat /\ m \in Nat /\ r <= m /\ m <= Len(Answer(p, k))
         /\ \A i \in 1 .. Len(W) : I[(Len(I) - Len(W)) + i] = W[i]
BY Zenon DEF Staged, LineUp, Ends

\* When nothing else is left, the message comes first.
LEMMA MessageFirst ==
  ASSUME NEW p, NEW k \in Nat, NEW I, NEW W, NEW l, NEW s, NEW m, NEW q, p = "server" => k > 16,
         Staged(p, k, I, W, l, s, m, m), Len(I) \in Nat, Len(W) \in Nat, p \in Progs,
         Len(W) > 0, W[1] # "eol", FirstAt(I, q)
  PROVE  q = (Len(I) - Len(W)) + 1
<1>1. PICK x \in Nat, f \in [Int -> Int] :
        /\ LineUp(I, Len(I) - Len(W), Answer(p, k), f, m, m, x) /\ Ends(I, Len(I) - Len(W), W)
        /\ Connects(p, k, l, s, f, x)
  BY Zenon DEF Staged
<1>2. PICK e : e = Len(I) - Len(W)
  OBVIOUS
<1>3. e \in Nat /\ m \in Nat /\ \A i \in 1 .. e : I[i] = "eol" \/ i = x \/ \E j \in m + 1 .. m : f[j] = i
  BY <1>1, <1>2, Zenon DEF LineUp
<1>4. m + 1 .. m = {}
  BY <1>3
<1>5. x = 0
  <2>1. k > 16 => ~(k <= 16)
    OBVIOUS
  <2>2. QED BY <1>1, <2>1 DEF Connects, Progs
<1>6. \A i \in 1 .. e : I[i] = "eol"
  BY <1>3, <1>4, <1>5
<1>7. e + 1 \in 1 .. Len(I) /\ I[e + 1] = W[1]
  <2>1. 1 \in 1 .. Len(W) /\ Len(I) = e + Len(W)
    BY <1>1, <1>2 DEF Ends
  <2>2. I[e + 1] = W[1]
    BY <1>1, <1>2, <2>1, Zenon DEF Ends
  <2>3. QED BY <1>3, <2>1, <2>2
<1>8. q \in 1 .. Len(I) /\ q \notin 1 .. e /\ ~(e + 1 < q)
  <2>1. q \in 1 .. Len(I) /\ I[q] # "eol" /\ \A i \in 1 .. q - 1 : I[i] = "eol"
    BY Zenon DEF FirstAt
  <2>2. ASSUME e + 1 < q PROVE FALSE
    <3>1. e + 1 \in 1 .. q - 1
      BY <1>3, <2>1, <2>2
    <3>2. QED BY <1>7, <2>1, <3>1
  <2>3. q \notin 1 .. e
    BY <1>6, <2>1
  <2>4. QED BY <2>1, <2>2, <2>3
<1>9. q = e + 1
  <2>1. q \in 1 .. Len(I) /\ e \in Nat /\ q \notin 1 .. e /\ ~(e + 1 < q)
    BY <1>3, <1>8
  <2>2. QED BY <2>1
<1>10. QED BY <1>2, <1>9

\* The input may be empty, or nothing but ends of lines.
LEMMA EolStaged ==
  ASSUME NEW p, NEW k \in Nat, NEW I, NEW W, NEW l, NEW s, p \in Progs, Len(I) \in Nat, Len(W) = 0,
         \A i \in 1 .. Len(I) : I[i] = "eol", Len(Answer(p, k)) \in Nat, p = "server" /\ l => k > 16
  PROVE  Staged(p, k, I, W, l, s, 0, 0)
<1> DEFINE f == [i \in Int |-> 0]
<1>1. PICK x \in Nat, e \in Nat : x = 0 /\ e = Len(I)
  OBVIOUS
<1>2. Len(I) - Len(W) = e /\ f \in [Int -> Int] /\ 0 + 1 .. 0 = {} /\ 0 <= 0 /\ 0 <= Len(Answer(p, k))
  BY <1>1
<1>3. 1 .. 0 = {}
  OBVIOUS
<1> HIDE DEF f
<1>4. LineUp(I, e, Answer(p, k), f, 0, 0, x)
  BY <1>1, <1>2 DEF LineUp
<1>5. Ends(I, e, W)
  BY <1>1, <1>3 DEF Ends
<1>6. Connects(p, k, l, s, f, x)
  <2>1. k > 16 => ~(k <= 16)
    OBVIOUS
  <2>2. QED BY <1>1, <2>1 DEF Connects
<1>7. QED BY <1>2, <1>4, <1>5, <1>6, Zenon DEF Staged

LEMMA EmptyStaged ==
  ASSUME NEW p, NEW k \in Nat, NEW I, NEW W, NEW l, NEW s, p \in Progs, Len(I) = 0, Len(W) = 0,
         Len(Answer(p, k)) \in Nat, p = "server" /\ l => k > 16
  PROVE  Staged(p, k, I, W, l, s, 0, 0)
<1>1. Len(I) \in Nat /\ \A i \in 1 .. Len(I) : I[i] = "eol"
  OBVIOUS
<1>2. QED BY <1>1, EolStaged

\* Where no answer has begun and no message waits, only ends of lines lie in
\* the input, the server's connection apart.
LEMMA StagedEol ==
  ASSUME NEW p \in Progs, NEW k, NEW I, NEW W, NEW l, NEW s, NEW r \in Nat, Len(I) \in Nat, Len(W) = 0,
         p = "server" => ~l, Staged(p, k, I, W, l, s, r, 0)
  PROVE  \A i \in 1 .. Len(I) : I[i] = "eol"
<1>1. PICK x \in Nat, f \in [Int -> Int] :
        /\ LineUp(I, Len(I) - Len(W), Answer(p, k), f, r, 0, x)
        /\ Connects(p, k, l, s, f, x)
  BY Zenon DEF Staged
<1>2. Len(I) - Len(W) = Len(I) /\ r + 1 .. 0 = {}
  OBVIOUS
<1>3. \A i \in 1 .. Len(I) : I[i] = "eol" \/ i = x \/ \E j \in r + 1 .. 0 : f[j] = i
  BY <1>1, <1>2, Zenon DEF LineUp
<1>4. x = 0
  <2>1. p = "client" \/ p = "server"
    BY DEF Progs
  <2>2. QED BY <1>1, <2>1, Zenon DEF Connects
<1>5. 0 \notin 1 .. Len(I)
  OBVIOUS
<1>6. QED BY <1>2, <1>3, <1>4, <1>5

-----------------------------------------------------------------------------
(* Where the two programs are.                                             *)

\* k is a place in p at which it has received h messages.
Place(p, k, h) ==
  /\ h \in Nat /\ k \in Places(p)
  /\ p = "server" => (k <= 16 => h = 0) /\ (k > 16 => k \in {2 * h + 17, 2 * h + 18})
  /\ p = "client" => (k <= 8 => h = 0) /\ (k > 8 => k \in {2 * h + 8, 2 * h + 9})
ServerAt(k, h, kind) ==
  \/ k \in 1 .. 16 /\ h = 0 /\ (kind = "conn" <=> k = 16)
     /\ kind \in {"eat", "reset", "at", "conn"}
  \/ k = 2 * h + 17 /\ h + 1 \in 1 .. N /\ kind = "send"
  \/ k = 2 * h + 18 /\ h + 1 \in 1 .. N /\ kind = "recv"
  \/ k = 2 * h + 17 /\ h = N /\ kind = "end"
ClientAt(k, h, kind) ==
  \/ k \in 1 .. 8 /\ h = 0 /\ (kind = "link" <=> k = 8)
     /\ kind \in {"eat", "reset", "at", "link"}
  \/ k = 2 * h + 8 /\ h \in 1 .. N /\ kind = "send"
  \/ k = 2 * h + 9 /\ h + 1 \in 1 .. N /\ kind = "recv"
  \/ k = 2 * h + 9 /\ h = N /\ kind = "end"

LEMMA Parity ==
  \A h \in Nat : /\ (2 * h + 17) % 2 = 1 /\ (2 * h + 18) % 2 = 0
                 /\ (2 * h + 8) % 2 = 0 /\ (2 * h + 9) % 2 = 1
OBVIOUS

LEMMA PlaceSizes ==
  ASSUME NEW p \in Progs, NEW k \in Places(p)
  PROVE  /\ N \in Nat /\ k \in Nat /\ k >= 1 /\ (k \in 1 .. Len(esp_main(p)) \/ k = Len(esp_main(p)) + 1)
         /\ p = "server" => Len(esp_main(p)) = 16 + 2 * N
         /\ p = "client" => Len(esp_main(p)) = 8 + 2 * N
BY Sizes, NType DEF Places

LEMMA FirstKinds ==
  ASSUME NEW p \in Progs, NEW k \in Int
  PROVE  /\ k = 1 => Kind(p, k) = "eat"
         /\ k \in 2 .. 4 => Kind(p, k) = "reset"
         /\ k \in 5 .. (IF p = "server" THEN 15 ELSE 7) => Kind(p, k) = "at"
         /\ p = "server" /\ k = 16 => Kind(p, k) = "conn"
         /\ p = "client" /\ k = 8 => Kind(p, k) = "link"
<1>1. \/ p = "server" /\ Len(esp_main(p)) \in Nat /\ Len(esp_main(p)) >= 16
      \/ p = "client" /\ Len(esp_main(p)) \in Nat /\ Len(esp_main(p)) >= 8
  BY Sizes, NType DEF Progs
<1>2. CASE p = "server" /\ Len(esp_main(p)) \in Nat /\ Len(esp_main(p)) >= 16
  BY <1>2 DEF Kind
<1>3. CASE p = "client" /\ Len(esp_main(p)) \in Nat /\ Len(esp_main(p)) >= 8
  BY <1>3 DEF Kind
<1>4. QED BY <1>1, <1>2, <1>3

LEMMA ServerIsAt ==
  ASSUME NEW k, NEW h, Place("server", k, h)
  PROVE  ServerAt(k, h, Kind("server", k))
<1> DEFINE p == "server"
<1>1. /\ h \in Nat /\ k \in Places(p) /\ p \in Progs
      /\ (k <= 16 => h = 0) /\ (k > 16 => k \in {2 * h + 17, 2 * h + 18})
  BY Zenon DEF Place, Progs
<1>2. /\ N \in Nat /\ k \in Nat /\ k >= 1 /\ (k \in 1 .. 16 + 2 * N \/ k = 16 + 2 * N + 1)
      /\ Len(esp_main(p)) = 16 + 2 * N
  BY <1>1, PlaceSizes, Zenon
<1>3. CASE k = 16 + 2 * N + 1
  <2>1. Kind(p, k) = "end"
    BY <1>1, <1>2, <1>3, EndKind, Zenon
  <2>2. k > 16 /\ k = 2 * h + 17 /\ h = N
    <3>1. k > 16
      BY <1>2, <1>3
    <3>2. k = 2 * h + 17 \/ k = 2 * h + 18
      BY <1>1, <3>1
    <3>3. QED BY <1>1, <1>2, <1>3, <3>1, <3>2
  <2>3. QED BY <2>1, <2>2, Zenon DEF ServerAt
<1>4. CASE k \in 1 .. 16 + 2 * N
  <2>1. k \in 1 .. Len(esp_main(p)) /\ p # "client"
    BY <1>2, <1>4
  <2>2. CASE k <= 16
    <3>1. k \in 1 .. 16 /\ h = 0
      BY <1>1, <1>2, <2>2
    <3>2. Kind(p, k) \in {"eat", "reset", "at", "conn"} /\ (Kind(p, k) = "conn" <=> k = 16)
      <4>1. /\ k = 1 \/ k \in 2 .. 4 \/ k \in 5 .. 15 \/ k = 16
            /\ (k = 1 \/ k \in 2 .. 4 \/ k \in 5 .. 15) => k # 16
        BY <3>1
      <4>2. /\ k = 1 => Kind(p, k) = "eat"
            /\ k \in 2 .. 4 => Kind(p, k) = "reset"
            /\ k \in 5 .. 15 => Kind(p, k) = "at"
            /\ k = 16 => Kind(p, k) = "conn"
        BY <1>1, <1>2, FirstKinds
      <4>3. QED BY <4>1, <4>2
    <3>3. QED BY <3>1, <3>2, Zenon DEF ServerAt
  <2>3. CASE k > 16
    <3>1. \/ Kind(p, k) = "send" /\ k % 2 = 1
          \/ Kind(p, k) = "recv" /\ k % 2 # 1
      <4>1. k > Len(SetUp(p)) /\ k # 16
        <5>1. Len(SetUp(p)) = 15
          BY <1>1, Sizes, Zenon
        <5>2. k > 15 /\ k # 16
          BY <1>2, <2>3
        <5>3. QED BY <5>1, <5>2
      <4>2. QED BY <1>1, <2>1, <4>1, RoundKinds, Zenon
    <3>2. CASE k = 2 * h + 17
      <4>1. Kind(p, k) = "send"
        BY <1>1, <3>1, <3>2, Parity
      <4>2. h + 1 \in 1 .. N
        BY <1>1, <1>2, <1>4, <3>2
      <4>3. QED BY <3>2, <4>1, <4>2, Zenon DEF ServerAt
    <3>3. CASE k = 2 * h + 18
      <4>1. Kind(p, k) = "recv"
        BY <1>1, <3>1, <3>3, Parity
      <4>2. h + 1 \in 1 .. N
        BY <1>1, <1>2, <1>4, <3>3
      <4>3. QED BY <3>3, <4>1, <4>2, Zenon DEF ServerAt
    <3>4. QED BY <1>1, <2>3, <3>2, <3>3
  <2>4. QED BY <1>2, <2>2, <2>3
<1>5. QED BY <1>2, <1>3, <1>4

LEMMA ClientIsAt ==
  ASSUME NEW k, NEW h, Place("client", k, h)
  PROVE  ClientAt(k, h, Kind("client", k))
<1> DEFINE p == "client"
<1>1. /\ h \in Nat /\ k \in Places(p) /\ p \in Progs
      /\ (k <= 8 => h = 0) /\ (k > 8 => k \in {2 * h + 8, 2 * h + 9})
  BY Zenon DEF Place, Progs
<1>2. /\ N \in Nat /\ k \in Nat /\ k >= 1 /\ (k \in 1 .. 8 + 2 * N \/ k = 8 + 2 * N + 1)
      /\ Len(esp_main(p)) = 8 + 2 * N
  BY <1>1, PlaceSizes, Zenon
<1>3. CASE k = 8 + 2 * N + 1
  <2>1. Kind(p, k) = "end"
    BY <1>1, <1>2, <1>3, EndKind, Zenon
  <2>2. k > 8 /\ k = 2 * h + 9 /\ h = N
    <3>1. k > 8
      BY <1>2, <1>3
    <3>2. k = 2 * h + 8 \/ k = 2 * h + 9
      BY <1>1, <3>1
    <3>3. QED BY <1>1, <1>2, <1>3, <3>1, <3>2
  <2>3. QED BY <2>1, <2>2, Zenon DEF ClientAt
<1>4. CASE k \in 1 .. 8 + 2 * N
  <2>1. k \in 1 .. Len(esp_main(p)) /\ p # "server"
    BY <1>2, <1>4
  <2>2. CASE k <= 8
    <3>1. k \in 1 .. 8 /\ h = 0
      BY <1>1, <1>2, <2>2
    <3>2. Kind(p, k) \in {"eat", "reset", "at", "link"} /\ (Kind(p, k) = "link" <=> k = 8)
      <4>1. /\ k = 1 \/ k \in 2 .. 4 \/ k \in 5 .. 7 \/ k = 8
            /\ (k = 1 \/ k \in 2 .. 4 \/ k \in 5 .. 7) => k # 8
        BY <3>1
      <4>2. /\ k = 1 => Kind(p, k) = "eat"
            /\ k \in 2 .. 4 => Kind(p, k) = "reset"
            /\ k \in 5 .. 7 => Kind(p, k) = "at"
            /\ k = 8 => Kind(p, k) = "link"
        BY <1>1, <1>2, FirstKinds
      <4>3. QED BY <4>1, <4>2
    <3>3. QED BY <3>1, <3>2, Zenon DEF ClientAt
  <2>3. CASE k > 8
    <3>1. \/ Kind(p, k) = "recv" /\ k % 2 = 1
          \/ Kind(p, k) = "send" /\ k % 2 # 1
      <4>1. k > Len(SetUp(p)) /\ ~(p = "server" /\ k = 16)
        <5>1. Len(SetUp(p)) = 8
          BY <1>1, Sizes, Zenon
        <5>2. QED BY <1>2, <2>1, <2>3, <5>1
      <4>2. QED BY <1>1, <2>1, <4>1, RoundKinds, Zenon
    <3>2. CASE k = 2 * h + 8
      <4>1. Kind(p, k) = "send"
        BY <1>1, <3>1, <3>2, Parity
      <4>2. h \in 1 .. N
        BY <1>1, <1>2, <1>4, <2>3, <3>2
      <4>3. QED BY <3>2, <4>1, <4>2, Zenon DEF ClientAt
    <3>3. CASE k = 2 * h + 9
      <4>1. Kind(p, k) = "recv"
        BY <1>1, <3>1, <3>3, Parity
      <4>2. h + 1 \in 1 .. N
        BY <1>1, <1>2, <1>4, <3>3
      <4>3. QED BY <3>3, <4>1, <4>2, Zenon DEF ClientAt
    <3>4. QED BY <1>1, <2>3, <3>2, <3>3
  <2>4. QED BY <1>2, <2>2, <2>3
<1>5. QED BY <1>2, <1>3, <1>4

-----------------------------------------------------------------------------
(* The messages sent.                                                      *)

ServerSent(kind, a, j, h, s) ==
  /\ kind \notin {"send", "recv"} => s = h
  /\ kind = "recv" => s = h + 1
  /\ kind = "send" /\ a >= 6 /\ j = "none" => s = h + 1
  /\ kind = "send" /\ ~(a >= 6 /\ j = "none") => s = h
ClientSent(kind, a, j, h, s) ==
  /\ kind # "send" => s = h
  /\ kind = "send" /\ a >= 6 /\ j = "none" => s = h
  /\ kind = "send" /\ ~(a >= 6 /\ j = "none") => s = h - 1

LEMMA SentIs ==
  ASSUME NEW k, NEW a, NEW j, NEW h
  PROVE  /\ ServerSent(Kind("server", k), a, j, h, SentOf("server", k, a, j, h))
         /\ ClientSent(Kind("client", k), a, j, h, SentOf("client", k, a, j, h))
<1>1. ServerSent(Kind("server", k), a, j, h, SentOf("server", k, a, j, h))
  <2>1. SentOf("server", k, a, j, h) =
          IF Kind("server", k) \in {"send", "recv"} /\ ~Delivering("server", k, a, j) THEN h + 1 ELSE h
    BY Zenon DEF SentOf
  <2>2. Delivering("server", k, a, j) <=> Kind("server", k) = "send" /\ ~(a >= 6 /\ j = "none")
    BY Zenon DEF Delivering
  <2>3. "send" # "recv"
    OBVIOUS
  <2>4. QED BY <2>1, <2>2, <2>3, Zenon DEF ServerSent
<1>2. ClientSent(Kind("client", k), a, j, h, SentOf("client", k, a, j, h))
  <2>1. SentOf("client", k, a, j, h) = IF Delivering("client", k, a, j) THEN h - 1 ELSE h
    <3>1. "client" # "server"
      OBVIOUS
    <3>2. QED BY <3>1, Zenon DEF SentOf
  <2>2. Delivering("client", k, a, j) <=> Kind("client", k) = "send" /\ ~(a >= 6 /\ j = "none")
    BY Zenon DEF Delivering
  <2>3. QED BY <2>1, <2>2, Zenon DEF ClientSent
<1>3. QED BY <1>1, <1>2

Next1(p, k, a, h, n, g) ==
  /\ p \in Progs /\ Place(p, k, h) /\ k \in 1 .. Len(esp_main(p)) /\ n = k + 1
  /\ Kind(p, k) = "send" => a >= 6
  /\ g = IF Kind(p, k) = "recv" THEN h + 1 ELSE h
Went(p, k, a, h, n, g) ==
  Place(p, n, g) /\ SentOf(p, n, 1, "none", g) = SentOf(p, k, a, "none", h)

LEMMA ServerNext ==
  ASSUME NEW k, NEW a, NEW h, NEW n, NEW g, Next1("server", k, a, h, n, g)
  PROVE  Went("server", k, a, h, n, g)
<1> DEFINE p == "server"
<1>1. /\ p \in Progs /\ Place(p, k, h) /\ k \in 1 .. Len(esp_main(p)) /\ n = k + 1
      /\ (Kind(p, k) = "send" => a >= 6) /\ g = IF Kind(p, k) = "recv" THEN h + 1 ELSE h
  BY Zenon DEF Next1
<1>2. h \in Nat /\ k \in Places(p) /\ Len(esp_main(p)) = 16 + 2 * N /\ N \in Nat
  BY <1>1, PlaceSizes, Zenon DEF Place
<1>3. k \in Nat /\ k >= 1 /\ k <= 16 + 2 * N /\ n \in Places(p) /\ n \in Nat
  BY <1>1, <1>2 DEF Places
<1>4. ServerAt(k, h, Kind(p, k))
  BY <1>1, ServerIsAt
<1>5. PICK kind : kind = Kind(p, k)
  OBVIOUS
<1>6. ServerAt(k, h, kind) /\ g = (IF kind = "recv" THEN h + 1 ELSE h) /\ kind # "end"
  <2>1. kind # "end"
    BY <1>2, <1>3, <1>4, <1>5 DEF ServerAt
  <2>2. QED BY <1>1, <1>4, <1>5, <2>1, Zenon
<1>7. Place(p, n, g)
  <2>1. g \in Nat
    BY <1>2, <1>6
  <2>2. (n <= 16 => g = 0) /\ (n > 16 => n = 2 * g + 17 \/ n = 2 * g + 18)
    BY <1>1, <1>2, <1>3, <1>6 DEF ServerAt
  <2>3. p # "client"
    OBVIOUS
  <2>4. QED BY <1>3, <2>1, <2>2, <2>3 DEF Place
<1>8. ServerAt(n, g, Kind(p, n))
  BY <1>7, ServerIsAt
<1>9. PICK next, s, t : next = Kind(p, n) /\ s = SentOf(p, k, a, "none", h) /\ t = SentOf(p, n, 1, "none", g)
  OBVIOUS
<1>10. /\ ServerSent(kind, a, "none", h, s) /\ ServerSent(next, 1, "none", g, t) /\ ServerAt(n, g, next)
       /\ kind = "send" => a >= 6
  BY <1>1, <1>5, <1>8, <1>9, SentIs, Zenon
<1>11. t = s
  <2>1. s = IF kind \in {"send", "recv"} THEN h + 1 ELSE h
    BY <1>10, Zenon DEF ServerSent
  <2>2. t = IF next = "recv" THEN g + 1 ELSE g
    <3>1. ~(1 >= 6) /\ "send" # "recv"
      OBVIOUS
    <3>2. QED BY <1>10, <3>1, Zenon DEF ServerSent
  <2>3. kind \in {"send", "recv"} => k > 16
    BY <1>2, <1>6 DEF ServerAt
  <2>4. CASE kind = "send"
    <3>1. k = 2 * h + 17 /\ g = h
      BY <1>6, <2>4 DEF ServerAt
    <3>2. next = "recv"
      BY <1>1, <1>2, <1>10, <3>1 DEF ServerAt
    <3>3. QED BY <2>1, <2>2, <2>4, <3>1, <3>2
  <2>5. CASE kind = "recv"
    <3>1. k = 2 * h + 18 /\ g = h + 1
      BY <1>6, <2>5 DEF ServerAt
    <3>2. next # "recv"
      BY <1>1, <1>2, <1>10, <3>1 DEF ServerAt
    <3>3. QED BY <2>1, <2>2, <2>5, <3>1, <3>2
  <2>6. CASE kind \notin {"send", "recv"}
    <3>1. k \in 1 .. 16 /\ h = 0 /\ g = h
      BY <1>6, <2>6 DEF ServerAt
    <3>2. next # "recv"
      BY <1>1, <1>2, <1>10, <3>1 DEF ServerAt
    <3>3. QED BY <2>1, <2>2, <2>6, <3>1, <3>2
  <2>7. QED BY <2>4, <2>5, <2>6
<1>12. QED BY <1>7, <1>9, <1>11, Zenon DEF Went

LEMMA ClientNext ==
  ASSUME NEW k, NEW a, NEW h, NEW n, NEW g, Next1("client", k, a, h, n, g)
  PROVE  Went("client", k, a, h, n, g)
<1> DEFINE p == "client"
<1>1. /\ p \in Progs /\ Place(p, k, h) /\ k \in 1 .. Len(esp_main(p)) /\ n = k + 1
      /\ (Kind(p, k) = "send" => a >= 6) /\ g = IF Kind(p, k) = "recv" THEN h + 1 ELSE h
  BY Zenon DEF Next1
<1>2. h \in Nat /\ k \in Places(p) /\ Len(esp_main(p)) = 8 + 2 * N /\ N \in Nat
  BY <1>1, PlaceSizes, Zenon DEF Place
<1>3. k \in Nat /\ k >= 1 /\ k <= 8 + 2 * N /\ n \in Places(p) /\ n \in Nat
  BY <1>1, <1>2 DEF Places
<1>4. ClientAt(k, h, Kind(p, k))
  BY <1>1, ClientIsAt
<1>5. PICK kind : kind = Kind(p, k)
  OBVIOUS
<1>6. ClientAt(k, h, kind) /\ g = (IF kind = "recv" THEN h + 1 ELSE h) /\ kind # "end"
  <2>1. kind # "end"
    BY <1>2, <1>3, <1>4, <1>5 DEF ClientAt
  <2>2. QED BY <1>1, <1>4, <1>5, <2>1, Zenon
<1>7. Place(p, n, g)
  <2>1. g \in Nat
    BY <1>2, <1>6
  <2>2. (n <= 8 => g = 0) /\ (n > 8 => n = 2 * g + 8 \/ n = 2 * g + 9)
    BY <1>1, <1>2, <1>3, <1>6 DEF ClientAt
  <2>3. p # "server"
    OBVIOUS
  <2>4. QED BY <1>3, <2>1, <2>2, <2>3 DEF Place
<1>8. ClientAt(n, g, Kind(p, n))
  BY <1>7, ClientIsAt
<1>9. PICK next, s, t : next = Kind(p, n) /\ s = SentOf(p, k, a, "none", h) /\ t = SentOf(p, n, 1, "none", g)
  OBVIOUS
<1>10. /\ ClientSent(kind, a, "none", h, s) /\ ClientSent(next, 1, "none", g, t) /\ ClientAt(n, g, next)
       /\ kind = "send" => a >= 6
  BY <1>1, <1>5, <1>8, <1>9, SentIs, Zenon
<1>11. t = s
  <2>1. s = h
    BY <1>10, Zenon DEF ClientSent
  <2>2. t = IF next = "send" THEN g - 1 ELSE g
    <3>1. ~(1 >= 6)
      OBVIOUS
    <3>2. QED BY <1>10, <3>1, Zenon DEF ClientSent
  <2>4. CASE kind = "recv"
    <3>1. k = 2 * h + 9 /\ g = h + 1
      BY <1>6, <2>4 DEF ClientAt
    <3>2. next = "send"
      BY <1>1, <1>2, <1>10, <3>1 DEF ClientAt
    <3>3. QED BY <1>2, <2>1, <2>2, <2>4, <3>1, <3>2
  <2>5. CASE kind # "recv"
    <3>1. g = h /\ (k \in 1 .. 8 \/ k = 2 * h + 8) /\ (k \in 1 .. 8 => h = 0)
      BY <1>2, <1>6, <2>5 DEF ClientAt
    <3>2. next # "send"
      BY <1>1, <1>2, <1>10, <3>1 DEF ClientAt
    <3>3. QED BY <2>1, <2>2, <2>5, <3>1, <3>2
  <2>7. QED BY <2>4, <2>5
<1>12. QED BY <1>7, <1>9, <1>11, Zenon DEF Went

\* The next call: the place is one of the program's, nothing more was sent.
LEMMA NextPlace ==
  ASSUME NEW p, NEW k, NEW a, NEW h, NEW n, NEW g, Next1(p, k, a, h, n, g)
  PROVE  Went(p, k, a, h, n, g)
<1>1. p = "server" \/ p = "client"
  BY Zenon DEF Next1, Progs
<1>2. QED BY <1>1, ServerNext, ClientNext

-----------------------------------------------------------------------------
(* The turns, as numbers.                                                  *)

\* ks, as, js, hs, ss: the server's call, operation, job, messages received and sent.
Numbers(ks, as, js, hs, ss, kinds, kc, ac, jc, hc, sc, kindc) ==
  /\ hs \in Nat /\ hc \in Nat /\ ServerAt(ks, hs, kinds) /\ ClientAt(kc, hc, kindc)
  /\ ServerSent(kinds, as, js, hs, ss) /\ ClientSent(kindc, ac, jc, hc, sc)
  /\ hs <= sc /\ sc <= hc /\ hc <= ss /\ ss <= hs + 1
Given(kind, a, j) == kind = "send" /\ a >= 6 /\ j = "none"

LEMMA ServerPending ==
  ASSUME NEW ks, NEW as, NEW js, NEW hs, NEW ss, NEW kinds, NEW kc, NEW ac, NEW jc, NEW hc, NEW sc, NEW kindc,
         Numbers(ks, as, js, hs, ss, kinds, kc, ac, jc, hc, sc, kindc), sc > hs
  PROVE  hs + 1 \in 1 .. N /\ (kinds = "recv" \/ Given(kinds, as, js))
<1>1. /\ hs \in Nat /\ hc \in Nat /\ ServerAt(ks, hs, kinds) /\ ServerSent(kinds, as, js, hs, ss)
      /\ hs <= sc /\ sc <= hc /\ hc <= ss /\ sc > hs
  BY Zenon DEF Numbers
<1>2. sc \in Int /\ ss \in Int
  <2>2. ss = hs \/ ss = hs + 1
    <3>1. kinds \notin {"send", "recv"} \/ kinds = "recv" \/ kinds = "send"
      OBVIOUS
    <3>2. QED BY <1>1, <3>1, Zenon DEF ServerSent
  <2>3. sc = hc \/ sc = hc - 1
    <3>1. ClientSent(kindc, ac, jc, hc, sc)
      BY Zenon DEF Numbers
    <3>2. QED BY <3>1, Zenon DEF ClientSent
  <2>4. QED BY <1>1, <2>2, <2>3
<1>3. ss # hs
  BY <1>1, <1>2
<1>4. kinds = "recv" \/ Given(kinds, as, js)
  BY <1>1, <1>3, Zenon DEF ServerSent, Given
<1>5. hs + 1 \in 1 .. N
  BY <1>1, <1>4 DEF ServerAt, Given
<1>6. QED BY <1>4, <1>5

LEMMA ClientPending ==
  ASSUME NEW ks, NEW as, NEW js, NEW hs, NEW ss, NEW kinds, NEW kc, NEW ac, NEW jc, NEW hc, NEW sc, NEW kindc,
         Numbers(ks, as, js, hs, ss, kinds, kc, ac, jc, hc, sc, kindc), ss > hc
  PROVE  /\ hc + 1 \in 1 .. N
         /\ kindc = "recv" \/ Given(kindc, ac, jc) \/ (kc \in 1 .. 8 /\ ks > 16)
<1>1. /\ hs \in Nat /\ hc \in Nat /\ ServerAt(ks, hs, kinds) /\ ServerSent(kinds, as, js, hs, ss)
      /\ ClientAt(kc, hc, kindc) /\ ClientSent(kindc, ac, jc, hc, sc)
      /\ hs <= sc /\ sc <= hc /\ hc <= ss /\ ss > hc /\ ss <= hs + 1
  BY Zenon DEF Numbers
<1>2. ss = hs \/ ss = hs + 1
  <2>1. kinds \notin {"send", "recv"} \/ kinds = "recv" \/ kinds = "send"
    OBVIOUS
  <2>2. QED BY <1>1, <2>1, Zenon DEF ServerSent
<1>3. sc = hc \/ sc = hc - 1
  BY <1>1, Zenon DEF ClientSent
<1>4. ss = hs + 1 /\ hc = hs /\ sc = hc
  BY <1>1, <1>2, <1>3
<1>5. kinds = "send" \/ kinds = "recv"
  <2>1. ss # hs
    BY <1>1, <1>4
  <2>2. QED BY <1>1, <2>1, Zenon DEF ServerSent
<1>6. hs + 1 \in 1 .. N /\ ks > 16
  BY <1>1, <1>5 DEF ServerAt
<1>7. kindc = "send" => Given(kindc, ac, jc)
  <2>1. hc # hc - 1
    BY <1>1
  <2>2. QED BY <1>1, <1>4, <2>1, Zenon DEF ClientSent, Given
<1>8. kindc = "send" \/ kindc = "recv" \/ kc \in 1 .. 8
  BY <1>1, <1>4, <1>6 DEF ClientAt
<1>9. QED BY <1>4, <1>6, <1>7, <1>8

\* While a program sends, its peer has nothing to read.
LEMMA ServerSends ==
  ASSUME NEW ks, NEW as, NEW js, NEW hs, NEW ss, NEW kinds, NEW kc, NEW ac, NEW jc, NEW hc, NEW sc, NEW kindc,
         Numbers(ks, as, js, hs, ss, kinds, kc, ac, jc, hc, sc, kindc), kinds = "send", ~Given(kinds, as, js)
  PROVE  ss = hc /\ ss = hs /\ hs + 1 \in 1 .. N
<1>1. /\ hs \in Nat /\ hc \in Nat /\ ServerAt(ks, hs, kinds) /\ ServerSent(kinds, as, js, hs, ss)
      /\ ClientSent(kindc, ac, jc, hc, sc) /\ hs <= sc /\ sc <= hc /\ hc <= ss
  BY Zenon DEF Numbers
<1>2. ss = hs
  BY <1>1, Zenon DEF ServerSent, Given
<1>3. sc = hc \/ sc = hc - 1
  BY <1>1, Zenon DEF ClientSent
<1>4. hs + 1 \in 1 .. N
  BY <1>1 DEF ServerAt
<1>5. QED BY <1>1, <1>2, <1>3, <1>4

LEMMA ClientSends ==
  ASSUME NEW ks, NEW as, NEW js, NEW hs, NEW ss, NEW kinds, NEW kc, NEW ac, NEW jc, NEW hc, NEW sc, NEW kindc,
         Numbers(ks, as, js, hs, ss, kinds, kc, ac, jc, hc, sc, kindc), kindc = "send", ~Given(kindc, ac, jc)
  PROVE  sc = hs /\ sc + 1 = hc /\ hc \in 1 .. N /\ ss = hc
<1>1. /\ hs \in Nat /\ hc \in Nat /\ ServerSent(kinds, as, js, hs, ss) /\ ClientAt(kc, hc, kindc)
      /\ ClientSent(kindc, ac, jc, hc, sc) /\ hs <= sc /\ sc <= hc /\ hc <= ss /\ ss <= hs + 1
  BY Zenon DEF Numbers
<1>2. sc = hc - 1
  BY <1>1, Zenon DEF ClientSent, Given
<1>3. ss = hs \/ ss = hs + 1
  <2>1. kinds \notin {"send", "recv"} \/ kinds = "recv" \/ kinds = "send"
    OBVIOUS
  <2>2. QED BY <1>1, <2>1, Zenon DEF ServerSent
<1>4. hc \in 1 .. N
  BY <1>1 DEF ClientAt
<1>5. QED BY <1>1, <1>2, <1>3, <1>4

-----------------------------------------------------------------------------
(* The messages.                                                           *)

LEMMA MessageShape ==
  ASSUME NEW i \in 1 .. N
  PROVE  /\ Messages[i] \in Seq(Tok) /\ Len(Messages[i]) = MsgLen /\ MsgLen \in Nat /\ MsgLen > 0
         /\ Message(i) \in Seq(Tok) /\ Len(Message(i)) = MsgLen + 1 /\ Message(i)[1] = "+IPD"
         /\ \A k \in 1 .. MsgLen : Message(i)[k + 1] = Messages[i][k]
<1>1. Messages \in Seq(Range(Messages)) /\ i \in DOMAIN Messages /\ MsgLen \in Nat /\ MsgLen > 0
  BY EspAssumption DEF N
<1>2. Messages[i] \in Range(Messages)
  BY <1>1, Zenon DEF Range
<1>3. Messages[i] \in Seq(Range(Messages[i])) /\ Range(Messages[i]) \subseteq Tok
  <2>1. Messages[i] \in Seq(Range(Messages[i]))
    BY <1>2, EspAssumption, Zenon
  <2>2. \A t \in Range(Messages[i]) : t \in UNION {Range(m) : m \in Range(Messages)}
    BY <1>2, Zenon
  <2>3. QED BY <2>1, <2>2, Zenon DEF Tok
<1>4. Messages[i] \in Seq(Tok)
  BY <1>3
<1>5. Len(Messages[i]) = MsgLen
  BY <1>1, EspAssumption, Zenon
<1>6. <<"+IPD">> \in Seq(Tok) /\ Len(<<"+IPD">>) = 1 /\ <<"+IPD">>[1] = "+IPD"
  <2>1. "+IPD" \in Tok
    BY DEF Tok, Words
  <2>2. QED BY <2>1
<1>7. PICK h : h = <<"+IPD">>
  OBVIOUS
<1>8. /\ h \o Messages[i] \in Seq(Tok) /\ Len(h \o Messages[i]) = Len(h) + Len(Messages[i])
      /\ \A k \in 1 .. Len(h) : (h \o Messages[i])[k] = h[k]
      /\ \A k \in 1 .. Len(Messages[i]) : (h \o Messages[i])[Len(h) + k] = Messages[i][k]
  <2>1. PICK g : g = Messages[i]
    OBVIOUS
  <2>2. h \in Seq(Tok) /\ g \in Seq(Tok)
    BY <1>4, <1>6, <1>7, <2>1
  <2>3. /\ h \o g \in Seq(Tok) /\ Len(h \o g) = Len(h) + Len(g)
        /\ \A k \in 1 .. Len(h) : (h \o g)[k] = h[k]
        /\ \A k \in 1 .. Len(g) : (h \o g)[Len(h) + k] = g[k]
    BY <2>2, Joined
  <2>4. QED BY <2>1, <2>3, Zenon
<1>9. Message(i) = h \o Messages[i]
  BY <1>7, Zenon DEF Message
<1>10. \A k \in 1 .. MsgLen : 1 + k = k + 1
  BY <1>1
<1>11. PICK G : G = Message(i)
  OBVIOUS
<1>12. /\ G \in Seq(Tok) /\ Len(G) = 1 + MsgLen
       /\ \A k \in 1 .. 1 : G[k] = h[k]
       /\ \A k \in 1 .. MsgLen : G[1 + k] = Messages[i][k]
  <2>1. Len(h) = 1
    BY <1>6, <1>7
  <2>2. QED BY <1>5, <1>8, <1>9, <1>11, <2>1, Zenon
<1>13. G[1] = "+IPD"
  <2>1. 1 \in 1 .. 1
    OBVIOUS
  <2>2. QED BY <1>6, <1>7, <1>12, <2>1, Zenon
<1>14. Len(G) = MsgLen + 1 /\ \A k \in 1 .. MsgLen : G[k + 1] = Messages[i][k]
  BY <1>1, <1>12
<1>15. QED BY <1>1, <1>4, <1>5, <1>11, <1>12, <1>13, <1>14, Zenon

-----------------------------------------------------------------------------
(* The state.                                                              *)

Good == TypeOK /\ call \in [Progs -> Nat] /\ at \in [Progs -> Nat] /\ Core
Typed(p) ==
  /\ stream[p] \in Seq(Tok) /\ wire[p] \in Seq(Tok) /\ cmds[p] \in Seq(Tok) /\ got[p] \in Seq(Seq(Tok))
  /\ job[p] \in Commands \cup {"none", "boot", "data"} /\ fault[p] = "none"
  /\ Input(p) \in Seq(Tok) /\ Len(Input(p)) \in Nat /\ Had(p) \in Nat
  /\ call[p] \in Nat /\ at[p] \in Nat /\ at[p] >= 1
There(p) == call[p] \in 1 .. Len(esp_main(p)) /\ at[p] \in DOMAIN Call(p, call[p])

LEMMA CallSize ==
  ASSUME NEW p \in Progs, NEW k \in 1 .. Len(esp_main(p))
  PROVE  \E n \in Nat : n >= 1 /\ Len(Call(p, k)) = n /\ DOMAIN Call(p, k) = 1 .. n
<1>1. \A n \in {1, 3, 4, 7} : n \in Nat /\ n >= 1
  OBVIOUS
<1>2. \E n \in {1, 3, 4, 7} : Len(Call(p, k)) = n /\ DOMAIN Call(p, k) = 1 .. n
  <2>1. \/ Kind(p, k) = "reset" \/ Kind(p, k) = "at" \/ Kind(p, k) = "link"
        \/ Kind(p, k) = "send" \/ Kind(p, k) \notin Commanding
    BY Zenon DEF Commanding
  <2>2. 1 \in {1, 3, 4, 7} /\ 3 \in {1, 3, 4, 7} /\ 4 \in {1, 3, 4, 7} /\ 7 \in {1, 3, 4, 7}
    OBVIOUS
  <2>3. CASE Kind(p, k) = "reset"
    <3>1. ResetOf(Call(p, k), Cmd(p, k))
      BY <2>3, ResetCall
    <3>2. QED BY <2>2, <3>1, Zenon DEF ResetOf
  <2>4. CASE Kind(p, k) = "at"
    <3>1. AtOf(Call(p, k), Cmd(p, k), Extra(p, k))
      BY <2>4, AtCall
    <3>2. QED BY <2>2, <3>1, Zenon DEF AtOf
  <2>5. CASE Kind(p, k) = "link"
    <3>1. LinkOf(Call(p, k))
      BY <2>5, LinkCall
    <3>2. QED BY <2>2, <3>1, Zenon DEF LinkOf
  <2>6. CASE Kind(p, k) = "send"
    <3>1. SendOf(Call(p, k))
      BY <2>6, SendCall
    <3>2. QED BY <2>2, <3>1, Zenon DEF SendOf
  <2>7. CASE Kind(p, k) \notin Commanding
    BY <2>2, <2>7, OtherCalls, Zenon DEF SingleOf
  <2>8. QED BY <2>1, <2>3, <2>4, <2>5, <2>6, <2>7, Zenon
<1>3. QED BY <1>1, <1>2, Zenon

LEMMA Now ==
  ASSUME Good, NEW p \in Progs
  PROVE  /\ Typed(p) /\ Place(p, call[p], Had(p)) /\ Own(p)
         /\ IF Ended(p) THEN call[p] = Len(esp_main(p)) + 1 /\ at[p] = 1 ELSE There(p)
<1>1. /\ stream[p] \in Seq(Tok) /\ wire[p] \in Seq(Tok) /\ cmds[p] \in Seq(Tok) /\ got[p] \in Seq(Seq(Tok))
      /\ job[p] \in Commands \cup {"none", "boot", "data"} /\ fault[p] = "none"
      /\ call[p] \in Nat /\ at[p] \in Nat
  BY DEF Good, Core, Types
<1>2. Input(p) \in Seq(Tok) /\ Len(Input(p)) \in Nat
  <2>1. PICK s, w : s = stream[p] /\ w = wire[p]
    OBVIOUS
  <2>2. s \in Seq(Tok) /\ w \in Seq(Tok)
    BY <1>1, <2>1
  <2>3. s \o w \in Seq(Tok)
    BY <2>2, Joined
  <2>4. Len(s \o w) \in Nat
    BY <2>3
  <2>5. QED BY <2>1, <2>3, <2>4, Zenon DEF Input
<1>3. Had(p) \in Nat
  BY <1>1 DEF Had
<1>4. /\ call[p] \in 1 .. Len(esp_main(p)) + 1
      /\ at[p] \in IF Ended(p) THEN {1} ELSE DOMAIN esp_main(p)[call[p]]
  BY DEF Good, TypeOK
<1>5. Len(esp_main(p)) \in Nat
  BY Sizes
<1>6. IF Ended(p) THEN call[p] = Len(esp_main(p)) + 1 /\ at[p] = 1 ELSE There(p)
  <2>1. CASE Ended(p)
    <3>1. call[p] = Len(esp_main(p)) + 1
      BY <1>4, <1>5, <2>1 DEF Ended
    <3>2. at[p] \in {1}
      BY <1>4, <2>1, Zenon
    <3>3. QED BY <2>1, <3>1, <3>2
  <2>2. CASE ~Ended(p)
    <3>1. call[p] \in 1 .. Len(esp_main(p))
      BY <1>4, <1>5, <2>2 DEF Ended
    <3>2. at[p] \in DOMAIN esp_main(p)[call[p]]
      BY <1>4, <2>2, Zenon
    <3>3. QED BY <2>2, <3>1, <3>2, Zenon DEF There, Call
  <2>3. QED BY <2>1, <2>2
<1>7. at[p] >= 1
  <2>1. CASE Ended(p)
    BY <1>6, <2>1
  <2>2. CASE ~Ended(p)
    <3>1. There(p)
      BY <1>6, <2>2
    <3>2. \E n \in Nat : DOMAIN Call(p, call[p]) = 1 .. n
      BY <3>1, CallSize, Zenon DEF There
    <3>3. QED BY <3>1, <3>2 DEF There
  <2>3. QED BY <2>1, <2>2
<1>8. Place(p, call[p], Had(p))
  <2>1. call[p] \in Places(p)
    BY <1>4, Zenon DEF Places
  <2>2. Counts
    BY Zenon DEF Good, Core
  <2>3. QED BY <1>3, <2>1, <2>2, Zenon DEF Place, Counts
<1>9. Own(p)
  BY Zenon DEF Good, Core
<1>10. QED BY <1>1, <1>2, <1>3, <1>6, <1>7, <1>8, <1>9, Zenon DEF Typed

LEMMA ProgsAre == "server" \in Progs /\ "client" \in Progs /\ Peer("server") = "client" /\ Peer("client") = "server"
                  /\ "server" # "client" /\ \A p \in Progs : p = "server" \/ p = "client"
BY DEF Progs, Peer

NumbersNow ==
  Numbers(call["server"], at["server"], job["server"], Had("server"), Sent("server"),
          Kind("server", call["server"]),
          call["client"], at["client"], job["client"], Had("client"), Sent("client"),
          Kind("client", call["client"]))

LEMMA NumbersGood == Good => NumbersNow
<1> SUFFICES ASSUME Good PROVE NumbersNow
  OBVIOUS
<1>1. /\ Place("server", call["server"], Had("server")) /\ Place("client", call["client"], Had("client"))
      /\ Had("server") \in Nat /\ Had("client") \in Nat
  <2>1. \A p \in Progs : Place(p, call[p], Had(p)) /\ Typed(p)
    BY Now
  <2>2. QED BY <2>1, ProgsAre, Zenon DEF Typed
<1>2. /\ ServerAt(call["server"], Had("server"), Kind("server", call["server"]))
      /\ ClientAt(call["client"], Had("client"), Kind("client", call["client"]))
  BY <1>1, ServerIsAt, ClientIsAt, Zenon
<1>3. /\ ServerSent(Kind("server", call["server"]), at["server"], job["server"], Had("server"), Sent("server"))
      /\ ClientSent(Kind("client", call["client"]), at["client"], job["client"], Had("client"), Sent("client"))
  BY SentIs, Zenon DEF Sent
<1>4. Turns
  BY Zenon DEF Good, Core
<1>5. QED BY <1>1, <1>2, <1>3, <1>4, Zenon DEF NumbersNow, Numbers, Turns

\* When a program has a message to read.
Awaits(p) ==
  \/ Kind(p, call[p]) = "recv"
  \/ Given(Kind(p, call[p]), at[p], job[p])
  \/ p = "client" /\ call[p] = 8 /\ at[p] >= 2 /\ cmds[p] = <<>> /\ job[p] = "none"

LEMMA Pending ==
  ASSUME Good, NEW p \in Progs
  PROVE  \/ Waiting(p) = <<>>
         \/ /\ Waiting(p) = Message(Had(p) + 1) /\ Had(p) + 1 \in 1 .. N
            /\ Sent(Peer(p)) > Had(p) /\ Awaits(p)
<1>1. CASE ~(Sent(Peer(p)) > Had(p))
  BY <1>1, Zenon DEF Waiting
<1>2. CASE p = "server" /\ Sent(Peer(p)) > Had(p)
  <2>1. Sent("client") > Had("server")
    BY <1>2, ProgsAre
  <2>2. /\ Had("server") + 1 \in 1 .. N
        /\ \/ Kind("server", call["server"]) = "recv"
           \/ Given(Kind("server", call["server"]), at["server"], job["server"])
    BY <2>1, NumbersGood, ServerPending, Zenon DEF NumbersNow
  <2>3. QED BY <1>2, <2>2, Zenon DEF Waiting, Awaits
<1>3. CASE p = "client" /\ Sent(Peer(p)) > Had(p)
  <2>1. Sent("server") > Had("client")
    BY <1>3, ProgsAre
  <2>2. /\ Had("client") + 1 \in 1 .. N
        /\ \/ Kind("client", call["client"]) = "recv"
           \/ Given(Kind("client", call["client"]), at["client"], job["client"])
           \/ call["client"] \in 1 .. 8 /\ call["server"] > 16
    <3>1. NumbersNow
      BY NumbersGood
    <3>2. QED BY <2>1, <3>1, ClientPending DEF NumbersNow
  <2>3. call["client"] \in 1 .. 8 /\ call["server"] > 16 =>
          call["client"] = 8 /\ at["client"] >= 2 /\ cmds["client"] = <<>> /\ job["client"] = "none"
    <3>1. Linking
      BY Zenon DEF Good, Core
    <3>2. call["server"] > 16 => LinkedOf(call["client"], at["client"], job["client"], cmds["client"])
      BY <3>1, Zenon DEF Linking, LinkDone
    <3>3. call["client"] \in 1 .. 8 => ~(call["client"] > 8)
      OBVIOUS
    <3>4. QED BY <3>2, <3>3, Zenon DEF LinkedOf
  <2>4. QED BY <1>3, <2>2, <2>3, Zenon DEF Waiting, Awaits
<1>4. QED BY <1>1, <1>2, <1>3, ProgsAre

\* The message that waits, and the lines that are read before it.
LEMMA WaitingNow ==
  ASSUME Good, NEW p \in Progs
  PROVE  /\ Len(Waiting(p)) \in Nat /\ (Len(Waiting(p)) > 0 => Waiting(p)[1] # "eol")
         /\ Len(Waiting(p)) = 0 \/ (Awaits(p) /\ job[p] = "none")
<1>1. CASE Waiting(p) = <<>>
  <2>1. Len(<<>>) = 0
    OBVIOUS
  <2>2. QED BY <1>1, <2>1
<1>2. CASE Waiting(p) # <<>>
  <2>1. Waiting(p) = Message(Had(p) + 1) /\ Had(p) + 1 \in 1 .. N /\ Awaits(p)
    BY <1>2, Pending
  <2>2. MsgLen \in Nat /\ Len(Waiting(p)) = MsgLen + 1 /\ Waiting(p)[1] = "+IPD"
    BY <2>1, MessageShape, Zenon
  <2>3. job[p] = "none"
    <3>1. Kind(p, call[p]) = "recv" => job[p] = "none"
      <4>1. PICK m : Printed(p, call[p], at[p], job[p], cmds[p], Messages[Sent(p) + 1], m)
        BY Now, Zenon DEF Own, Talks
      <4>2. "recv" \notin Commanding
        BY DEF Commanding
      <4>3. QED BY <4>1, <4>2, Zenon DEF Printed
    <3>2. QED BY <2>1, <3>1, Zenon DEF Awaits, Given
  <2>4. QED BY <2>1, <2>2, <2>3
<1>3. QED BY <1>1, <1>2

-----------------------------------------------------------------------------
(* The operations, by the kind of their call.                              *)

ResetOp(a, n, o, c) ==
  /\ n = 4
  /\ \/ a = 1 /\ o[1] = "puts" /\ o[2] = c
     \/ a = 2 /\ o[1] = "ack" /\ o[2] = c
     \/ a = 3 /\ o[1] = "expect" /\ o[2] = "OK"
     \/ a = 4 /\ o[1] = "ready" /\ o[2] = "ready"
AtOp(a, n, o, c, x) ==
  /\ n = 3
  /\ \/ a = 1 /\ o[1] = "puts" /\ o[2] = c
     \/ a = 2 /\ o[1] = "ack" /\ o[2] = c
     \/ a = 3 /\ o[1] = "expect" /\ o[2] = "OK" /\ o[3] = x
LinkOp(a, n, o, c) ==
  /\ n = 4
  /\ \/ a = 1 /\ o[1] = "puts" /\ o[2] = c
     \/ a = 2 /\ o[1] = "ack" /\ o[2] = c
     \/ a = 3 /\ o[1] = "expect" /\ o[2] = "CONNECT"
     \/ a = 4 /\ o[1] = "expect" /\ o[2] = "OK"
SendOp(a, n, o, c) ==
  /\ n = 7
  /\ \/ a = 1 /\ o[1] = "puts" /\ o[2] = c
     \/ a = 2 /\ o[1] = "ack" /\ o[2] = c
     \/ a = 3 /\ o[1] = "expect" /\ o[2] = "OK"
     \/ a = 4 /\ o[1] = "prompt"
     \/ a = 5 /\ o[1] = "data"
     \/ a = 6 /\ o[1] = "expect" /\ o[2] = "Recv"
     \/ a = 7 /\ o[1] = "expect" /\ o[2] = "SENT"
SingleOp(kind, a, n, o) ==
  /\ n = 1 /\ a = 1
  /\ \/ kind = "eat" /\ o[1] = "eat"
     \/ kind = "conn" /\ o[1] = "conn" /\ o[2] = "CONNECT"
     \/ kind = "recv" /\ o[1] = "recv"

OpShape(kind, a, n, o, c, x) ==
  \/ kind = "reset" /\ ResetOp(a, n, o, c)
  \/ kind = "at" /\ AtOp(a, n, o, c, x)
  \/ kind = "link" /\ LinkOp(a, n, o, c)
  \/ kind = "send" /\ SendOp(a, n, o, c)
  \/ kind \notin Commanding /\ SingleOp(kind, a, n, o)

LEMMA ResetOpIs ==
  ASSUME NEW S, NEW c, ResetOf(S, c), NEW a \in DOMAIN S
  PROVE  ResetOp(a, Len(S), S[a], c)
<1>1. a \in 1 .. 4 /\ Len(S) = 4
  BY DEF ResetOf
<1>2. a = 1 \/ a = 2 \/ a = 3 \/ a = 4
  BY <1>1
<1>3. QED BY <1>1, <1>2 DEF ResetOf, ResetOp

LEMMA AtOpIs ==
  ASSUME NEW S, NEW c, NEW x, AtOf(S, c, x), NEW a \in DOMAIN S
  PROVE  AtOp(a, Len(S), S[a], c, x)
<1>1. a \in 1 .. 3 /\ Len(S) = 3
  BY DEF AtOf
<1>2. a = 1 \/ a = 2 \/ a = 3
  BY <1>1
<1>3. QED BY <1>1, <1>2 DEF AtOf, AtOp

LEMMA LinkOpIs ==
  ASSUME NEW S, LinkOf(S), NEW a \in DOMAIN S
  PROVE  LinkOp(a, Len(S), S[a], "AT+CIPSTART")
<1>1. a \in 1 .. 4 /\ Len(S) = 4
  BY DEF LinkOf
<1>2. a = 1 \/ a = 2 \/ a = 3 \/ a = 4
  BY <1>1
<1>3. QED BY <1>1, <1>2 DEF LinkOf, LinkOp

LEMMA SendOpIs ==
  ASSUME NEW S, SendOf(S), NEW a \in DOMAIN S
  PROVE  SendOp(a, Len(S), S[a], "AT+CIPSEND")
<1>1. a \in 1 .. 7 /\ Len(S) = 7
  BY DEF SendOf
<1>2. a = 1 \/ a = 2 \/ a = 3 \/ a = 4 \/ a = 5 \/ a = 6 \/ a = 7
  BY <1>1
<1>3. QED BY <1>1, <1>2 DEF SendOf, SendOp

LEMMA SingleOpIs ==
  ASSUME NEW S, NEW kind \in {"eat", "conn", "recv"}, SingleOf(S, kind), NEW a \in DOMAIN S
  PROVE  SingleOp(kind, a, Len(S), S[a])
<1>1. a = 1 /\ Len(S) = 1
  BY DEF SingleOf
<1>2. CASE kind = "eat"
  <2>1. S[1] = <<"eat", "all", TRUE>>
    BY <1>2, Zenon DEF SingleOf
  <2>2. QED BY <1>1, <1>2, <2>1 DEF SingleOp
<1>3. CASE kind = "conn"
  <2>1. S[1] = <<"conn", "CONNECT", TRUE>>
    BY <1>3, Zenon DEF SingleOf
  <2>2. QED BY <1>1, <1>3, <2>1 DEF SingleOp
<1>4. CASE kind = "recv"
  <2>1. S[1] = <<"recv", "+IPD", FALSE>>
    BY <1>4, Zenon DEF SingleOf
  <2>2. QED BY <1>1, <1>4, <2>1 DEF SingleOp
<1>5. QED BY <1>2, <1>3, <1>4

\* What the operation of a program is.
LEMMA OpIs ==
  ASSUME NEW p \in Progs, NEW k \in 1 .. Len(esp_main(p)), NEW a \in DOMAIN Call(p, k)
  PROVE  OpShape(Kind(p, k), a, Len(Call(p, k)), Call(p, k)[a], Cmd(p, k), Extra(p, k))
<1>1. CASE Kind(p, k) = "reset"
  <2>1. ResetOp(a, Len(Call(p, k)), Call(p, k)[a], Cmd(p, k))
    BY <1>1, ResetCall, ResetOpIs
  <2>2. QED BY <1>1, <2>1, Zenon DEF OpShape
<1>2. CASE Kind(p, k) = "at"
  <2>1. AtOf(Call(p, k), Cmd(p, k), Extra(p, k))
    BY <1>2, AtCall, Zenon
  <2>2. AtOp(a, Len(Call(p, k)), Call(p, k)[a], Cmd(p, k), Extra(p, k))
    BY <2>1, AtOpIs
  <2>3. QED BY <1>2, <2>2, Zenon DEF OpShape
<1>3. CASE Kind(p, k) = "link"
  <2>1. LinkOp(a, Len(Call(p, k)), Call(p, k)[a], Cmd(p, k))
    BY <1>3, LinkCall, LinkOpIs
  <2>2. QED BY <1>3, <2>1, Zenon DEF OpShape
<1>4. CASE Kind(p, k) = "send"
  <2>1. SendOf(Call(p, k)) /\ Cmd(p, k) = "AT+CIPSEND"
    BY <1>4, SendCall, Zenon
  <2>2. SendOp(a, Len(Call(p, k)), Call(p, k)[a], Cmd(p, k))
    BY <2>1, SendOpIs
  <2>3. QED BY <1>4, <2>2, Zenon DEF OpShape
<1>5. CASE Kind(p, k) \notin Commanding
  <2>1. Kind(p, k) \in {"eat", "conn", "recv"} /\ SingleOf(Call(p, k), Kind(p, k))
    BY <1>5, OtherCalls
  <2>2. SingleOp(Kind(p, k), a, Len(Call(p, k)), Call(p, k)[a])
    BY <2>1, SingleOpIs
  <2>3. QED BY <1>5, <2>2, Zenon DEF OpShape
<1>6. QED BY <1>1, <1>2, <1>3, <1>4, <1>5, Zenon DEF Commanding

-----------------------------------------------------------------------------
(* The lines of an answer, as the operations of the call read them.        *)

\* o, operation a of n, gets the line after r: it is the one it waits for, or
\* it may be passed over.
ItemRead(p, k, a, n, o, r) ==
  LET t == Answer(p, k)[r + 1] IN
  /\ t # ">" /\ a >= 2 /\ a <= n /\ (Kind(p, k) = "send" => a # 5)
  /\ \/ t = o[2] /\ a < n /\ Reading(p, k, a + 1, r + 1)
     \/ t = o[2] /\ a = n /\ r + 1 = Len(Answer(p, k)) /\ (Kind(p, k) = "send" => a >= 6)
     \/ t # o[2] /\ o[1] # "ack" /\ MaySkip(o, t) /\ t # "CONNECT" /\ Reading(p, k, a, r + 1)
Reads(p, k, a, n, o, r) ==
  /\ p \in Progs /\ k \in 1 .. Len(esp_main(p)) /\ a \in DOMAIN Call(p, k)
  /\ n = Len(Call(p, k)) /\ o = Call(p, k)[a]
  /\ o[1] \in {"ack", "expect", "ready"} /\ r \in Nat /\ Reading(p, k, a, r) /\ r < Len(Answer(p, k))

LEMMA ResetItem ==
  ASSUME NEW p, NEW k, NEW a, NEW n, NEW o, NEW r, Reads(p, k, a, n, o, r), Kind(p, k) = "reset"
  PROVE  ItemRead(p, k, a, n, o, r)
<1> DEFINE T == Answer(p, k)
           c == Cmd(p, k)
<1>1. /\ p \in Progs /\ k \in 1 .. Len(esp_main(p)) /\ a \in DOMAIN Call(p, k)
      /\ n = Len(Call(p, k)) /\ o = Call(p, k)[a]
      /\ o[1] \in {"ack", "expect", "ready"} /\ r \in Nat /\ Reading(p, k, a, r) /\ r < Len(T)
  BY Zenon DEF Reads
<1>2. Len(T) = 4 /\ T[1] = c /\ T[2] = "OK" /\ T[3] = "boot" /\ T[4] = "ready" /\ c \in {"AT+RST", "AT+RESTORE"}
  <2>1. c \in {"AT+RST", "AT+RESTORE"}
    BY <1>1, ResetCall
  <2>2. Len(T) = 4 /\ T[1] = c /\ T[2] = "OK" /\ T[3] = "boot" /\ T[4] = "ready"
    BY Answers
  <2>3. QED BY <2>1, <2>2, Zenon
<1>3. ResetOp(a, n, o, c)
  <2>1. ResetOf(Call(p, k), c)
    BY <1>1, ResetCall, Zenon
  <2>2. QED BY <1>1, <2>1, ResetOpIs, Zenon
<1>4. (a <= 2 => r = 0) /\ (a = 3 => r = 1) /\ (a = 4 => r \in {2, 3})
  BY <1>1, Zenon DEF Reading
<1> HIDE DEF T, c
<1>5. \A b, s : Reading(p, k, b, s) <=> (b <= 2 => s = 0) /\ (b = 3 => s = 1) /\ (b = 4 => s \in {2, 3})
  <2>1. "reset" # "at" /\ "reset" # "link" /\ "reset" # "send"
    OBVIOUS
  <2>2. QED BY <2>1, Zenon DEF Reading
<1>6. CASE a = 2
  <2>1. r = 0 /\ r + 1 = 1 /\ a + 1 = 3 /\ n = 4 /\ T[r + 1] = c /\ o[2] = c /\ c # ">"
    BY <1>2, <1>3, <1>4, <1>6 DEF ResetOp
  <2>2. Reading(p, k, a + 1, r + 1)
    BY <1>5, <2>1
  <2>3. QED BY <1>6, <2>1, <2>2 DEF ItemRead, T
<1>7. CASE a = 3
  <2>1. r = 1 /\ r + 1 = 2 /\ a + 1 = 4 /\ n = 4 /\ T[r + 1] = "OK" /\ o[2] = "OK"
    BY <1>2, <1>3, <1>4, <1>7 DEF ResetOp
  <2>2. Reading(p, k, a + 1, r + 1)
    BY <1>5, <2>1
  <2>3. QED BY <1>7, <2>1, <2>2 DEF ItemRead, T
<1>8. CASE a = 4 /\ r = 2
  <2>1. r + 1 = 3 /\ n = 4 /\ T[r + 1] = "boot" /\ o[1] = "ready" /\ o[2] = "ready"
    BY <1>2, <1>3, <1>8 DEF ResetOp
  <2>2. Reading(p, k, a, r + 1)
    BY <1>5, <1>8, <2>1
  <2>3. QED BY <1>8, <2>1, <2>2 DEF ItemRead, MaySkip, T
<1>9. CASE a = 4 /\ r = 3
  <2>1. r + 1 = 4 /\ n = 4 /\ T[r + 1] = "ready" /\ o[2] = "ready"
    BY <1>2, <1>3, <1>9 DEF ResetOp
  <2>2. QED BY <1>2, <1>9, <2>1 DEF ItemRead, T
<1>10. a = 2 \/ a = 3 \/ a = 4
  BY <1>1, <1>3 DEF ResetOp
<1>11. QED BY <1>4, <1>6, <1>7, <1>8, <1>9, <1>10

LEMMA AtItem ==
  ASSUME NEW p, NEW k, NEW a, NEW n, NEW o, NEW r, Reads(p, k, a, n, o, r), Kind(p, k) = "at"
  PROVE  ItemRead(p, k, a, n, o, r)
<1> DEFINE T == Answer(p, k)
           c == Cmd(p, k)
           x == Extra(p, k)
<1>1. /\ p \in Progs /\ k \in 1 .. Len(esp_main(p)) /\ a \in DOMAIN Call(p, k)
      /\ n = Len(Call(p, k)) /\ o = Call(p, k)[a]
      /\ o[1] \in {"ack", "expect", "ready"} /\ r \in Nat /\ Reading(p, k, a, r) /\ r < Len(T)
  BY Zenon DEF Reads
<1>2. /\ c \in Talkative => Len(T) = 3 /\ T[1] = c /\ T[2] = "info" /\ T[3] = "OK"
      /\ c \notin Talkative => Len(T) = 2 /\ T[1] = c /\ T[2] = "OK"
      /\ c \in SetUpCmds /\ (c \in Talkative => x)
  <2>1. /\ c \in Talkative => Len(T) = 3 /\ T[1] = c /\ T[2] = "info" /\ T[3] = "OK"
        /\ c \notin Talkative => Len(T) = 2 /\ T[1] = c /\ T[2] = "OK"
    BY Answers
  <2>2. c \in SetUpCmds /\ (c \in Talkative => x)
    BY <1>1, AtCall, Zenon
  <2>3. QED BY <2>1, <2>2, Zenon
<1>3. AtOp(a, n, o, c, x)
  <2>1. AtOf(Call(p, k), c, x)
    BY <1>1, AtCall, Zenon
  <2>2. QED BY <1>1, <2>1, AtOpIs, Zenon
<1> HIDE DEF c, x
<1>4. (a <= 2 => r = 0) /\ (a = 3 => r \in 1 .. Len(T) - 1)
  BY <1>1, Zenon DEF Reading
<1>5. \A b, s : Reading(p, k, b, s) <=> (b <= 2 => s = 0) /\ (b = 3 => s \in 1 .. Len(T) - 1)
  <2>1. "at" # "reset" /\ "at" # "link" /\ "at" # "send"
    OBVIOUS
  <2>2. QED BY <2>1, Zenon DEF Reading
<1> HIDE DEF T
<1>6. CASE a = 2
  <2>1. r = 0 /\ r + 1 = 1 /\ a + 1 = 3 /\ n = 3 /\ T[r + 1] = c /\ o[2] = c /\ c # ">" /\ 1 \in 1 .. Len(T) - 1
    BY <1>2, <1>3, <1>4, <1>6 DEF AtOp, SetUpCmds
  <2>2. Reading(p, k, a + 1, r + 1)
    BY <1>5, <2>1
  <2>3. QED BY <1>6, <2>1, <2>2 DEF ItemRead, T
<1>7. CASE a = 3 /\ c \in Talkative /\ r = 1
  <2>1. r + 1 = 2 /\ n = 3 /\ T[r + 1] = "info" /\ 2 \in 1 .. Len(T) - 1
    <3>1. Len(T) = 3 /\ T[2] = "info"
      BY <1>2, <1>7, Zenon
    <3>2. n = 3
      BY <1>3, Zenon DEF AtOp
    <3>3. QED BY <1>7, <3>1, <3>2
  <2>2. Reading(p, k, a, r + 1)
    BY <1>5, <1>7, <2>1
  <2>3. MaySkip(o, T[r + 1]) /\ o[1] = "expect" /\ o[2] = "OK"
    <3>1. a # 1 /\ a # 2 /\ "info" # "ERROR"
      BY <1>7
    <3>2. o[1] = "expect" /\ o[2] = "OK" /\ o[3] = x
      BY <1>3, <3>1, Zenon DEF AtOp
    <3>3. o[3]
      BY <1>2, <1>7, <3>2, Zenon
    <3>4. QED BY <2>1, <3>1, <3>2, <3>3, Zenon DEF MaySkip
  <2>4. QED BY <1>7, <2>1, <2>2, <2>3 DEF ItemRead, T
<1>8. CASE a = 3 /\ ~(c \in Talkative /\ r = 1)
  <2>1. n = 3 /\ o[2] = "OK"
    <3>1. a # 1 /\ a # 2
      BY <1>8
    <3>2. QED BY <1>3, <3>1, Zenon DEF AtOp
  <2>2. T[r + 1] = "OK" /\ r + 1 = Len(T)
    <3>1. r \in 1 .. Len(T) - 1
      BY <1>4, <1>8
    <3>2. CASE c \in Talkative
      <4>1. Len(T) = 3 /\ T[3] = "OK" /\ r # 1
        BY <1>2, <1>8, <3>2, Zenon
      <4>2. QED BY <3>1, <4>1
    <3>3. CASE c \notin Talkative
      <4>1. Len(T) = 2 /\ T[2] = "OK"
        BY <1>2, <3>3, Zenon
      <4>2. QED BY <3>1, <4>1
    <3>4. QED BY <3>2, <3>3
  <2>3. QED BY <1>8, <2>1, <2>2 DEF ItemRead, T
<1>9. a = 2 \/ a = 3
  BY <1>1, <1>3 DEF AtOp
<1>10. QED BY <1>6, <1>7, <1>8, <1>9

LEMMA LinkItem ==
  ASSUME NEW p, NEW k, NEW a, NEW n, NEW o, NEW r, Reads(p, k, a, n, o, r), Kind(p, k) = "link"
  PROVE  ItemRead(p, k, a, n, o, r)
<1> DEFINE T == Answer(p, k)
<1>1. /\ p \in Progs /\ k \in 1 .. Len(esp_main(p)) /\ a \in DOMAIN Call(p, k)
      /\ n = Len(Call(p, k)) /\ o = Call(p, k)[a]
      /\ o[1] \in {"ack", "expect", "ready"} /\ r \in Nat /\ Reading(p, k, a, r) /\ r < Len(T)
  BY Zenon DEF Reads
<1>2. Len(T) = 3 /\ T[1] = "AT+CIPSTART" /\ T[2] = "CONNECT" /\ T[3] = "OK"
  <2>1. Len(T) = 3 /\ T[1] = Cmd(p, k) /\ T[2] = "CONNECT" /\ T[3] = "OK"
    BY Answers
  <2>2. Cmd(p, k) = "AT+CIPSTART"
    BY <1>1, LinkCall, Zenon
  <2>3. QED BY <2>1, <2>2, Zenon
<1>3. LinkOp(a, n, o, "AT+CIPSTART")
  <2>1. LinkOf(Call(p, k))
    BY <1>1, LinkCall, Zenon
  <2>2. QED BY <1>1, <2>1, LinkOpIs, Zenon
<1>4. (a <= 2 => r = 0) /\ (a >= 3 => r = a - 2)
  BY <1>1, Zenon DEF Reading
<1> HIDE DEF T
<1>5. \A b, s : Reading(p, k, b, s) <=> (b <= 2 => s = 0) /\ (b >= 3 => s = b - 2)
  <2>1. "link" # "reset" /\ "link" # "at" /\ "link" # "send"
    OBVIOUS
  <2>2. QED BY <2>1, Zenon DEF Reading
<1>6. CASE a = 2
  <2>1. r = 0 /\ r + 1 = 1 /\ a + 1 = 3 /\ n = 4 /\ T[r + 1] = "AT+CIPSTART" /\ o[2] = "AT+CIPSTART"
    BY <1>2, <1>3, <1>4, <1>6 DEF LinkOp
  <2>2. Reading(p, k, a + 1, r + 1)
    BY <1>5, <2>1
  <2>3. QED BY <1>6, <2>1, <2>2 DEF ItemRead, T
<1>7. CASE a = 3
  <2>1. r = 1 /\ r + 1 = 2 /\ a + 1 = 4 /\ n = 4 /\ T[r + 1] = "CONNECT" /\ o[2] = "CONNECT"
    BY <1>2, <1>3, <1>4, <1>7 DEF LinkOp
  <2>2. Reading(p, k, a + 1, r + 1)
    BY <1>5, <2>1
  <2>3. QED BY <1>7, <2>1, <2>2 DEF ItemRead, T
<1>8. CASE a = 4
  <2>1. r + 1 = 3 /\ n = 4 /\ T[r + 1] = "OK" /\ o[2] = "OK"
    BY <1>2, <1>3, <1>4, <1>8 DEF LinkOp
  <2>2. QED BY <1>2, <1>8, <2>1 DEF ItemRead, T
<1>9. a = 2 \/ a = 3 \/ a = 4
  BY <1>1, <1>3 DEF LinkOp
<1>10. QED BY <1>6, <1>7, <1>8, <1>9

LEMMA SendItem ==
  ASSUME NEW p, NEW k, NEW a, NEW n, NEW o, NEW r, Reads(p, k, a, n, o, r), Kind(p, k) = "send"
  PROVE  ItemRead(p, k, a, n, o, r)
<1> DEFINE T == Answer(p, k)
<1>1. /\ p \in Progs /\ k \in 1 .. Len(esp_main(p)) /\ a \in DOMAIN Call(p, k)
      /\ n = Len(Call(p, k)) /\ o = Call(p, k)[a]
      /\ o[1] \in {"ack", "expect", "ready"} /\ r \in Nat /\ Reading(p, k, a, r) /\ r < Len(T)
  BY Zenon DEF Reads
<1>2. Len(T) = 5 /\ T[1] = "AT+CIPSEND" /\ T[2] = "OK" /\ T[4] = "Recv" /\ T[5] = "SENT"
  <2>1. Len(T) = 5 /\ T[1] = Cmd(p, k) /\ T[2] = "OK" /\ T[4] = "Recv" /\ T[5] = "SENT"
    BY Answers
  <2>2. Cmd(p, k) = "AT+CIPSEND"
    BY <1>1, SendCall, Zenon
  <2>3. QED BY <2>1, <2>2, Zenon
<1>3. SendOp(a, n, o, "AT+CIPSEND")
  <2>1. SendOf(Call(p, k))
    BY <1>1, SendCall, Zenon
  <2>2. QED BY <1>1, <2>1, SendOpIs, Zenon
<1>4. (a <= 2 => r = 0) /\ (a \in 3 .. 5 => r = a - 2) /\ (a \in 6 .. 7 => r = a - 3)
  BY <1>1, Zenon DEF Reading
<1> HIDE DEF T
<1>5. \A b, s : Reading(p, k, b, s) <=>
        (b <= 2 => s = 0) /\ (b \in 3 .. 5 => s = b - 2) /\ (b \in 6 .. 7 => s = b - 3)
  <2>1. "send" # "reset" /\ "send" # "at" /\ "send" # "link"
    OBVIOUS
  <2>2. QED BY <2>1, Zenon DEF Reading
<1>6. CASE a = 2
  <2>1. r = 0 /\ r + 1 = 1 /\ a + 1 = 3 /\ n = 7 /\ T[r + 1] = "AT+CIPSEND" /\ o[2] = "AT+CIPSEND"
    BY <1>2, <1>3, <1>4, <1>6 DEF SendOp
  <2>2. Reading(p, k, a + 1, r + 1)
    BY <1>5, <2>1
  <2>3. QED BY <1>6, <2>1, <2>2 DEF ItemRead, T
<1>7. CASE a = 3
  <2>1. r = 1 /\ r + 1 = 2 /\ a + 1 = 4 /\ n = 7 /\ T[r + 1] = "OK" /\ o[2] = "OK"
    BY <1>2, <1>3, <1>4, <1>7 DEF SendOp
  <2>2. Reading(p, k, a + 1, r + 1)
    BY <1>5, <2>1
  <2>3. QED BY <1>7, <2>1, <2>2 DEF ItemRead, T
<1>8. CASE a = 6
  <2>1. r = 3 /\ r + 1 = 4 /\ a + 1 = 7 /\ n = 7 /\ T[r + 1] = "Recv" /\ o[2] = "Recv"
    BY <1>2, <1>3, <1>4, <1>8 DEF SendOp
  <2>2. Reading(p, k, a + 1, r + 1)
    BY <1>5, <2>1
  <2>3. QED BY <1>8, <2>1, <2>2 DEF ItemRead, T
<1>9. CASE a = 7
  <2>1. r + 1 = 5 /\ n = 7 /\ T[r + 1] = "SENT" /\ o[2] = "SENT"
    BY <1>2, <1>3, <1>4, <1>9 DEF SendOp
  <2>2. QED BY <1>2, <1>9, <2>1 DEF ItemRead, T
<1>10. a = 2 \/ a = 3 \/ a = 6 \/ a = 7
  BY <1>1, <1>3 DEF SendOp
<1>11. QED BY <1>6, <1>7, <1>8, <1>9, <1>10

\* A line of the answer is the one the operation waits for, or is passed over.
LEMMA Item ==
  ASSUME NEW p, NEW k, NEW a, NEW n, NEW o, NEW r, Reads(p, k, a, n, o, r)
  PROVE  ItemRead(p, k, a, n, o, r)
<1>1. Kind(p, k) \in Commanding
  <2>1. Kind(p, k) \notin Commanding => Len(Answer(p, k)) = 0
    BY Answers, Zenon
  <2>2. r \in Nat /\ r < Len(Answer(p, k))
    BY Zenon DEF Reads
  <2>3. QED BY <2>1, <2>2
<1>2. QED BY <1>1, ResetItem, AtItem, LinkItem, SendItem DEF Commanding

-----------------------------------------------------------------------------
(* A line is read.                                                         *)

LEMMA PrintedOn ==
  ASSUME NEW p, NEW k, NEW a \in Nat, NEW j, NEW c, NEW g, NEW r \in Nat, NEW m \in Nat,
         Printed(p, k, a, j, c, g, m), a >= 2, r < m, Kind(p, k) = "send" => a # 5
  PROVE  Printed(p, k, a + 1, j, c, g, m)
<1>1. m # 0 /\ a # 1 /\ a + 1 >= 2 /\ (a >= 6 => a + 1 >= 6) /\ (a # 5 => (a >= 6 <=> a + 1 >= 6))
  OBVIOUS
<1>2. Kind(p, k) \in Commanding
  BY <1>1, Zenon DEF Printed
<1>3. \/ m = 1 /\ j = Cmd(p, k) /\ c = <<>>
      \/ m = Len(Answer(p, k)) /\ j = "none" /\ c = <<>> /\ (Kind(p, k) = "send" => a >= 6)
      \/ Kind(p, k) = "reset" /\ m = 2 /\ j = "boot" /\ c = <<>>
      \/ Kind(p, k) = "send" /\ m = 3 /\ j = "data" /\ c = IF a >= 6 THEN g ELSE <<>>
  BY <1>1, <1>2, Zenon DEF Printed
<1>4. QED BY <1>1, <1>2, <1>3, Zenon DEF Printed

LEMMA PrintedAll ==
  ASSUME NEW p \in Progs, NEW k \in Places(p), NEW a, NEW j, NEW c, NEW g, NEW r \in Nat, NEW m \in Nat,
         Printed(p, k, a, j, c, g, m), r < m, m <= Len(Answer(p, k)), r + 1 = Len(Answer(p, k))
  PROVE  m = r + 1 /\ j = "none" /\ c = <<>>
<1>1. m = r + 1 /\ m # 0
  OBVIOUS
<1>2. Kind(p, k) \in Commanding /\ Len(Answer(p, k)) >= 2
  <2>1. Kind(p, k) \in Commanding
    BY <1>1, Zenon DEF Printed
  <2>2. QED BY <2>1, AnswerLines, Zenon
<1>3. m # 1
  BY <1>2
<1>4. (Kind(p, k) = "reset" => m # 2) /\ (Kind(p, k) = "send" => m # 3)
  <2>1. /\ Kind(p, k) = "reset" => Len(Answer(p, k)) = 4
        /\ Kind(p, k) = "send" => Len(Answer(p, k)) = 5
    BY Answers
  <2>2. 4 # 2 /\ 5 # 3
    OBVIOUS
  <2>3. QED BY <1>1, <2>1, <2>2, Zenon
<1>5. QED BY <1>1, <1>2, <1>3, <1>4, Zenon DEF Printed

\* Nothing was said yet when a call begins.
LEMMA Begun ==
  ASSUME NEW p, NEW k, NEW I, NEW W, NEW g, NEW l, NEW s, Staged(p, k, I, W, l, s, 0, 0)
  PROVE  Talks(p, k, 1, "none", <<>>, I, W, g, l, s)
<1>1. PICK a, z : a = 1 /\ z = 0
  OBVIOUS
<1>2. z \in Nat /\ a <= 2 /\ a # 3 /\ a # 4 /\ ~(a >= 3) /\ a \notin 3 .. 5 /\ a \notin 6 .. 7
  BY <1>1
<1>3. Reading(p, k, a, z)
  BY <1>1, <1>2, Zenon DEF Reading
<1>4. Printed(p, k, a, "none", <<>>, g, z)
  BY <1>1, Zenon DEF Printed
<1>5. Talks(p, k, a, "none", <<>>, I, W, g, l, s)
  BY <1>1, <1>2, <1>3, <1>4, Zenon DEF Talks
<1>6. QED BY <1>1, <1>5, Zenon

\* t was the first line of the input and J is left of it.
LineGone(p, k, t, J, W, l, s, r, m) ==
  \/ r < m /\ t = Answer(p, k)[r + 1] /\ Staged(p, k, J, W, l, s, r + 1, m)
  \/ /\ p = "server" /\ l /\ k <= 16 /\ (k = 10 => 2 \notin r + 1 .. m) /\ t = "CONNECT"
     /\ Unconnected(p, k, J, W, r, m)
Hears(p, k, a, n, o, j, c, J, W, g, l, s, t) ==
  \/ /\ t = o[2] /\ a >= 2 /\ a < n /\ (Kind(p, k) = "send" => a # 5)
     /\ Talks(p, k, a + 1, j, c, J, W, g, l, s)
  \/ /\ t = o[2] /\ a = n /\ j = "none" /\ c = <<>> /\ (Kind(p, k) = "send" => a >= 6)
     /\ (p = "server" /\ k = 16 => l) /\ Talks(p, k + 1, 1, j, c, J, W, g, l, s)
  \/ /\ t # o[2] /\ (IF o[1] = "ack" THEN p = "server" /\ k <= 15 ELSE MaySkip(o, t))
     /\ Talks(p, k, a, j, c, J, W, g, l, s \/ (p = "server" /\ t = "CONNECT"))
Hearing(p, k, a, n, o, j, c, g, l, s, r, m) ==
  /\ p \in Progs /\ k \in 1 .. Len(esp_main(p)) /\ a \in DOMAIN Call(p, k) /\ a \in Nat
  /\ n = Len(Call(p, k)) /\ o = Call(p, k)[a]
  /\ r \in Nat /\ m \in Nat /\ r <= m /\ m <= Len(Answer(p, k))
  /\ Reading(p, k, a, r) /\ Printed(p, k, a, j, c, g, m) /\ (p = "server" /\ l => UpOf(k, a, j))
  /\ l \in BOOLEAN /\ s \in BOOLEAN

LEMMA HearItem ==
  ASSUME NEW p, NEW k, NEW a, NEW n, NEW o, NEW j, NEW c, NEW g, NEW l, NEW s, NEW r, NEW m, NEW J, NEW W, NEW t,
         Hearing(p, k, a, n, o, j, c, g, l, s, r, m), o[1] \in {"ack", "expect", "ready"},
         r < m, t = Answer(p, k)[r + 1], Staged(p, k, J, W, l, s, r + 1, m)
  PROVE  Hears(p, k, a, n, o, j, c, J, W, g, l, s, t)
<1>1. /\ p \in Progs /\ k \in 1 .. Len(esp_main(p)) /\ a \in DOMAIN Call(p, k) /\ a \in Nat
      /\ n = Len(Call(p, k)) /\ o = Call(p, k)[a]
      /\ r \in Nat /\ m \in Nat /\ r <= m /\ m <= Len(Answer(p, k))
      /\ Reading(p, k, a, r) /\ Printed(p, k, a, j, c, g, m) /\ (p = "server" /\ l => UpOf(k, a, j))
      /\ s \in BOOLEAN
  BY Zenon DEF Hearing
<1>2. k \in Places(p) /\ Len(Answer(p, k)) \in Nat /\ r < Len(Answer(p, k)) /\ k + 1 \in Places(p) /\ k \in Nat
  <2>1. Len(esp_main(p)) \in Nat
    BY <1>1, Sizes
  <2>2. k \in Places(p) /\ k + 1 \in Places(p) /\ k \in Nat
    BY <1>1, <2>1 DEF Places
  <2>3. Len(Answer(p, k)) \in Nat
    BY <1>1, <2>2, AnswerLines
  <2>4. QED BY <1>1, <2>2, <2>3
<1>3. ItemRead(p, k, a, n, o, r)
  <2>1. Reads(p, k, a, n, o, r)
    BY <1>1, <1>2, Zenon DEF Reads
  <2>2. QED BY <2>1, Item
<1>4. r + 1 \in Nat
  BY <1>1
<1>5. CASE t = o[2] /\ a < n /\ Reading(p, k, a + 1, r + 1)
  <2>1. a >= 2 /\ (Kind(p, k) = "send" => a # 5)
    BY <1>3, Zenon DEF ItemRead
  <2>2. Printed(p, k, a + 1, j, c, g, m)
    BY <1>1, <2>1, PrintedOn
  <2>3. Talks(p, k, a + 1, j, c, J, W, g, l, s)
    BY <1>1, <1>4, <1>5, <2>2, Zenon DEF Talks
  <2>4. QED BY <1>5, <2>1, <2>3, Zenon DEF Hears
<1>6. CASE t = o[2] /\ a = n /\ r + 1 = Len(Answer(p, k)) /\ (Kind(p, k) = "send" => a >= 6)
  <2>1. m = r + 1 /\ j = "none" /\ c = <<>>
    BY <1>1, <1>2, <1>6, PrintedAll, Zenon
  <2>2. p = "server" => k # 16 /\ (k = 9 => ~l)
    <3>1. ASSUME p = "server", k = 16 PROVE FALSE
      <4>1. Kind(p, k) = "conn"
        BY <1>1, <3>1, FirstKinds
      <4>2. Len(Answer(p, k)) = 0
        BY <4>1, Answers DEF Commanding
      <4>3. QED BY <1>1, <1>2, <4>2
    <3>2. ASSUME p = "server", k = 9, l PROVE FALSE
      BY <1>1, <3>2 DEF UpOf
    <3>3. QED BY <3>1, <3>2
  <2>3. Staged(p, k + 1, J, W, l, s, 0, 0)
    <3>1. Len(Answer(p, k + 1)) \in Nat
      BY <1>1, <1>2, AnswerLines
    <3>2. Staged(p, k, J, W, l, s, m, m)
      BY <2>1, Zenon
    <3>3. QED BY <1>2, <2>2, <3>1, <3>2, NextCall, Zenon
  <2>4. Talks(p, k + 1, 1, j, c, J, W, g, l, s)
    BY <2>1, <2>3, Begun, Zenon
  <2>5. QED BY <1>6, <2>1, <2>2, <2>4, Zenon DEF Hears
<1>7. CASE t # o[2] /\ o[1] # "ack" /\ MaySkip(o, t) /\ t # "CONNECT" /\ Reading(p, k, a, r + 1)
  <2>1. Talks(p, k, a, j, c, J, W, g, l, s)
    BY <1>1, <1>4, <1>7, Zenon DEF Talks
  <2>2. (s \/ (p = "server" /\ t = "CONNECT")) = s
    BY <1>1, <1>7
  <2>3. QED BY <1>7, <2>1, <2>2, Zenon DEF Hears
<1>8. QED BY <1>3, <1>5, <1>6, <1>7, Zenon DEF ItemRead

LEMMA Places10 ==
  \A n \in Nat : \A k \in 1 .. n :
    k <= 16 /\ (k > 10 \/ k = 10) => k = 16 \/ (k \in 10 .. 15 /\ k \in Int /\ (k = 10 \/ k > 10))
OBVIOUS

LEMMA HearConnect ==
  ASSUME NEW p, NEW k, NEW a, NEW n, NEW o, NEW j, NEW c, NEW g, NEW l, NEW s, NEW r, NEW m, NEW J, NEW W, NEW t,
         Hearing(p, k, a, n, o, j, c, g, l, s, r, m), o[1] \in {"ack", "expect", "ready", "conn"},
         p = "server", l, k <= 16, k = 10 => 2 \notin r + 1 .. m, t = "CONNECT", Unconnected(p, k, J, W, r, m)
  PROVE  Hears(p, k, a, n, o, j, c, J, W, g, l, s, t)
<1>1. /\ p \in Progs /\ k \in 1 .. Len(esp_main(p)) /\ a \in DOMAIN Call(p, k) /\ a \in Nat
      /\ n = Len(Call(p, k)) /\ o = Call(p, k)[a]
      /\ r \in Nat /\ m \in Nat /\ r <= m /\ m <= Len(Answer(p, k))
      /\ Reading(p, k, a, r) /\ Printed(p, k, a, j, c, g, m) /\ UpOf(k, a, j)
      /\ s \in BOOLEAN
  BY Zenon DEF Hearing
<1>2. k = 16 \/ (k \in 10 .. 15 /\ k \in Int /\ (k = 10 \/ k > 10))
  <2>1. Len(esp_main(p)) \in Nat
    BY <1>1, Sizes
  <2>2. k > 10 \/ k = 10
    BY <1>1, Zenon DEF UpOf
  <2>3. QED BY <1>1, <2>1, <2>2, Places10, Zenon
<1>3. CASE k = 16
  <2>1. Kind(p, k) = "conn" /\ Kind(p, k) \notin Commanding
    BY <1>1, <1>3, FirstKinds DEF Commanding
  <2>2. SingleOp(Kind(p, k), a, n, o)
    <3>1. SingleOf(Call(p, k), Kind(p, k)) /\ Kind(p, k) \in {"eat", "conn", "recv"}
      BY <1>1, <2>1, OtherCalls, Zenon
    <3>2. QED BY <1>1, <3>1, SingleOpIs
  <2>3. a = 1 /\ n = 1 /\ o[2] = "CONNECT"
    BY <2>1, <2>2 DEF SingleOp
  <2>4. m = 0 /\ j = "none" /\ c = <<>>
    BY <2>1, Zenon, <1>1 DEF Printed
  <2>5. r = 0
    BY <1>1, <2>4
  <2>6. Unconnected(p, k, J, W, m, m)
    BY <2>4, <2>5, Zenon
  <2>7. k + 1 \in Nat /\ k + 1 > 16 /\ Len(Answer(p, k + 1)) \in Nat
    <3>1. k + 1 \in Places(p)
      <4>1. Len(esp_main(p)) \in Nat
        BY <1>1, Sizes
      <4>2. QED BY <1>1, <1>3, <4>1 DEF Places
    <3>2. QED BY <1>1, <1>3, <3>1, AnswerLines
  <2>8. Staged(p, k + 1, J, W, l, s, 0, 0)
    BY <2>6, <2>7, NextFromConn, Zenon
  <2>9. Talks(p, k + 1, 1, j, c, J, W, g, l, s)
    BY <2>4, <2>8, Begun, Zenon
  <2>10. Kind(p, k) # "send"
    BY <2>1
  <2>11. QED BY <2>3, <2>4, <2>9, <2>10, Zenon DEF Hears
<1>4. CASE k \in 10 .. 15
  <2>1. Kind(p, k) = "at"
    BY <1>1, <1>4, FirstKinds
  <2>2. AtOp(a, n, o, Cmd(p, k), Extra(p, k))
    <3>1. AtOf(Call(p, k), Cmd(p, k), Extra(p, k))
      BY <1>1, <2>1, AtCall, Zenon
    <3>2. QED BY <1>1, <3>1, AtOpIs, Zenon
  <2>3. Staged(p, k, J, W, l, TRUE, r, m)
    BY Missed
  <2>4. (s \/ (p = "server" /\ t = "CONNECT")) = TRUE
    BY <1>1
  <2>5. Talks(p, k, a, j, c, J, W, g, l, s \/ (p = "server" /\ t = "CONNECT"))
    BY <1>1, <2>3, <2>4, Zenon DEF Talks
  <2>6. a = 2 \/ a = 3
    <3>1. o[1] # "puts"
      OBVIOUS
    <3>2. QED BY <2>2, <3>1, Zenon DEF AtOp
  <2>7. CASE a = 2
    <3>1. o[1] = "ack" /\ o[2] = Cmd(p, k)
      <4>1. a # 1 /\ a # 3
        BY <2>7
      <4>2. QED BY <2>2, <4>1, Zenon DEF AtOp
    <3>2. Cmd(p, k) # "CONNECT"
      <4>1. Cmd(p, k) \in SetUpCmds
        BY <1>1, <2>1, AtCall, Zenon
      <4>2. QED BY <4>1 DEF SetUpCmds
    <3>3. k <= 15
      BY <1>4
    <3>4. QED BY <2>5, <3>1, <3>2, <3>3, Zenon DEF Hears
  <2>8. CASE a = 3
    <3>1. o[1] = "expect" /\ o[2] = "OK" /\ o[3] = Extra(p, k)
      <4>1. a # 1 /\ a # 2
        BY <2>8
      <4>2. QED BY <2>2, <4>1, Zenon DEF AtOp
    <3>2. "CONNECT" # "OK" /\ "CONNECT" # "ERROR" /\ "expect" # "ack"
      OBVIOUS
    <3>3. k > 10
      <4>1. ASSUME k = 10 PROVE FALSE
        <5>1. j = "none"
          BY <1>1, <4>1 DEF UpOf
        <5>2. Cmd(p, k) = "AT+CIPSERVER" /\ Cmd(p, k) # "none"
          <6>1. Cmd(p, k) = "AT+CIPSERVER" <=> (p = "server" /\ k = 10)
            BY <1>1, <2>1, AtCall
          <6>2. QED BY <4>1, <6>1
        <5>3. Len(Answer(p, k)) = 2
          <6>1. "AT+CIPSERVER" \notin Talkative
            BY DEF Talkative
          <6>2. QED BY <2>1, <5>2, <6>1, Answers
        <5>4. m = 2
          <6>1. a # 1 /\ a # 2 /\ "at" \in Commanding /\ "at" # "send" /\ "at" # "reset"
            BY <2>8 DEF Commanding
          <6>2. QED BY <1>1, <2>1, <5>1, <5>2, <5>3, <6>1, Zenon DEF Printed
        <5>5. r = 1
          <6>1. r \in 1 .. Len(Answer(p, k)) - 1
            BY <1>1, <2>1, <2>8, Zenon DEF Reading
          <6>2. r \in 1 .. 2 - 1
            BY <5>3, <6>1, Zenon
          <6>3. QED BY <6>2
        <5>6. 2 \notin r + 1 .. m
          BY <4>1
        <5>7. QED BY <5>4, <5>5, <5>6
      <4>2. QED BY <1>2, <1>4, <4>1
    <3>4. Extra(p, k)
      BY <1>1, <2>1, <3>3, AtCall, Zenon
    <3>5. MaySkip(o, t)
      BY <3>1, <3>2, <3>4, Zenon DEF MaySkip
    <3>6. QED BY <2>5, <3>1, <3>2, <3>5, Zenon DEF Hears
  <2>9. QED BY <2>6, <2>7, <2>8
<1>5. QED BY <1>2, <1>3, <1>4, Zenon

\* The program reads a line.
LEMMA Hear ==
  ASSUME NEW p, NEW k, NEW a, NEW n, NEW o, NEW j, NEW c, NEW g, NEW l, NEW s, NEW r, NEW m, NEW J, NEW W, NEW t,
         Hearing(p, k, a, n, o, j, c, g, l, s, r, m), o[1] \in {"ack", "expect", "ready", "conn"},
         LineGone(p, k, t, J, W, l, s, r, m)
  PROVE  Hears(p, k, a, n, o, j, c, J, W, g, l, s, t)
<1>1. CASE r < m /\ t = Answer(p, k)[r + 1] /\ Staged(p, k, J, W, l, s, r + 1, m)
  <2>1. p \in Progs /\ k \in 1 .. Len(esp_main(p)) /\ a \in DOMAIN Call(p, k) /\ o = Call(p, k)[a]
        /\ Printed(p, k, a, j, c, g, m) /\ r \in Nat /\ m \in Nat
    BY Zenon DEF Hearing
  <2>2. Kind(p, k) \in Commanding
    <3>1. m # 0
      BY <1>1, <2>1
    <3>2. QED BY <2>1, <3>1, Zenon DEF Printed
  <2>3. o[1] # "conn"
    <3>1. OpShape(Kind(p, k), a, Len(Call(p, k)), o, Cmd(p, k), Extra(p, k))
      BY <2>1, OpIs, Zenon
    <3>2. "puts" # "conn" /\ "ack" # "conn" /\ "expect" # "conn" /\ "ready" # "conn" /\ "prompt" # "conn"
          /\ "data" # "conn"
      OBVIOUS
    <3>3. QED BY <2>2, <3>1, <3>2, Zenon DEF OpShape, ResetOp, AtOp, LinkOp, SendOp
  <2>4. o[1] \in {"ack", "expect", "ready"}
    BY <2>3
  <2>5. QED BY <1>1, <2>4, HearItem, Zenon
<1>2. CASE /\ p = "server" /\ l /\ k <= 16 /\ (k = 10 => 2 \notin r + 1 .. m) /\ t = "CONNECT"
           /\ Unconnected(p, k, J, W, r, m)
  BY <1>2, HearConnect, Zenon
<1>3. QED BY <1>1, <1>2, Zenon DEF LineGone

\* While a message waits, the program has not read the whole answer.
LEMMA Behind ==
  ASSUME Good, NEW p \in Progs, Kind(p, call[p]) # "recv", NEW r \in Nat, NEW m \in Nat, r <= m,
         Reading(p, call[p], at[p], r),
         Printed(p, call[p], at[p], job[p], cmds[p], Messages[Sent(p) + 1], m),
         There(p)
  PROVE  r < m \/ Len(Waiting(p)) = 0
<1> DEFINE k == call[p]
           a == at[p]
           T == Answer(p, k)
<1>1. SUFFICES ASSUME Len(Waiting(p)) # 0 PROVE r < m
  OBVIOUS
<1>2. \/ Given(Kind(p, k), a, job[p])
      \/ p = "client" /\ k = 8 /\ a >= 2 /\ cmds[p] = <<>> /\ job[p] = "none"
  BY <1>1, WaitingNow, Zenon DEF Awaits
<1>3. k \in 1 .. Len(esp_main(p)) /\ a \in DOMAIN Call(p, k) /\ k \in Places(p)
  <2>1. k \in Places(p)
    BY Now, Zenon DEF Place
  <2>2. QED BY <2>1, Zenon DEF There
<1>4. Printed(p, k, a, job[p], cmds[p], Messages[Sent(p) + 1], m) /\ Reading(p, k, a, r)
  OBVIOUS
<1> HIDE DEF k, a, T
<1>5. CASE Given(Kind(p, k), a, job[p])
  <2>1. Kind(p, k) = "send" /\ a >= 6 /\ job[p] = "none"
    BY <1>5, Zenon DEF Given
  <2>2. a \in 1 .. 7 /\ Cmd(p, k) # "none" /\ Len(T) = 5
    <3>1. Cmd(p, k) = "AT+CIPSEND" /\ DOMAIN Call(p, k) = 1 .. 7
      BY <1>3, <2>1, SendCall, Zenon DEF SendOf
    <3>2. Len(T) = 5
      BY <2>1, Answers DEF T
    <3>3. QED BY <1>3, <3>1, <3>2
  <2>3. m = 5
    <3>1. a # 1 /\ a # 2 /\ "send" # "reset" /\ "none" # "data" /\ "none" # "boot"
      BY <2>1, <2>2
    <3>2. "send" \in Commanding
      BY DEF Commanding
    <3>3. QED BY <1>4, <2>1, <2>2, <3>1, <3>2, Zenon DEF Printed, T
  <2>4. r = a - 3
    <3>1. a \in 6 .. 7
      BY <2>1, <2>2
    <3>2. QED BY <1>4, <2>1, <3>1, Zenon DEF Reading
  <2>5. QED BY <2>2, <2>3, <2>4
<1>6. CASE p = "client" /\ k = 8 /\ a >= 2 /\ cmds[p] = <<>> /\ job[p] = "none"
  <2>1. Kind(p, k) = "link"
    BY <1>6, FirstKinds
  <2>2. a \in 1 .. 4 /\ Cmd(p, k) # "none" /\ Len(T) = 3
    <3>1. Cmd(p, k) = "AT+CIPSTART" /\ DOMAIN Call(p, k) = 1 .. 4
      BY <1>3, <2>1, LinkCall, Zenon DEF LinkOf
    <3>2. Len(T) = 3
      BY <2>1, Answers DEF T
    <3>3. QED BY <1>3, <3>1, <3>2
  <2>3. m = 3
    <3>1. a # 1 /\ "link" # "reset" /\ "link" # "send" /\ "none" # "data" /\ "none" # "boot"
      BY <1>6, <2>2
    <3>2. "link" \in Commanding /\ cmds[p] # <<Cmd(p, k), "eol">>
      <4>1. <<Cmd(p, k), "eol">> # <<>>
        OBVIOUS
      <4>2. QED BY <1>6, <4>1 DEF Commanding
    <3>3. QED BY <1>4, <1>6, <2>1, <2>2, <3>1, <3>2, Zenon DEF Printed, T
  <2>4. r <= 2
    <3>1. a = 2 => r = 0
      BY <1>4, <2>2 DEF Reading
    <3>2. a >= 3 => r = a - 2
      BY <1>4, <2>1, Zenon DEF Reading
    <3>3. QED BY <1>6, <2>2, <3>1, <3>2
  <2>5. QED BY <2>3, <2>4
<1>7. QED BY <1>2, <1>5, <1>6

LEMMA LinkedUp == ASSUME Good PROVE linked => UpOf(call["server"], at["server"], job["server"])
<1>1. Linking
  BY Zenon DEF Good, Core
<1>2. linked => Asked
  BY <1>1, Zenon DEF Linking, LinkDone, Asked, LinkedOf, AskedOf
<1>3. QED BY <1>1, <1>2, Zenon DEF Linking, ServerUp

LineOps == {"ack", "expect", "ready", "conn"}

LEMMA FirstGone ==
  ASSUME NEW p, NEW k, NEW I, NEW W, NEW l, NEW s, NEW r, NEW m, NEW q, NEW J, NEW d,
         AtFront(p, k, I, W, l, s, r, m, q), I[q + 1] = "eol" => Drops(I, J, q, d),
         r < m => Answer(p, k)[r + 1] # ">"
  PROVE  LineGone(p, k, I[q], J, W, l, s, r, m)
<1>1. CASE FrontConnect(p, k, I, W, l, r, m, q)
  <2>1. /\ p = "server" /\ l /\ k <= 16 /\ I[q] = "CONNECT" /\ I[q + 1] = "eol"
        /\ k = 10 => 2 \notin r + 1 .. m
    BY <1>1, Zenon DEF FrontConnect
  <2>2. Unconnected(p, k, J, W, r, m)
    BY <1>1, <2>1, Zenon DEF FrontConnect
  <2>3. QED BY <2>1, <2>2, Zenon DEF LineGone
<1>2. CASE FrontItem(p, k, I, W, l, s, r, m, q)
  <2>1. r < m /\ I[q] = Answer(p, k)[r + 1] /\ I[q + 1] = "eol"
    BY <1>2, Zenon DEF FrontItem
  <2>2. Staged(p, k, J, W, l, s, r + 1, m)
    BY <1>2, <2>1, Zenon DEF FrontItem
  <2>3. QED BY <2>1, <2>2, Zenon DEF LineGone
<1>3. QED BY <1>1, <1>2, FrontIs

\* A program reads a line.
LEMMA Heard ==
  ASSUME Good, NEW p \in Progs, There(p), Op(p)[1] \in LineOps, LineEnd(Body(stream[p])) > 0
  PROVE  /\ AfterLine(Body(stream[p])) \in Seq(Tok)
         /\ Hears(p, call[p], at[p], Len(Call(p, call[p])), Op(p), job[p], cmds[p],
                  AfterLine(Body(stream[p])) \o wire[p], Waiting(p), Messages[Sent(p) + 1], linked, missed,
                  Body(stream[p])[1])
<1> DEFINE k == call[p]
           a == at[p]
           I == Input(p)
           W == Waiting(p)
           g == Messages[Sent(p) + 1]
           b == Body(stream[p])
           J == AfterLine(b) \o wire[p]
<1>1. /\ Typed(p) /\ Place(p, k, Had(p)) /\ Own(p)
  BY Now
<1>2. PICK r, m \in Nat : /\ Reading(p, k, a, r) /\ Printed(p, k, a, job[p], cmds[p], g, m)
                          /\ Staged(p, k, I, W, linked, missed, r, m)
  BY <1>1, Zenon DEF Own, Talks
<1>3. Len(W) \in Nat /\ (Len(W) > 0 => W[1] # "eol") /\ Len(I) \in Nat /\ k \in Places(p)
  BY <1>1, WaitingNow, Zenon DEF Typed, Place
<1>4. r <= m /\ m <= Len(Answer(p, k))
  BY <1>2, <1>3, MessageThere, Zenon
<1>5. k \in 1 .. Len(esp_main(p)) /\ a \in DOMAIN Call(p, k) /\ Op(p) = Call(p, k)[a]
  BY Zenon DEF There, Op, Call
<1>6. OpShape(Kind(p, k), a, Len(Call(p, k)), Op(p), Cmd(p, k), Extra(p, k))
  BY <1>5, OpIs, Zenon
<1>7. Kind(p, k) # "recv" /\ (Kind(p, k) \notin Commanding => Op(p)[1] = "conn" \/ Op(p)[1] = "eat")
  <2>1. "recv" \notin Commanding /\ "recv" # "eat" /\ "recv" # "conn" /\ "recv" \notin LineOps
        /\ "reset" \in Commanding /\ "at" \in Commanding /\ "link" \in Commanding /\ "send" \in Commanding
    BY DEF Commanding, LineOps
  <2>2. QED BY <1>6, <2>1, Zenon DEF OpShape, SingleOp
<1>8. r < m \/ Len(W) = 0
  BY <1>2, <1>4, <1>7, Behind, Zenon
<1>9. /\ stream[p] \in Seq(Tok) /\ wire[p] \in Seq(Tok) /\ I = stream[p] \o wire[p] /\ a \in Nat
  BY <1>1, Zenon DEF Typed, Input
<1>10. PICK q \in 1 .. Len(I) - 1 :
           /\ FirstAt(I, q) /\ b[1] = I[q]
           /\ I[q + 1] = "eol" => \E d \in q + 1 .. Len(I) :
                /\ \A i \in q + 1 .. d : I[i] = "eol"
                /\ AfterLine(b) \in Seq(Tok) /\ Dropped(I, d, J)
  <2>1. LineEnd(Body(stream[p])) > 0
    OBVIOUS
  <2> HIDE DEF I
  <2>2. TookLine(Tok, Body(stream[p]), wire[p], I)
    BY <1>9, <2>1, LineTaken
  <2>3. QED BY <2>2, Zenon DEF TookLine
<1> HIDE DEF I, W, J, b, g, k, a
<1>11. PICK d : I[q + 1] = "eol" => Drops(I, J, q, d) /\ AfterLine(b) \in Seq(Tok)
  <2>1. ASSUME I[q + 1] = "eol" PROVE \E d : Drops(I, J, q, d) /\ AfterLine(b) \in Seq(Tok)
    <3>1. PICK d \in q + 1 .. Len(I) :
                /\ \A i \in q + 1 .. d : I[i] = "eol"
                /\ AfterLine(b) \in Seq(Tok) /\ Dropped(I, d, J)
      BY <1>10, <2>1, Zenon
    <3>2. d \in Nat /\ d >= q /\ d <= Len(I)
      BY <1>3
    <3>3. QED BY <3>1, <3>2, Zenon DEF Drops
  <2>2. QED BY <2>1, Zenon
<1>12. AtFront(p, k, I, W, linked, missed, r, m, q)
  BY <1>2, <1>3, <1>8, <1>10, Zenon DEF AtFront
<1>13. r < m => Answer(p, k)[r + 1] # ">"
  <2>1. ASSUME r < m PROVE Answer(p, k)[r + 1] # ">"
    <3>1. Kind(p, k) \in Commanding
      <4>1. m # 0
        BY <2>1
      <4>2. QED BY <1>2, <4>1, Zenon DEF Printed
    <3>2. Op(p)[1] \in {"ack", "expect", "ready"}
      <4>1. Op(p)[1] # "conn"
        <5>1. "puts" # "conn" /\ "ack" # "conn" /\ "expect" # "conn" /\ "ready" # "conn" /\ "prompt" # "conn"
              /\ "data" # "conn"
          OBVIOUS
        <5>2. QED BY <1>6, <3>1, <5>1, Zenon DEF OpShape, ResetOp, AtOp, LinkOp, SendOp
      <4>2. QED BY <4>1 DEF LineOps
    <3>3. r < Len(Answer(p, k))
      <4>1. Len(Answer(p, k)) \in Nat
        BY <1>3, AnswerLines
      <4>2. QED BY <1>4, <2>1, <4>1
    <3>4. Reads(p, k, a, Len(Call(p, k)), Op(p), r)
      BY <1>2, <1>5, <3>2, <3>3, Zenon DEF Reads
    <3>5. ItemRead(p, k, a, Len(Call(p, k)), Op(p), r)
      BY <3>4, Item
    <3>6. QED BY <3>5, Zenon DEF ItemRead
  <2>2. QED BY <2>1
<1>14. LineGone(p, k, b[1], J, W, linked, missed, r, m)
  <2>1. LineGone(p, k, I[q], J, W, linked, missed, r, m)
    BY <1>11, <1>12, <1>13, FirstGone, Zenon
  <2>2. QED BY <1>10, <2>1, Zenon
<1>15. Hearing(p, k, a, Len(Call(p, k)), Op(p), job[p], cmds[p], g, linked, missed, r, m)
  <2>1. p = "server" /\ linked => UpOf(k, a, job[p])
    BY LinkedUp, Zenon DEF k, a
  <2>2. linked \in BOOLEAN /\ missed \in BOOLEAN
    BY DEF Good, TypeOK
  <2>3. QED BY <1>2, <1>4, <1>5, <1>9, <2>1, <2>2, Zenon DEF Hearing
<1>16. Hears(p, k, a, Len(Call(p, k)), Op(p), job[p], cmds[p], J, W, g, linked, missed, b[1])
  BY <1>14, <1>15, Hear DEF LineOps
<1>17. AfterLine(b) \in Seq(Tok)
  <2>1. I[q + 1] = "eol"
    <3>1. FrontConnect(p, k, I, W, linked, r, m, q) \/ FrontItem(p, k, I, W, linked, missed, r, m, q)
      BY <1>12, FrontIs
    <3>2. QED BY <1>13, <3>1, Zenon DEF FrontConnect, FrontItem
  <2>2. QED BY <1>11, <2>1
<1>18. QED BY <1>16, <1>17, Zenon DEF J, W, b, g, k, a

-----------------------------------------------------------------------------
(* Where a program is after an operation.                                  *)

Shape == TypeOK /\ call \in [Progs -> Nat] /\ at \in [Progs -> Nat]
ShapeOf(p, k, a) ==
  /\ k \in Places(p) /\ k \in Nat /\ a \in Nat
  /\ IF k > Len(esp_main(p)) THEN a = 1 ELSE a \in DOMAIN Call(p, k)

LEMMA ShapeFirst == ASSUME NEW p \in Progs PROVE ShapeOf(p, 1, 1)
<1>1. Len(esp_main(p)) \in Nat
  BY Sizes
<1>2. 1 \in Places(p) /\ 1 \in Nat /\ (~(1 > Len(esp_main(p))) => 1 \in 1 .. Len(esp_main(p)))
  BY <1>1 DEF Places
<1>3. ASSUME ~(1 > Len(esp_main(p))) PROVE 1 \in DOMAIN Call(p, 1)
  <2>1. \E n \in Nat : n >= 1 /\ DOMAIN Call(p, 1) = 1 .. n
    BY <1>2, <1>3, CallSize, Zenon
  <2>2. QED BY <2>1
<1>4. QED BY <1>2, <1>3, Zenon DEF ShapeOf

LEMMA ShapeNext ==
  ASSUME NEW p \in Progs, NEW k \in 1 .. Len(esp_main(p)), NEW a \in DOMAIN Call(p, k)
  PROVE  IF a = Len(Call(p, k)) THEN ShapeOf(p, k + 1, 1) ELSE ShapeOf(p, k, a + 1)
<1>1. PICK n \in Nat : n >= 1 /\ Len(Call(p, k)) = n /\ DOMAIN Call(p, k) = 1 .. n
  BY CallSize
<1>2. Len(esp_main(p)) \in Nat
  BY Sizes
<1>3. CASE a = Len(Call(p, k))
  <2>1. /\ k + 1 \in Places(p) /\ k + 1 \in Nat /\ 1 \in Nat
        /\ ~(k + 1 > Len(esp_main(p))) => k + 1 \in 1 .. Len(esp_main(p))
    BY <1>2 DEF Places
  <2>2. ASSUME ~(k + 1 > Len(esp_main(p))) PROVE 1 \in DOMAIN Call(p, k + 1)
    <3>1. \E i \in Nat : i >= 1 /\ DOMAIN Call(p, k + 1) = 1 .. i
      BY <2>1, <2>2, CallSize, Zenon
    <3>2. QED BY <3>1
  <2>3. ShapeOf(p, k + 1, 1)
    BY <2>1, <2>2, Zenon DEF ShapeOf
  <2>4. QED BY <1>3, <2>3
<1>4. CASE a # Len(Call(p, k))
  <2>1. k \in Places(p) /\ k \in Nat /\ ~(k > Len(esp_main(p)))
    BY <1>2 DEF Places
  <2>2. a + 1 \in Nat /\ a + 1 \in DOMAIN Call(p, k)
    BY <1>1, <1>4
  <2>3. ShapeOf(p, k, a + 1)
    BY <2>1, <2>2, Zenon DEF ShapeOf
  <2>4. QED BY <1>4, <2>3
<1>5. QED BY <1>3, <1>4

LEMMA ShapeIs ==
  ASSUME Shape, NEW p \in Progs
  PROVE  ShapeOf(p, call[p], at[p]) /\ (~Ended(p) => There(p))
<1>1. call[p] \in Nat /\ at[p] \in Nat
  BY DEF Shape
<1>2. call[p] \in 1 .. Len(esp_main(p)) + 1 /\ at[p] \in IF Ended(p) THEN {1} ELSE DOMAIN esp_main(p)[call[p]]
  BY DEF Shape, TypeOK
<1>3. Ended(p) \/ at[p] \in DOMAIN Call(p, call[p])
  BY <1>2, Zenon DEF Call
<1>4. ~Ended(p) \/ at[p] = 1
  <2>1. ~Ended(p) \/ at[p] \in {1}
    BY <1>2, Zenon
  <2>2. QED BY <2>1
<1>5. ~Ended(p) => call[p] \in 1 .. Len(esp_main(p))
  BY <1>1, <1>2, Sizes DEF Ended
<1>6. ShapeOf(p, call[p], at[p])
  BY <1>1, <1>2, <1>3, <1>4, Zenon DEF ShapeOf, Places, Ended
<1>7. ~Ended(p) => There(p)
  BY <1>3, <1>5, Zenon DEF There
<1>8. QED BY <1>6, <1>7

LEMMA ShapeAdvance ==
  ASSUME Shape, NEW p \in Progs, There(p), Advance(p)
  PROVE  call' \in [Progs -> Nat] /\ at' \in [Progs -> Nat] /\ \A q \in Progs : ShapeOf(q, call'[q], at'[q])
<1>1. /\ call[p] \in 1 .. Len(esp_main(p)) /\ at[p] \in DOMAIN Call(p, call[p])
  BY Zenon DEF There
<1>2. call \in [Progs -> Nat] /\ at \in [Progs -> Nat] /\ call[p] + 1 \in Nat /\ at[p] + 1 \in Nat
  BY DEF Shape
<1>3. CASE at[p] = Len(Call(p, call[p]))
  <2>1. call' = [call EXCEPT ![p] = call[p] + 1] /\ at' = [at EXCEPT ![p] = 1]
    BY <1>3, Zenon DEF Advance, Call
  <2>2. ShapeOf(p, call[p] + 1, 1)
    BY <1>1, <1>3, ShapeNext
  <2>3. ASSUME NEW q \in Progs PROVE ShapeOf(q, call'[q], at'[q])
    <3>1. CASE q = p
      BY <1>2, <2>1, <2>2, <3>1
    <3>2. CASE q # p
      <4>1. call'[q] = call[q] /\ at'[q] = at[q]
        BY <1>2, <2>1, <3>2
      <4>2. QED BY <4>1, ShapeIs
    <3>3. QED BY <3>1, <3>2
  <2>4. QED BY <1>2, <2>1, <2>3
<1>4. CASE at[p] # Len(Call(p, call[p]))
  <2>1. call' = call /\ at' = [at EXCEPT ![p] = at[p] + 1]
    BY <1>4, Zenon DEF Advance, Call
  <2>2. ShapeOf(p, call[p], at[p] + 1)
    BY <1>1, <1>4, ShapeNext
  <2>3. ASSUME NEW q \in Progs PROVE ShapeOf(q, call'[q], at'[q])
    <3>1. CASE q = p
      BY <1>2, <2>1, <2>2, <3>1
    <3>2. CASE q # p
      <4>1. call'[q] = call[q] /\ at'[q] = at[q]
        BY <1>2, <2>1, <3>2
      <4>2. QED BY <4>1, ShapeIs
    <3>3. QED BY <3>1, <3>2
  <2>4. QED BY <1>2, <2>1, <2>3
<1>5. QED BY <1>3, <1>4

LEMMA ShapeMade ==
  ASSUME call' \in [Progs -> Nat], at' \in [Progs -> Nat], \A q \in Progs : ShapeOf(q, call'[q], at'[q]),
         linked' \in BOOLEAN, missed' \in BOOLEAN, disturbed' \in BOOLEAN,
         restarts' \in 0 .. MaxRestart, busies' \in 0 .. MaxBusy
  PROVE  Shape'
<1>1. ASSUME NEW q \in Progs
      PROVE  /\ call'[q] \in 1 .. Len(esp_main(q)) + 1
             /\ at'[q] \in IF call'[q] > Len(esp_main(q)) THEN {1} ELSE DOMAIN esp_main(q)[call'[q]]
  <2>1. ShapeOf(q, call'[q], at'[q])
    OBVIOUS
  <2>2. 1 \in {1}
    OBVIOUS
  <2>3. QED BY <2>1, <2>2, Zenon DEF ShapeOf, Places, Call
<1>2. TypeOK'
  <2>1. {linked', missed', disturbed'} \subseteq BOOLEAN
    OBVIOUS
  <2>2. \A q \in Progs :
          /\ call'[q] \in 1 .. Len(esp_main(q)) + 1
          /\ at'[q] \in IF Ended(q)' THEN {1} ELSE DOMAIN esp_main(q)[call'[q]]
    BY <1>1, Zenon DEF Ended
  <2>3. QED BY <2>1, <2>2, Zenon DEF TypeOK
<1>3. QED BY <1>2, Zenon DEF Shape

LEMMA ShapeFacts ==
  ASSUME Shape
  PROVE  /\ call \in [Progs -> Nat] /\ at \in [Progs -> Nat] /\ \A q \in Progs : ShapeOf(q, call[q], at[q])
         /\ linked \in BOOLEAN /\ missed \in BOOLEAN /\ disturbed \in BOOLEAN
         /\ restarts \in 0 .. MaxRestart /\ busies \in 0 .. MaxBusy
<1>1. TypeOK /\ call \in [Progs -> Nat] /\ at \in [Progs -> Nat]
  BY DEF Shape
<1>2. linked \in BOOLEAN /\ missed \in BOOLEAN /\ disturbed \in BOOLEAN
  <2>1. {linked, missed, disturbed} \subseteq BOOLEAN
    BY <1>1 DEF TypeOK
  <2>2. QED BY <2>1
<1>3. restarts \in 0 .. MaxRestart /\ busies \in 0 .. MaxBusy
  BY <1>1 DEF TypeOK
<1>4. QED BY <1>1, <1>2, <1>3, ShapeIs

\* What the operations of a program do to its place.
LEMMA StepMoves ==
  ASSUME NEW p \in Progs, Step(p)
  PROVE  /\ ~Ended(p) /\ (Advance(p) \/ UNCHANGED pc)
         /\ missed' = missed \/ missed' = (missed \/ (p = "server" /\ Body(stream[p])[1] = "CONNECT"))
         /\ UNCHANGED <<job, linked, restarts, busies, disturbed>>
<1>1. ~Ended(p) /\ UNCHANGED <<job, linked, restarts, busies, disturbed>>
  BY Zenon DEF Step, Runs
<1> DEFINE o == Op(p)
<1>2. Eat(p, o) \/ Puts(p, o) \/ Data(p, o) \/ Ack(p, o) \/ Expect(p, o) \/ Prompt(p, o) \/ Recv(p, o)
  BY Zenon DEF Step
<1> HIDE DEF o
<1>3. CASE Eat(p, o)
  <2>1. missed' = missed /\ (Advance(p) \/ UNCHANGED pc)
    BY <1>3, Zenon DEF Eat, Stays
  <2>2. QED BY <1>1, <2>1
<1>4. CASE Puts(p, o)
  <2>1. Advance(p) /\ missed' = missed
    BY <1>4 DEF Puts
  <2>2. QED BY <1>1, <2>1
<1>5. CASE Data(p, o)
  <2>1. Advance(p) /\ missed' = missed
    BY <1>5 DEF Data
  <2>2. QED BY <1>1, <2>1
<1>6. CASE Ack(p, o)
  BY <1>1, <1>6, Zenon DEF Ack, Skips, Stays, Panic, pc
<1>7. CASE Expect(p, o)
  BY <1>1, <1>7, Zenon DEF Expect, Skips, Stays, Panic, pc
<1>8. CASE Prompt(p, o)
  <2>1. missed' = missed
    BY <1>8 DEF Prompt
  <2>2. Advance(p) \/ UNCHANGED pc
    BY <1>8 DEF Prompt, Panic, pc
  <2>3. QED BY <1>1, <2>1, <2>2
<1>9. CASE Recv(p, o)
  <2>1. missed' = missed
    BY <1>9 DEF Recv
  <2>2. Advance(p) \/ UNCHANGED pc
    BY <1>9 DEF Recv, Panic, pc
  <2>3. QED BY <1>1, <2>1, <2>2
<1>10. QED BY <1>2, <1>3, <1>4, <1>5, <1>6, <1>7, <1>8, <1>9

LEMMA EspMoves ==
  ASSUME NEW p \in Progs, EspStep(p)
  PROVE  /\ UNCHANGED <<call, at, missed, restarts, stream, fault, got>>
         /\ linked' \in {linked, TRUE, FALSE}
         /\ disturbed' = disturbed \/ disturbed' = (disturbed \/ (linked /\ Resetting(Peer(p))))
         /\ busies' = busies \/ (busies < MaxBusy /\ busies' = busies + 1)
<1>1. UNCHANGED <<call, at, missed, restarts, stream, fault, got>>
  BY DEF EspStep, prog, pc
<1>2. CASE EspData(p)
  BY <1>1, <1>2, Zenon DEF EspData
<1>3. CASE EspTake(p) /\ UNCHANGED disturbed
  BY <1>1, <1>3 DEF EspTake
<1>4. CASE EspBusy(p) /\ UNCHANGED disturbed
  BY <1>1, <1>4 DEF EspBusy
<1>5. CASE EspDone(p) /\ UNCHANGED disturbed
  <2>1. busies' = busies
    BY <1>5 DEF EspDone
  <2>2. linked' = linked \/ linked' = TRUE \/ linked' = FALSE
    BY <1>5, Zenon DEF EspDone
  <2>3. QED BY <1>1, <1>5, <2>1, <2>2
<1>6. CASE EspBoot(p) /\ UNCHANGED disturbed
  BY <1>1, <1>6 DEF EspBoot
<1>7. QED BY <1>2, <1>3, <1>4, <1>5, <1>6, Zenon DEF EspStep

LEMMA ShapeStays ==
  ASSUME Shape, [Next]_vars
  PROVE  Shape'
<1>1. /\ call \in [Progs -> Nat] /\ at \in [Progs -> Nat] /\ \A q \in Progs : ShapeOf(q, call[q], at[q])
      /\ linked \in BOOLEAN /\ missed \in BOOLEAN /\ disturbed \in BOOLEAN
      /\ restarts \in 0 .. MaxRestart /\ busies \in 0 .. MaxBusy
  BY ShapeFacts
<1>2. MaxRestart \in Nat /\ MaxBusy \in Nat
  BY EspAssumption
<1>3. CASE UNCHANGED vars
  BY <1>1, <1>3, ShapeMade DEF vars
<1>4. ASSUME NEW p \in Progs, Readin(p) PROVE Shape'
  <2>1. UNCHANGED <<call, at, linked, missed, disturbed, restarts, busies>>
    BY <1>4 DEF Readin, pc
  <2>2. QED BY <1>1, <2>1, ShapeMade
<1>5. ASSUME NEW p \in Progs, Step(p) PROVE Shape'
  <2>1. /\ ~Ended(p) /\ (Advance(p) \/ UNCHANGED pc)
        /\ missed' = missed \/ missed' = (missed \/ (p = "server" /\ Body(stream[p])[1] = "CONNECT"))
        /\ UNCHANGED <<job, linked, restarts, busies, disturbed>>
    BY <1>5, StepMoves, Zenon
  <2>2. missed' \in BOOLEAN
    BY <1>1, <2>1
  <2>3. /\ call' \in [Progs -> Nat] /\ at' \in [Progs -> Nat] /\ \A q \in Progs : ShapeOf(q, call'[q], at'[q])
    <3>1. There(p)
      BY <2>1, ShapeIs
    <3>2. CASE Advance(p)
      BY <3>1, <3>2, ShapeAdvance
    <3>3. CASE UNCHANGED pc
      BY <1>1, <3>3 DEF pc
    <3>4. QED BY <2>1, <3>2, <3>3
  <2>4. QED BY <1>1, <2>1, <2>2, <2>3, ShapeMade
<1>6. ASSUME NEW p \in Progs, EspStep(p) PROVE Shape'
  <2>1. /\ UNCHANGED <<call, at, missed, restarts>>
        /\ linked' \in {linked, TRUE, FALSE}
        /\ disturbed' = disturbed \/ disturbed' = (disturbed \/ (linked /\ Resetting(Peer(p))))
        /\ busies' = busies \/ (busies < MaxBusy /\ busies' = busies + 1)
    BY <1>6, EspMoves
  <2>2. busies' \in 0 .. MaxBusy
    BY <1>1, <1>2, <2>1
  <2>3. linked' \in BOOLEAN /\ disturbed' \in BOOLEAN
    BY <1>1, <2>1
  <2>4. QED BY <1>1, <2>1, <2>2, <2>3, ShapeMade
<1>7. ASSUME NEW p \in Progs, Restart(p) PROVE Shape'
  <2>1. /\ restarts < MaxRestart /\ restarts' = restarts + 1
        /\ call' = [call EXCEPT ![p] = 1] /\ at' = [at EXCEPT ![p] = 1]
        /\ disturbed' = (disturbed \/ Sending(p) \/ Resetting(p) \/ Unfinished(p))
        /\ UNCHANGED <<linked, busies, missed>>
    BY <1>7 DEF Restart
  <2>2. restarts' \in 0 .. MaxRestart
    BY <1>1, <1>2, <2>1
  <2>3. call' \in [Progs -> Nat] /\ at' \in [Progs -> Nat]
    BY <1>1, <2>1
  <2>4. ASSUME NEW q \in Progs PROVE ShapeOf(q, call'[q], at'[q])
    <3>1. CASE q = p
      BY <1>1, <2>1, <3>1, ShapeFirst
    <3>2. CASE q # p
      BY <1>1, <2>1, <3>2
    <3>3. QED BY <3>1, <3>2
  <2>5. disturbed' \in BOOLEAN
    BY <2>1
  <2>6. QED BY <1>1, <2>1, <2>2, <2>3, <2>4, <2>5, ShapeMade
<1>8. QED BY <1>3, <1>4, <1>5, <1>6, <1>7, Zenon DEF Next, Work

-----------------------------------------------------------------------------
(* Steps after which the same messages were sent and received.             *)

\* What q's part of the state is made of does not change.
Kept(q) ==
  /\ call'[q] = call[q] /\ at'[q] = at[q] /\ job'[q] = job[q] /\ cmds'[q] = cmds[q]
  /\ stream'[q] = stream[q] /\ wire'[q] = wire[q]
\* Own(p)', where the messages are as they were
OwnWill(p) ==
  Talks(p, call'[p], at'[p], job'[p], cmds'[p], stream'[p] \o wire'[p], Waiting(p), Messages[Sent(p) + 1],
        linked', missed')

LEMMA ClientTalks ==
  ASSUME NEW k, NEW a, NEW j, NEW c, NEW I, NEW W, NEW g, NEW l, NEW s, NEW y, NEW z,
         Talks("client", k, a, j, c, I, W, g, l, s)
  PROVE  Talks("client", k, a, j, c, I, W, g, y, z)
<1>1. PICK r, m \in Nat : /\ Reading("client", k, a, r) /\ Printed("client", k, a, j, c, g, m)
                          /\ Staged("client", k, I, W, l, s, r, m)
  BY Zenon DEF Talks
<1>2. Staged("client", k, I, W, y, z, r, m)
  BY <1>1, ClientStaged
<1>3. QED BY <1>1, <1>2, Zenon DEF Talks

LEMMA KeptOwn ==
  ASSUME Good, NEW q \in Progs, Kept(q), linked' = linked, missed' = missed \/ q = "client"
  PROVE  OwnWill(q)
<1>1. Talks(q, call[q], at[q], job[q], cmds[q], stream[q] \o wire[q], Waiting(q), Messages[Sent(q) + 1],
            linked, missed)
  BY Now, Zenon DEF Own, Input
<1>2. Talks(q, call[q], at[q], job[q], cmds[q], stream[q] \o wire[q], Waiting(q), Messages[Sent(q) + 1],
            linked', missed')
  <2>1. CASE missed' = missed
    BY <1>1, <2>1, Zenon
  <2>2. CASE q = "client"
    BY <1>1, <2>2, ClientTalks
  <2>3. QED BY <2>1, <2>2
<1>3. QED BY <1>2, Zenon DEF OwnWill, Kept

LEMMA PlacesCount ==
  ASSUME NEW ks, NEW hs, NEW kc, NEW hc, Place("server", ks, hs), Place("client", kc, hc)
  PROVE  /\ ks <= 16 => hs = 0
         /\ ks > 16 => ks \in {2 * hs + 17, 2 * hs + 18}
         /\ kc <= 8 => hc = 0
         /\ kc > 8 => kc \in {2 * hc + 8, 2 * hc + 9}
BY ProgsAre, Zenon DEF Place

LEMMA MadeCounts ==
  ASSUME Place("server", call'["server"], Had("server")'), Place("client", call'["client"], Had("client")')
  PROVE  Counts'
<1>1. PICK hs, hc : hs = Had("server")' /\ hc = Had("client")'
  OBVIOUS
<1>2. Place("server", call'["server"], hs) /\ Place("client", call'["client"], hc)
  BY <1>1, Zenon
<1>3. /\ call'["server"] <= 16 => hs = 0
      /\ call'["server"] > 16 => call'["server"] \in {2 * hs + 17, 2 * hs + 18}
      /\ call'["client"] <= 8 => hc = 0
      /\ call'["client"] > 8 => call'["client"] \in {2 * hc + 8, 2 * hc + 9}
  BY <1>2, PlacesCount
<1>4. QED BY <1>1, <1>3, Zenon DEF Counts

LEMMA QuietCore ==
  ASSUME Good, NEW p \in Progs, NEW q \in Progs, q = Peer(p), Types', got' = got,
         call'[q] = call[q], at'[q] = at[q], job'[q] = job[q],
         Place(p, call'[p], Had(p)), SentOf(p, call'[p], at'[p], job'[p], Had(p)) = Sent(p), Linking',
         OwnWill(p), OwnWill(q)
  PROVE  Core'
<1>1. \A x \in Progs : x = p \/ x = q
  BY DEF Progs, Peer
<1>2. \A x \in Progs : Had(x)' = Had(x)
  BY Zenon DEF Had
<1>3. Sent(p)' = Sent(p) /\ Sent(q)' = Sent(q)
  BY <1>2, Zenon DEF Sent
<1>4. \A x \in Progs : Sent(x)' = Sent(x) /\ Peer(x) \in Progs
  <2>1. \A x \in Progs : Sent(x)' = Sent(x)
    BY <1>1, <1>3, Zenon
  <2>2. \A x \in Progs : Peer(x) \in Progs
    BY DEF Progs, Peer
  <2>3. QED BY <2>1, <2>2
<1>5. \A x \in Progs : Waiting(x)' = Waiting(x)
  BY <1>2, <1>4, Zenon DEF Waiting
<1>6. Turns'
  <2>1. Turns
    BY DEF Good, Core
  <2>2. QED BY <1>2, <1>4, <2>1, ProgsAre, Zenon DEF Turns
<1>7. Counts'
  <2>1. Place(q, call'[q], Had(q))
    BY Now, Zenon
  <2>2. \A x \in Progs : Place(x, call'[x], Had(x)')
    BY <1>1, <1>2, <2>1, Zenon
  <2>3. QED BY <2>2, MadeCounts, ProgsAre
<1>8. Received'
  <2>1. Received
    BY DEF Good, Core
  <2>2. QED BY <1>2, <2>1, Zenon DEF Received
<1>9. \A x \in Progs : Own(x)'
  <2>1. \A x \in Progs : OwnWill(x)
    BY <1>1, Zenon
  <2>2. QED BY <1>4, <1>5, <2>1, Zenon DEF Own, OwnWill, Input
<1>10. QED BY <1>6, <1>7, <1>8, <1>9, Zenon DEF Core

-----------------------------------------------------------------------------
(* The connection.                                                         *)

LEMMA LinkStep ==
  ASSUME Good, NEW p \in Progs, NEW q \in Progs, q = Peer(p),
         call'[q] = call[q], at'[q] = at[q], job'[q] = job[q], cmds'[q] = cmds[q], linked' = linked,
         p = "client" =>
           /\ LinkedOf(call'[p], at'[p], job'[p], cmds'[p]) <=> LinkedOf(call[p], at[p], job[p], cmds[p])
           /\ AskedOf(call'[p], at'[p]) => AskedOf(call[p], at[p]) \/ ServerUp,
         p = "server" =>
           /\ UpOf(call[p], at[p], job[p]) => UpOf(call'[p], at'[p], job'[p])
           /\ call'[p] > 16 => call[p] > 16 \/ linked
  PROVE  Linking'
<1>1. /\ linked <=> LinkDone
      /\ Asked => ServerUp
      /\ call["server"] > 16 => linked
  BY Zenon DEF Good, Core, Linking
<1>2. CASE p = "client"
  <2>1. q = "server"
    BY <1>2, ProgsAre
  <2>2. ServerUp' <=> ServerUp
    BY <2>1, Zenon DEF ServerUp
  <2>3. LinkDone' <=> LinkDone
    BY <1>2, Zenon DEF LinkDone
  <2>4. Asked' => ServerUp
    BY <1>1, <1>2, Zenon DEF Asked
  <2>5. QED BY <1>1, <2>1, <2>2, <2>3, <2>4, Zenon DEF Linking
<1>3. CASE p = "server"
  <2>1. q = "client"
    BY <1>3, ProgsAre
  <2>2. ServerUp => ServerUp'
    BY <1>3, Zenon DEF ServerUp
  <2>3. (LinkDone' <=> LinkDone) /\ (Asked' <=> Asked)
    BY <2>1, Zenon DEF LinkDone, Asked
  <2>4. call'["server"] > 16 => linked
    BY <1>1, <1>3, Zenon
  <2>5. QED BY <1>1, <2>2, <2>3, <2>4, Zenon DEF Linking
<1>4. QED BY <1>2, <1>3, ProgsAre

\* How an operation moves a program on.
Moves(p, k, a, n, j, c, l, x, y) ==
  \/ x = k /\ y = a + 1 /\ a >= 2 /\ a < n /\ (Kind(p, k) = "send" => a # 5)
  \/ x = k + 1 /\ y = 1 /\ a = n /\ j = "none" /\ c = <<>> /\ (p = "server" /\ k = 16 => l)
     /\ (Kind(p, k) = "send" => a >= 6) /\ Kind(p, k) # "recv"
  \/ x = k /\ y = a

LEMMA LinkArith ==
  ASSUME NEW k \in Nat, NEW a \in Nat, NEW j, NEW c
  PROVE  /\ a >= 2 => /\ LinkedOf(k, a + 1, j, c) <=> LinkedOf(k, a, j, c)
                      /\ AskedOf(k, a + 1) <=> AskedOf(k, a)
         /\ (j = "none" /\ c = <<>> /\ (k = 8 => a >= 2)) =>
              /\ LinkedOf(k + 1, 1, j, c) <=> LinkedOf(k, a, j, c)
              /\ AskedOf(k + 1, 1) => AskedOf(k, a)
         /\ (k = 10 => a # 3) => (UpOf(k, a, j) => UpOf(k, a + 1, j))
         /\ UpOf(k, a, j) => UpOf(k + 1, 1, j)
         /\ k + 1 > 16 => k > 16 \/ k = 16
<1>1. a >= 2 => /\ LinkedOf(k, a + 1, j, c) <=> LinkedOf(k, a, j, c)
                /\ AskedOf(k, a + 1) <=> AskedOf(k, a)
  <2>1. a >= 2 => a + 1 >= 2
    OBVIOUS
  <2>2. QED BY <2>1, Zenon DEF LinkedOf, AskedOf
<1>2. (j = "none" /\ c = <<>> /\ (k = 8 => a >= 2)) =>
              /\ LinkedOf(k + 1, 1, j, c) <=> LinkedOf(k, a, j, c)
              /\ AskedOf(k + 1, 1) => AskedOf(k, a)
  <2>1. ~(1 >= 2) /\ (k + 1 > 8 <=> k > 8 \/ k = 8)
    OBVIOUS
  <2>2. QED BY <2>1, Zenon DEF LinkedOf, AskedOf
<1>3. (k = 10 => a # 3) => (UpOf(k, a, j) => UpOf(k, a + 1, j))
  BY Zenon DEF UpOf
<1>4. UpOf(k, a, j) => UpOf(k + 1, 1, j)
  <2>1. k > 10 \/ k = 10 => k + 1 > 10
    OBVIOUS
  <2>2. QED BY <2>1, Zenon DEF UpOf
<1>5. k + 1 > 16 => k > 16 \/ k = 16
  OBVIOUS
<1>6. QED BY <1>1, <1>2, <1>3, <1>4, <1>5

LEMMA MovesLink ==
  ASSUME Good, NEW p \in Progs, NEW q \in Progs, q = Peer(p), There(p),
         call'[q] = call[q], at'[q] = at[q], job'[q] = job[q], cmds'[q] = cmds[q], linked' = linked,
         job'[p] = job[p], cmds'[p] = cmds[p],
         Moves(p, call[p], at[p], Len(Call(p, call[p])), job[p], cmds[p], linked, call'[p], at'[p])
  PROVE  Linking'
<1> DEFINE k == call[p]
           a == at[p]
           n == Len(Call(p, k))
           j == job[p]
           c == cmds[p]
           x == call'[p]
           y == at'[p]
<1>1. k \in Nat /\ a \in Nat /\ k \in 1 .. Len(esp_main(p))
  BY Now, Zenon DEF Typed, There
<1>2. p = "server" /\ k = 10 => n = 3
  <2>1. ASSUME p = "server", k = 10 PROVE n = 3
    <3>1. Kind(p, k) = "at"
      BY <2>1, FirstKinds
    <3>2. AtOf(Call(p, k), Cmd(p, k), Extra(p, k))
      BY <1>1, <3>1, AtCall
    <3>3. QED BY <3>2, Zenon DEF AtOf
  <2>2. QED BY <2>1
<1>3. p = "client" /\ k = 8 => n = 4
  <2>1. ASSUME p = "client", k = 8 PROVE n = 4
    <3>1. Kind(p, k) = "link"
      BY <2>1, FirstKinds
    <3>2. QED BY <1>1, <3>1, LinkCall, Zenon DEF LinkOf
  <2>2. QED BY <2>1
<1>4. Moves(p, k, a, n, j, c, linked, x, y)
  OBVIOUS
<1>5. job'[p] = j /\ cmds'[p] = c
  OBVIOUS
<1>6. ServerUp <=> UpOf(call["server"], at["server"], job["server"])
  BY Zenon DEF ServerUp
<1> HIDE DEF k, a, n, j, c, x, y
<1>7. CASE x = k /\ y = a + 1 /\ a >= 2 /\ a < n
  <2>1. p = "server" /\ k = 10 => a # 3
    BY <1>1, <1>2, <1>7
  <2>2. p = "client" => (LinkedOf(x, y, j, c) <=> LinkedOf(k, a, j, c)) /\ (AskedOf(x, y) => AskedOf(k, a))
    BY <1>1, <1>7, LinkArith, Zenon
  <2>3. p = "server" => (UpOf(k, a, j) => UpOf(x, y, j))
    BY <1>1, <1>7, <2>1, LinkArith, Zenon
  <2>4. QED BY <1>5, <1>7, <2>2, <2>3, LinkStep, Zenon DEF k, a, j, c, x, y
<1>8. CASE x = k + 1 /\ y = 1 /\ a = n /\ j = "none" /\ c = <<>> /\ (p = "server" /\ k = 16 => linked)
  <2>1. p = "client" => (k = 8 => a >= 2)
    BY <1>1, <1>3, <1>8
  <2>2. p = "client" => (LinkedOf(x, y, j, c) <=> LinkedOf(k, a, j, c)) /\ (AskedOf(x, y) => AskedOf(k, a))
    BY <1>1, <1>8, <2>1, LinkArith, Zenon
  <2>3. p = "server" => (UpOf(k, a, j) => UpOf(x, y, j))
    BY <1>1, <1>8, LinkArith, Zenon
  <2>4. p = "server" => (x > 16 => k > 16 \/ linked)
    BY <1>1, <1>8, LinkArith, Zenon
  <2>5. QED BY <1>5, <2>2, <2>3, <2>4, LinkStep, Zenon DEF k, a, j, c, x, y
<1>9. CASE x = k /\ y = a
  <2>1. p = "client" => (LinkedOf(x, y, j, c) <=> LinkedOf(k, a, j, c)) /\ (AskedOf(x, y) => AskedOf(k, a))
    BY <1>9, Zenon
  <2>2. p = "server" => (UpOf(k, a, j) => UpOf(x, y, j))
    BY <1>9, Zenon
  <2>3. QED BY <1>5, <1>9, <2>1, <2>2, LinkStep, Zenon DEF k, a, j, c, x, y
<1>10. QED BY <1>4, <1>7, <1>8, <1>9, Zenon DEF Moves

LEMMA SentWithin ==
  ASSUME NEW p, NEW k, NEW a \in Nat, NEW j, NEW h, Kind(p, k) = "send" => a # 5
  PROVE  SentOf(p, k, a + 1, j, h) = SentOf(p, k, a, j, h)
<1>1. a # 5 => (a + 1 >= 6 <=> a >= 6)
  OBVIOUS
<1>2. Delivering(p, k, a + 1, j) <=> Delivering(p, k, a, j)
  BY <1>1, Zenon DEF Delivering
<1>3. QED BY <1>2, Zenon DEF SentOf

LEMMA MovesSent ==
  ASSUME Good, NEW p \in Progs, There(p), NEW x, NEW y,
         Moves(p, call[p], at[p], Len(Call(p, call[p])), job[p], cmds[p], linked, x, y)
  PROVE  Place(p, x, Had(p)) /\ SentOf(p, x, y, job[p], Had(p)) = Sent(p)
<1> DEFINE k == call[p]
           a == at[p]
           n == Len(Call(p, k))
           j == job[p]
           h == Had(p)
<1>1. k \in Nat /\ a \in Nat /\ k \in 1 .. Len(esp_main(p)) /\ Place(p, k, h)
  BY Now, Zenon DEF Typed, There
<1>2. Sent(p) = SentOf(p, k, a, j, h)
  BY Zenon DEF Sent
<1>3. Moves(p, k, a, n, j, cmds[p], linked, x, y)
  OBVIOUS
<1> HIDE DEF k, a, n, j, h
<1>4. CASE x = k /\ y = a + 1 /\ (Kind(p, k) = "send" => a # 5)
  <2>1. SentOf(p, k, a + 1, j, h) = SentOf(p, k, a, j, h)
    BY <1>1, <1>4, SentWithin
  <2>2. QED BY <1>1, <1>2, <1>4, <2>1, Zenon DEF j, h
<1>5. CASE x = k + 1 /\ y = 1 /\ j = "none" /\ (Kind(p, k) = "send" => a >= 6) /\ Kind(p, k) # "recv"
  <2>1. Next1(p, k, a, h, k + 1, h)
    BY <1>1, <1>5, Zenon DEF Next1
  <2>2. Went(p, k, a, h, k + 1, h)
    BY <2>1, NextPlace
  <2>3. Place(p, k + 1, h) /\ SentOf(p, k + 1, 1, "none", h) = SentOf(p, k, a, "none", h)
    BY <2>2, Zenon DEF Went
  <2>4. QED BY <1>2, <1>5, <2>3, Zenon DEF j, h
<1>6. CASE x = k /\ y = a
  BY <1>1, <1>2, <1>6, Zenon DEF j, h
<1>7. QED BY <1>3, <1>4, <1>5, <1>6, Zenon DEF Moves

\* A step of a program that reads.
LEMMA MovesCore ==
  ASSUME Good, NEW p \in Progs, NEW q \in Progs, q = Peer(p), There(p), Types', got' = got,
         Kept(q), linked' = linked, missed' = missed \/ p = "server",
         job'[p] = job[p], cmds'[p] = cmds[p],
         Moves(p, call[p], at[p], Len(Call(p, call[p])), job[p], cmds[p], linked, call'[p], at'[p]),
         Talks(p, call'[p], at'[p], job[p], cmds[p], stream'[p] \o wire'[p], Waiting(p),
               Messages[Sent(p) + 1], linked, missed')
  PROVE  Core'
<1>1. call'[q] = call[q] /\ at'[q] = at[q] /\ job'[q] = job[q] /\ cmds'[q] = cmds[q]
  BY DEF Kept
<1>2. Linking'
  BY <1>1, MovesLink
<1>3. Place(p, call'[p], Had(p)) /\ SentOf(p, call'[p], at'[p], job[p], Had(p)) = Sent(p)
  BY MovesSent
<1>4. SentOf(p, call'[p], at'[p], job'[p], Had(p)) = Sent(p)
  BY <1>3
<1>5. OwnWill(p)
  BY Zenon DEF OwnWill
<1>6. OwnWill(q)
  <2>1. missed' = missed \/ q = "client"
    BY ProgsAre
  <2>2. QED BY <2>1, KeptOwn
<1>7. QED BY <1>1, <1>2, <1>3, <1>4, <1>5, <1>6, QuietCore

-----------------------------------------------------------------------------
(* The types of the state.                                                 *)

LEMMA TypesMade ==
  ASSUME Good, NEW p \in Progs, NEW s \in Seq(Tok), NEW w \in Seq(Tok), NEW c \in Seq(Tok),
         NEW j \in Commands \cup {"none", "boot", "data"},
         stream' \in {stream, [stream EXCEPT ![p] = s]}, wire' \in {wire, [wire EXCEPT ![p] = w]},
         cmds' \in {cmds, [cmds EXCEPT ![p] = c]}, job' \in {job, [job EXCEPT ![p] = j]},
         got' = got, fault' = fault
  PROVE  Types'
<1>1. /\ stream \in [Progs -> Seq(Tok)] /\ wire \in [Progs -> Seq(Tok)] /\ cmds \in [Progs -> Seq(Tok)]
      /\ job \in [Progs -> Commands \cup {"none", "boot", "data"}] /\ got \in [Progs -> Seq(Seq(Tok))]
      /\ fault = [x \in Progs |-> "none"]
  BY DEF Good, Core, Types
<1>2. stream' \in [Progs -> Seq(Tok)]
  BY <1>1
<1>3. wire' \in [Progs -> Seq(Tok)]
  BY <1>1
<1>4. cmds' \in [Progs -> Seq(Tok)]
  BY <1>1
<1>5. job' \in [Progs -> Commands \cup {"none", "boot", "data"}]
  BY <1>1
<1>6. QED BY <1>1, <1>2, <1>3, <1>4, <1>5, Zenon DEF Types

LEMMA ExceptIs ==
  ASSUME NEW p \in Progs, NEW q \in Progs, q # p, NEW S, NEW f \in [Progs -> S], NEW v
  PROVE  [f EXCEPT ![p] = v][p] = v /\ [f EXCEPT ![p] = v][q] = f[q]
OBVIOUS

\* The functions of the state.
LEMMA Functions1 ==
  ASSUME Good
  PROVE  /\ stream \in [Progs -> Seq(Tok)] /\ wire \in [Progs -> Seq(Tok)] /\ cmds \in [Progs -> Seq(Tok)]
         /\ job \in [Progs -> Commands \cup {"none", "boot", "data"}] /\ got \in [Progs -> Seq(Seq(Tok))]
         /\ call \in [Progs -> Nat] /\ at \in [Progs -> Nat]
BY DEF Good, Core, Types

-----------------------------------------------------------------------------
(* The steps of a program.                                                 *)

LEMMA PeerIs ==
  ASSUME NEW p \in Progs
  PROVE  Peer(p) \in Progs /\ Peer(p) # p /\ Peer(Peer(p)) = p
BY DEF Progs, Peer

LEMMA AdvanceIs ==
  ASSUME Good, NEW p \in Progs, NEW q \in Progs, q # p, Advance(p)
  PROVE  /\ call'[q] = call[q] /\ at'[q] = at[q]
         /\ IF at[p] = Len(Call(p, call[p])) THEN call'[p] = call[p] + 1 /\ at'[p] = 1
                                             ELSE call'[p] = call[p] /\ at'[p] = at[p] + 1
<1>1. call \in [Progs -> Nat] /\ at \in [Progs -> Nat]
  BY Functions1
<1>2. CASE at[p] = Len(Call(p, call[p]))
  <2>1. call' = [call EXCEPT ![p] = call[p] + 1] /\ at' = [at EXCEPT ![p] = 1]
    BY <1>2, Zenon DEF Advance, Call
  <2>2. QED BY <1>1, <1>2, <2>1, ExceptIs
<1>3. CASE at[p] # Len(Call(p, call[p]))
  <2>1. call' = call /\ at' = [at EXCEPT ![p] = at[p] + 1]
    BY <1>3, Zenon DEF Advance, Call
  <2>2. QED BY <1>1, <1>3, <2>1, ExceptIs
<1>4. QED BY <1>2, <1>3

\* What the operation of a running program is.
LEMMA OpNow ==
  ASSUME Good, NEW p \in Progs, ~Ended(p)
  PROVE  /\ There(p) /\ call[p] \in 1 .. Len(esp_main(p)) /\ at[p] \in DOMAIN Call(p, call[p])
         /\ OpShape(Kind(p, call[p]), at[p], Len(Call(p, call[p])), Op(p), Cmd(p, call[p]), Extra(p, call[p]))
<1>1. There(p)
  BY Now, Zenon
<1>2. call[p] \in 1 .. Len(esp_main(p)) /\ at[p] \in DOMAIN Call(p, call[p])
  BY <1>1, Zenon DEF There
<1>3. Op(p) = Call(p, call[p])[at[p]]
  BY Zenon DEF Op, Call
<1>4. QED BY <1>1, <1>2, <1>3, OpIs

LEMMA ReadinCore ==
  ASSUME Good, NEW p \in Progs, Readin(p)
  PROVE  Core'
<1>1. PICK i \in {LineEnd(wire[p]), Len(wire[p])} \ {0} :
        /\ stream' = [stream EXCEPT ![p] = stream[p] \o SubSeq(wire[p], 1, i)]
        /\ wire' = [wire EXCEPT ![p] = SubSeq(wire[p], i + 1, Len(wire[p]))]
  BY DEF Readin
<1>2. ~Ended(p) /\ UNCHANGED <<call, at, fault, got, cmds, job, linked, missed>>
  BY DEF Readin, Runs, pc
<1>3. stream[p] \in Seq(Tok) /\ wire[p] \in Seq(Tok) /\ cmds[p] \in Seq(Tok) /\ job[p] \in Commands \cup {"none", "boot", "data"}
  BY Now, Zenon DEF Typed
<1>4. i \in 1 .. Len(wire[p])
  <2>1. PICK w : w = wire[p]
    OBVIOUS
  <2>2. w \in Seq(Tok) /\ i \in {LineEnd(w), Len(w)} \ {0}
    BY <1>1, <1>3, <2>1
  <2>3. LineEnd(w) = 0 \/ LineEnd(w) \in 1 .. Len(w)
    BY <2>2, LineEndOr, Zenon
  <2>4. Len(w) \in Nat
    BY <2>2
  <2>5. i \in 1 .. Len(w)
    BY <2>2, <2>3, <2>4
  <2>6. QED BY <2>1, <2>5
<1>5. PICK s, w : s = stream[p] \o SubSeq(wire[p], 1, i) /\ w = SubSeq(wire[p], i + 1, Len(wire[p]))
  OBVIOUS
<1>6. s \in Seq(Tok) /\ w \in Seq(Tok) /\ s \o w = stream[p] \o wire[p]
  <2>1. PICK u, v : u = stream[p] /\ v = wire[p]
    OBVIOUS
  <2>2. u \in Seq(Tok) /\ v \in Seq(Tok) /\ i \in 1 .. Len(v)
    BY <1>3, <1>4, <2>1
  <2>3. ReadsIn(Tok, u, v, u \o SubSeq(v, 1, i), SubSeq(v, i + 1, Len(v)))
    BY <2>2, ReadIn
  <2>4. QED BY <1>5, <2>1, <2>3, Zenon DEF ReadsIn
<1>7. stream' = [stream EXCEPT ![p] = s] /\ wire' = [wire EXCEPT ![p] = w]
  BY <1>1, <1>5
<1>8. Types'
  BY <1>2, <1>3, <1>6, <1>7, TypesMade
<1>9. PICK q \in Progs : q = Peer(p) /\ q # p
  BY PeerIs
<1>10. stream'[p] = s /\ wire'[p] = w /\ stream'[q] = stream[q] /\ wire'[q] = wire[q]
  BY <1>7, <1>9, Functions1, ExceptIs
<1>11. Kept(q)
  BY <1>2, <1>10 DEF Kept
<1>12. Talks(p, call'[p], at'[p], job[p], cmds[p], stream'[p] \o wire'[p], Waiting(p),
             Messages[Sent(p) + 1], linked', missed')
  <2>1. Own(p)
    BY Now
  <2>2. stream'[p] \o wire'[p] = Input(p)
    BY <1>6, <1>10, Zenon DEF Input
  <2>3. QED BY <1>2, <2>1, <2>2, Zenon DEF Own
<1>13. Moves(p, call[p], at[p], Len(Call(p, call[p])), job[p], cmds[p], linked, call'[p], at'[p])
  BY <1>2, Zenon DEF Moves
<1>14. There(p)
  BY <1>2, OpNow
<1>15. QED BY <1>2, <1>8, <1>9, <1>11, <1>12, <1>13, <1>14, MovesCore

\* The input of a program that begins, piece by piece: nothing but ends of lines.
Blank(s) == s \in Seq(Tok) /\ \A i \in 1 .. Len(s) : s[i] = "eol"

LEMMA BlankParts ==
  ASSUME NEW s \in Seq(Tok), NEW w \in Seq(Tok), Blank(s \o w)
  PROVE  /\ Blank(s) /\ Blank(w)
         /\ \A i \in 0 .. Len(w) : Blank(SubSeq(w, 1, i)) /\ Blank(SubSeq(w, i + 1, Len(w)))
<1>1. Blank(s) /\ Blank(w)
  <2>1. Len(s) \in Nat /\ Len(w) \in Nat /\ Len(s \o w) = Len(s) + Len(w)
        /\ (\A i \in 1 .. Len(s) : (s \o w)[i] = s[i]) /\ \A i \in 1 .. Len(w) : (s \o w)[Len(s) + i] = w[i]
    BY Joined
  <2>2. \A i \in 1 .. Len(s) + Len(w) : (s \o w)[i] = "eol"
    BY <2>1, Zenon DEF Blank
  <2>3. \A i \in 1 .. Len(s) : s[i] = "eol"
    <3>1. \A i \in 1 .. Len(s) : i \in 1 .. Len(s) + Len(w)
      BY <2>1
    <3>2. QED BY <2>1, <2>2, <3>1, Zenon
  <2>4. \A i \in 1 .. Len(w) : w[i] = "eol"
    <3>1. \A i \in 1 .. Len(w) : Len(s) + i \in 1 .. Len(s) + Len(w)
      BY <2>1
    <3>2. QED BY <2>1, <2>2, <3>1, Zenon
  <2>5. QED BY <2>3, <2>4, Zenon DEF Blank
<1>2. ASSUME NEW i \in 0 .. Len(w) PROVE Blank(SubSeq(w, 1, i)) /\ Blank(SubSeq(w, i + 1, Len(w)))
  <2>1. \A j \in 1 .. Len(w) : w[j] = "eol"
    BY <1>1, Zenon DEF Blank
  <2>2. SubSeq(w, 1, i) \in Seq(Tok) /\ Len(SubSeq(w, 1, i)) = i /\ \A j \in 1 .. i : SubSeq(w, 1, i)[j] = w[j]
    OBVIOUS
  <2>3. SubSeq(w, i + 1, Len(w)) \in Seq(Tok) /\ Len(SubSeq(w, i + 1, Len(w))) = Len(w) - i
        /\ \A j \in 1 .. Len(w) - i : SubSeq(w, i + 1, Len(w))[j] = w[i + j]
    OBVIOUS
  <2>4. Blank(SubSeq(w, 1, i))
    <3>1. \A j \in 1 .. i : j \in 1 .. Len(w)
      OBVIOUS
    <3>2. QED BY <2>1, <2>2, <3>1, Zenon DEF Blank
  <2>5. Blank(SubSeq(w, i + 1, Len(w)))
    <3>1. \A j \in 1 .. Len(w) - i : i + j \in 1 .. Len(w)
      OBVIOUS
    <3>2. QED BY <2>1, <2>3, <3>1, Zenon DEF Blank
  <2>6. QED BY <2>4, <2>5
<1>3. QED BY <1>1, <1>2

LEMMA BlankJoin ==
  ASSUME NEW s, NEW w, Blank(s), Blank(w)
  PROVE  Blank(s \o w)
<1>1. s \in Seq(Tok) /\ w \in Seq(Tok) /\ (\A i \in 1 .. Len(s) : s[i] = "eol") /\ \A i \in 1 .. Len(w) : w[i] = "eol"
  BY Zenon DEF Blank
<1>2. s \o w \in Seq(Tok) /\ \A i \in 1 .. Len(s \o w) : (s \o w)[i] = "eol"
  BY <1>1
<1>3. QED BY <1>2, Zenon DEF Blank

\* The first token of a blank input is taken whole.
LEMMA BlankBite ==
  ASSUME NEW s, Blank(s), Len(s) > 0, NEW t \in Bites(s)
  PROVE  Blank(t)
<1>1. s \in Seq(Tok) /\ \A i \in 1 .. Len(s) : s[i] = "eol"
  BY Zenon DEF Blank
<1>2. Head(s) = "eol"
  BY <1>1
<1>3. Head(s) \in Short
  BY <1>2 DEF Short
<1>4. t = Tail(s)
  BY <1>3, Zenon DEF Bites
<1>5. Tail(s) \in Seq(Tok) /\ \A i \in 1 .. Len(Tail(s)) : Tail(s)[i] = "eol"
  BY <1>1
<1>6. QED BY <1>4, <1>5, Zenon DEF Blank

\* What the loop of esp_hard_reset takes and leaves.
LEMMA EatInput ==
  ASSUME Good, NEW p \in Progs, Eat(p, Op(p)), Blank(Input(p))
  PROVE  \E s, w \in Seq(Tok) :
           /\ Blank(s \o w) /\ stream' \in {stream, [stream EXCEPT ![p] = s]}
           /\ wire' \in {wire, [wire EXCEPT ![p] = w]} /\ stream'[p] = s /\ wire'[p] = w
<1>1. PICK u, v : u = stream[p] /\ v = wire[p]
  OBVIOUS
<1>2. stream[p] \in Seq(Tok) /\ wire[p] \in Seq(Tok)
  BY Now, Zenon DEF Typed
<1>3. u \in Seq(Tok) /\ v \in Seq(Tok) /\ Blank(u \o v)
  BY <1>1, <1>2, Zenon DEF Input
<1>4. CASE UNCHANGED <<stream, wire>>
  BY <1>1, <1>3, <1>4
<1>5. ASSUME NEW k \in IF u # <<>> THEN {0} ELSE {LineEnd(v), Len(v)} \ {0}, v # <<>>,
             NEW s \in Bites(u \o SubSeq(v, 1, k)), stream' = [stream EXCEPT ![p] = s],
             wire' = [wire EXCEPT ![p] = SubSeq(v, k + 1, Len(v))]
      PROVE  \E t, w \in Seq(Tok) :
               /\ Blank(t \o w) /\ stream' \in {stream, [stream EXCEPT ![p] = t]}
               /\ wire' \in {wire, [wire EXCEPT ![p] = w]} /\ stream'[p] = t /\ wire'[p] = w
  <2>1. k \in 0 .. Len(v) /\ (u = <<>> => k > 0)
    <3>1. LineEnd(v) = 0 \/ LineEnd(v) \in 1 .. Len(v)
      BY <1>3, LineEndOr, Zenon
    <3>2. Len(v) \in Nat
      BY <1>3
    <3>3. QED BY <1>5, <3>1, <3>2
  <2>2. Blank(u) /\ Blank(SubSeq(v, 1, k)) /\ Blank(SubSeq(v, k + 1, Len(v)))
    BY <1>3, <2>1, BlankParts
  <2>3. Blank(u \o SubSeq(v, 1, k))
    BY <2>2, BlankJoin
  <2>4. Len(u \o SubSeq(v, 1, k)) > 0
    <3>1. SubSeq(v, 1, k) \in Seq(Tok) /\ Len(SubSeq(v, 1, k)) = k /\ Len(u) \in Nat /\ (u # <<>> => Len(u) > 0)
      BY <1>3, <2>1
    <3>2. QED BY <1>3, <2>1, <3>1
  <2>5. Blank(s)
    BY <1>5, <2>3, <2>4, BlankBite
  <2>6. PICK w : w = SubSeq(v, k + 1, Len(v))
    OBVIOUS
  <2>7. s \in Seq(Tok) /\ w \in Seq(Tok) /\ Blank(s \o w)
    <3>1. Blank(s \o w)
      BY <2>2, <2>5, <2>6, BlankJoin
    <3>2. QED BY <2>2, <2>5, <2>6, <3>1, Zenon DEF Blank
  <2>8. stream'[p] = s /\ wire'[p] = w
    BY <1>5, <2>6, Functions1
  <2>9. QED BY <1>5, <2>6, <2>7, <2>8
<1>6. QED BY <1>1, <1>4, <1>5, Zenon DEF Eat, Takes

LEMMA EatCore ==
  ASSUME Good, NEW p \in Progs, Step(p), Eat(p, Op(p))
  PROVE  Core'
<1>1. Op(p)[1] = "eat" /\ (Advance(p) \/ UNCHANGED pc) /\ UNCHANGED <<fault, got, cmds, missed>>
  BY Zenon DEF Eat, Fine, Stays
<1>2. ~Ended(p) /\ UNCHANGED <<job, linked>>
  BY Zenon DEF Step, Runs
<1>3. There(p) /\ call[p] \in 1 .. Len(esp_main(p)) /\ at[p] \in DOMAIN Call(p, call[p])
      /\ OpShape(Kind(p, call[p]), at[p], Len(Call(p, call[p])), Op(p), Cmd(p, call[p]), Extra(p, call[p]))
  BY <1>2, OpNow
<1>4. Kind(p, call[p]) \notin Commanding /\ at[p] = 1 /\ Len(Call(p, call[p])) = 1 /\ Kind(p, call[p]) = "eat"
  <2>1. "eat" # "puts" /\ "eat" # "ack" /\ "eat" # "expect" /\ "eat" # "ready" /\ "eat" # "prompt"
        /\ "eat" # "data" /\ "eat" # "conn" /\ "eat" # "recv"
    OBVIOUS
  <2>2. QED BY <1>1, <1>3, <2>1, Zenon DEF OpShape, ResetOp, AtOp, LinkOp, SendOp, SingleOp
<1>5. call[p] = 1
  <2>1. "eat" # "recv" /\ "eat" # "send" /\ "eat" # "conn" /\ "eat" # "link" /\ "eat" # "reset" /\ "eat" # "at"
    OBVIOUS
  <2>2. QED BY <1>3, <1>4, <2>1, Kinds, Zenon
<1>6. PICK q \in Progs : q = Peer(p) /\ q # p
  BY PeerIs
<1>7. call'[q] = call[q] /\ at'[q] = at[q] /\ call'[p] \in {1, 2} /\ at'[p] = 1
  <2>1. CASE Advance(p)
    <3>1. call'[q] = call[q] /\ at'[q] = at[q] /\ call'[p] = call[p] + 1 /\ at'[p] = 1
      BY <1>4, <1>6, <2>1, AdvanceIs
    <3>2. QED BY <1>5, <3>1
  <2>2. CASE UNCHANGED pc
    BY <1>4, <1>5, <2>2 DEF pc
  <2>3. QED BY <1>1, <2>1, <2>2
<1>8. job[p] = "none" /\ cmds[p] = <<>>
  BY Now, <1>4, Zenon DEF Own, Talks, Printed
<1>9. Len(Waiting(p)) = 0
  <2>1. "eat" # "recv" /\ "eat" # "send" /\ 1 # 8
    OBVIOUS
  <2>2. ~Awaits(p)
    BY <1>4, <1>5, <2>1, Zenon DEF Awaits, Given
  <2>3. QED BY <2>2, WaitingNow
<1>10. p = "server" => ~linked
  <2>1. ~(1 > 10) /\ 1 # 10
    OBVIOUS
  <2>2. QED BY <1>5, <2>1, LinkedUp, Zenon DEF UpOf
<1>11. Blank(Input(p))
  <2>1. PICK r \in Nat, m \in Nat :
          /\ Printed(p, call[p], at[p], job[p], cmds[p], Messages[Sent(p) + 1], m)
          /\ Staged(p, call[p], Input(p), Waiting(p), linked, missed, r, m)
    BY Now, Zenon DEF Own, Talks
  <2>2. m = 0
    BY <1>4, <2>1, Zenon DEF Printed
  <2>3. PICK I : I = Input(p)
    OBVIOUS
  <2>4. I \in Seq(Tok)
    <3>1. PICK u, v : u = stream[p] /\ v = wire[p]
      OBVIOUS
    <3>2. u \in Seq(Tok) /\ v \in Seq(Tok)
      BY <3>1, Now, Zenon DEF Typed
    <3>3. u \o v \in Seq(Tok)
      BY <3>2
    <3>4. QED BY <2>3, <3>1, <3>3, Zenon DEF Input
  <2>5. Len(I) \in Nat
    BY <2>4
  <2>6. \A i \in 1 .. Len(I) : I[i] = "eol"
    <3>1. PICK K, W, L, S, M : K = call[p] /\ W = Waiting(p) /\ L = linked /\ S = missed /\ M = 0
      OBVIOUS
    <3>2. Staged(p, K, I, W, L, S, r, M)
      BY <2>1, <2>2, <2>3, <3>1, Zenon
    <3>3. Staged(p, K, I, W, L, S, r, 0)
      BY <3>1, <3>2
    <3>4. Len(W) = 0 /\ (p = "server" => ~L)
      BY <1>9, <1>10, <3>1
    <3>5. QED BY <2>1, <2>5, <3>3, <3>4, StagedEol
  <2>7. QED BY <2>3, <2>4, <2>6, Zenon DEF Blank
<1>12. PICK s \in Seq(Tok), w \in Seq(Tok) :
         /\ Blank(s \o w) /\ stream' \in {stream, [stream EXCEPT ![p] = s]}
         /\ wire' \in {wire, [wire EXCEPT ![p] = w]} /\ stream'[p] = s /\ wire'[p] = w
  BY <1>11, EatInput, Zenon
<1>13. stream'[q] = stream[q] /\ wire'[q] = wire[q]
  BY <1>6, <1>12, Functions1
<1>14. Kept(q)
  BY <1>1, <1>2, <1>7, <1>13 DEF Kept
<1>15. PICK x : x = call'[p]
  OBVIOUS
<1>16. x \in {1, 2}
  BY <1>7, <1>15
<1>17. Talks(p, x, 1, "none", <<>>, s \o w, Waiting(p), Messages[Sent(p) + 1], linked, missed)
  <2>1. x \in Places(p) /\ x \in Nat
    BY <1>3, <1>5, <1>16, Sizes DEF Places
  <2>2. Len(Answer(p, x)) \in Nat
    BY <2>1, AnswerLines
  <2>3. PICK I : I = s \o w
    OBVIOUS
  <2>4. I \in Seq(Tok) /\ \A i \in 1 .. Len(I) : I[i] = "eol"
    BY <1>12, <2>3, Zenon DEF Blank
  <2>5. Len(I) \in Nat
    BY <2>4
  <2>6. PICK W : W = Waiting(p)
    OBVIOUS
  <2>7. Staged(p, x, I, W, linked, missed, 0, 0)
    BY <1>9, <1>10, <2>1, <2>2, <2>4, <2>5, <2>6, EolStaged
  <2>8. QED BY <2>3, <2>6, <2>7, Begun, Zenon
<1>18. Moves(p, call[p], at[p], Len(Call(p, call[p])), job[p], cmds[p], linked, call'[p], at'[p])
  <2>1. 2 = 1 + 1 /\ 1 # 16 /\ "eat" # "send" /\ "eat" # "recv"
    OBVIOUS
  <2>2. CASE x = 1
    BY <1>4, <1>5, <1>7, <1>15, <2>2, Zenon DEF Moves
  <2>3. CASE x = 2
    BY <1>4, <1>5, <1>7, <1>8, <1>15, <2>1, <2>3, Zenon DEF Moves
  <2>4. QED BY <1>16, <2>2, <2>3
<1>19. Types'
  <2>1. cmds[p] \in Seq(Tok) /\ job[p] \in Commands \cup {"none", "boot", "data"}
    BY Now, Zenon DEF Typed
  <2>2. QED BY <1>1, <1>2, <1>12, <2>1, TypesMade
<1>20. job'[p] = job[p] /\ cmds'[p] = cmds[p] /\ linked' = linked /\ missed' = missed /\ got' = got
  BY <1>1, <1>2
<1>21. Talks(p, call'[p], at'[p], job[p], cmds[p], stream'[p] \o wire'[p], Waiting(p),
             Messages[Sent(p) + 1], linked', missed')
  BY <1>7, <1>8, <1>12, <1>15, <1>17, <1>20, Zenon
<1>22. QED BY <1>3, <1>6, <1>14, <1>18, <1>19, <1>20, <1>21, MovesCore

LEMMA LineEnough ==
  ASSUME NEW o, NEW s, o[1] \in LineOps, Enough(o, s)
  PROVE  LineEnd(Body(s)) > 0
<1>1. o[1] \notin {"puts", "eat", "data"} /\ o[1] # "prompt" /\ o[1] # "recv"
  BY DEF LineOps
<1>2. QED BY <1>1, Zenon DEF Enough

\* What reading a line does, if it is not in disorder.
LEMMA LineDone ==
  ASSUME NEW p, NEW o, NEW b, b = Body(stream[p]), Ack(p, o) \/ Expect(p, o),
         b[1] = o[2] \/ (IF o[1] = "ack" THEN ~Active(p) ELSE MaySkip(o, b[1]))
  PROVE  /\ o[1] \in LineOps /\ stream' = [stream EXCEPT ![p] = AfterLine(b)]
         /\ UNCHANGED <<fault, got, wire, cmds>>
         /\ \/ b[1] = o[2] /\ Advance(p) /\ missed' = missed
            \/ b[1] # o[2] /\ UNCHANGED <<call, at>>
               /\ missed' = (missed \/ (p = "server" /\ b[1] = "CONNECT"))
<1>1. CASE Ack(p, o)
  <2>1. o[1] = "ack"
    BY <1>1 DEF Ack
  <2>2. o[1] \in LineOps
    BY <2>1 DEF LineOps
  <2>3. UNCHANGED <<got, wire, cmds>>
    BY <1>1 DEF Ack
  <2>4. CASE b[1] = o[2]
    <3>1. Takes(p, AfterLine(b)) /\ Advance(p) /\ Fine /\ missed' = missed
      BY <1>1, <2>4, Zenon DEF Ack
    <3>2. QED BY <2>2, <2>3, <2>4, <3>1, Zenon DEF Takes, Fine
  <2>5. CASE b[1] # o[2]
    <3>1. ~Active(p)
      BY <2>1, <2>5, Zenon
    <3>2. Skips(p, b)
      BY <1>1, <2>5, <3>1, Zenon DEF Ack
    <3>3. Takes(p, AfterLine(b)) /\ Stays /\ Fine /\ missed' = (missed \/ (p = "server" /\ b[1] = "CONNECT"))
      BY <3>2 DEF Skips
    <3>4. UNCHANGED <<call, at>>
      BY <3>3 DEF Stays, pc
    <3>5. QED BY <2>2, <2>3, <2>5, <3>3, <3>4, Zenon DEF Takes, Fine
  <2>6. QED BY <2>4, <2>5
<1>2. CASE Expect(p, o)
  <2>1. o[1] \in {"expect", "ready", "conn"}
    BY <1>2 DEF Expect
  <2>2. o[1] \in LineOps /\ o[1] # "ack"
    BY <2>1 DEF LineOps
  <2>3. UNCHANGED <<got, wire, cmds>>
    BY <1>2 DEF Expect
  <2>4. CASE b[1] = o[2]
    <3>1. Takes(p, AfterLine(b)) /\ Advance(p) /\ Fine /\ missed' = missed
      BY <1>2, <2>4, Zenon DEF Expect
    <3>2. QED BY <2>2, <2>3, <2>4, <3>1, Zenon DEF Takes, Fine
  <2>5. CASE b[1] # o[2]
    <3>1. MaySkip(o, b[1])
      BY <2>2, <2>5, Zenon
    <3>2. Skips(p, b)
      BY <1>2, <2>5, <3>1, Zenon DEF Expect
    <3>3. Takes(p, AfterLine(b)) /\ Stays /\ Fine /\ missed' = (missed \/ (p = "server" /\ b[1] = "CONNECT"))
      BY <3>2 DEF Skips
    <3>4. UNCHANGED <<call, at>>
      BY <3>3 DEF Stays, pc
    <3>5. QED BY <2>2, <2>3, <2>5, <3>3, <3>4, Zenon DEF Takes, Fine
  <2>6. QED BY <2>4, <2>5
<1>3. QED BY <1>1, <1>2

LEMMA LineCore ==
  ASSUME Good, NEW p \in Progs, Step(p), Ack(p, Op(p)) \/ Expect(p, Op(p))
  PROVE  Core'
<1> DEFINE k == call[p]
           a == at[p]
           n == Len(Call(p, k))
           o == Op(p)
           b == Body(stream[p])
           v == AfterLine(b)
           J == v \o wire[p]
           W == Waiting(p)
           g == Messages[Sent(p) + 1]
<1>1. ~Ended(p) /\ Enough(o, stream[p]) /\ UNCHANGED <<job, linked>>
  BY Zenon DEF Step, Runs
<1>2. o[1] \in LineOps
  <2>1. "ack" \in LineOps /\ \A x \in {"expect", "ready", "conn"} : x \in LineOps
    BY DEF LineOps
  <2>2. o[1] = "ack" \/ o[1] \in {"expect", "ready", "conn"}
    BY Zenon DEF Ack, Expect
  <2>3. QED BY <2>1, <2>2, Zenon
<1>3. There(p) /\ OpShape(Kind(p, k), a, n, o, Cmd(p, k), Extra(p, k))
  BY <1>1, OpNow, Zenon
<1>4. LineEnd(b) > 0
  BY <1>1, <1>2, LineEnough, Zenon
<1>5. v \in Seq(Tok) /\ Hears(p, k, a, n, o, job[p], cmds[p], J, W, g, linked, missed, b[1])
  BY <1>2, <1>3, <1>4, Heard, Zenon
<1>6. Kind(p, k) # "recv"
  <2>1. "recv" \notin Commanding /\ "recv" # "eat" /\ "recv" # "conn" /\ "recv" \notin LineOps
        /\ "reset" \in Commanding /\ "at" \in Commanding /\ "link" \in Commanding /\ "send" \in Commanding
    BY DEF Commanding, LineOps
  <2>2. QED BY <1>2, <1>3, <2>1, Zenon DEF OpShape, SingleOp
<1>7. b[1] = o[2] \/ (IF o[1] = "ack" THEN ~Active(p) ELSE MaySkip(o, b[1]))
  <2>1. p = "server" /\ k <= 15 => ~Active(p)
    <3>1. k \in Nat
      BY Now, Zenon DEF Typed
    <3>2. p = "server" => Len(SetUp(p)) = 15
      BY Sizes
    <3>3. \A i \in Nat : i <= 15 => ~(i > 15)
      OBVIOUS
    <3>4. QED BY <3>1, <3>2, <3>3, Zenon DEF Active
  <2>2. QED BY <1>5, <2>1, Zenon DEF Hears
<1>8. /\ stream' = [stream EXCEPT ![p] = v] /\ UNCHANGED <<fault, got, wire, cmds>>
      /\ \/ b[1] = o[2] /\ Advance(p) /\ missed' = missed
         \/ b[1] # o[2] /\ UNCHANGED <<call, at>> /\ missed' = (missed \/ (p = "server" /\ b[1] = "CONNECT"))
  BY <1>7, LineDone, Zenon
<1>9. PICK q \in Progs : q = Peer(p) /\ q # p
  BY PeerIs
<1>10. stream'[p] = v /\ stream'[q] = stream[q]
  BY <1>5, <1>8, <1>9, Functions1, ExceptIs
<1>11. Types'
  <2>1. wire[p] \in Seq(Tok) /\ cmds[p] \in Seq(Tok) /\ job[p] \in Commands \cup {"none", "boot", "data"}
    BY Now, Zenon DEF Typed
  <2>2. QED BY <1>1, <1>5, <1>8, <2>1, TypesMade
<1> HIDE DEF k, a, n, o, b, v, J, W, g
<1>12. a \in Nat
  BY Now, Zenon DEF Typed, a
<1>13. J = stream'[p] \o wire'[p]
  BY <1>8, <1>10, Zenon DEF J
<1>14. /\ call'[q] = call[q] /\ at'[q] = at[q] /\ (missed' = missed \/ p = "server")
       /\ Moves(p, k, a, n, job[p], cmds[p], linked, call'[p], at'[p])
       /\ Talks(p, call'[p], at'[p], job[p], cmds[p], J, W, g, linked, missed')
  <2>1. CASE b[1] = o[2]
    <3>1. Advance(p) /\ missed' = missed
      BY <1>8, <2>1, Zenon
    <3>2. /\ call'[q] = call[q] /\ at'[q] = at[q]
          /\ IF a = n THEN call'[p] = k + 1 /\ at'[p] = 1 ELSE call'[p] = k /\ at'[p] = a + 1
      BY <1>9, <3>1, AdvanceIs, Zenon DEF a, n, k
    <3>3. CASE a >= 2 /\ a < n /\ (Kind(p, k) = "send" => a # 5) /\ Talks(p, k, a + 1, job[p], cmds[p], J, W, g, linked, missed)
      <4>1. a # n
        <5>1. \A i \in Nat : ~(i < i)
          OBVIOUS
        <5>2. QED BY <1>12, <3>3, <5>1, Zenon
      <4>2. QED BY <3>1, <3>2, <3>3, <4>1, Zenon DEF Moves
    <3>4. CASE /\ a = n /\ job[p] = "none" /\ cmds[p] = <<>> /\ (Kind(p, k) = "send" => a >= 6)
               /\ (p = "server" /\ k = 16 => linked) /\ Talks(p, k + 1, 1, job[p], cmds[p], J, W, g, linked, missed)
      BY <1>6, <3>1, <3>2, <3>4, Zenon DEF Moves
    <3>5. QED BY <1>5, <2>1, <3>3, <3>4, Zenon DEF Hears
  <2>2. CASE b[1] # o[2]
    <3>1. UNCHANGED <<call, at>> /\ missed' = (missed \/ (p = "server" /\ b[1] = "CONNECT"))
      BY <1>8, <2>2, Zenon
    <3>2. missed' = missed \/ p = "server"
      <4>1. missed \in BOOLEAN
        BY DEF Good, TypeOK
      <4>2. QED BY <3>1, <4>1
    <3>3. Talks(p, k, a, job[p], cmds[p], J, W, g, linked, missed')
      BY <1>5, <2>2, <3>1, Zenon DEF Hears
    <3>4. QED BY <3>1, <3>2, <3>3, Zenon DEF Moves, k, a
  <2>3. QED BY <2>1, <2>2
<1>15. Kept(q)
  BY <1>1, <1>8, <1>10, <1>14 DEF Kept
<1>16. Talks(p, call'[p], at'[p], job[p], cmds[p], stream'[p] \o wire'[p], Waiting(p),
             Messages[Sent(p) + 1], linked', missed')
  BY <1>1, <1>13, <1>14, Zenon DEF W, g
<1>17. Moves(p, call[p], at[p], Len(Call(p, call[p])), job[p], cmds[p], linked, call'[p], at'[p])
  BY <1>14, Zenon DEF k, a, n
<1>18. job'[p] = job[p] /\ cmds'[p] = cmds[p] /\ got' = got /\ linked' = linked
  BY <1>1, <1>8
<1>19. QED BY <1>3, <1>9, <1>11, <1>14, <1>15, <1>16, <1>17, <1>18, MovesCore

\* A step of a program that only reads, from a to y in the same call.
LEMMA PromptRead ==
  ASSUME NEW p, NEW k, NEW a, NEW j, NEW c, NEW I, NEW W, NEW g, NEW l, NEW s, NEW r, NEW m, NEW q, NEW J,
         Reading(p, k, a, r), Printed(p, k, a, j, c, g, m), AtFront(p, k, I, W, l, s, r, m, q),
         r \in Nat, m \in Nat, a = 4, Kind(p, k) = "send", k \in 1 .. Len(esp_main(p)), Drops(I, J, q, q)
  PROVE  I[q] = ">" /\ Talks(p, k, 5, j, c, J, W, g, l, s)
<1>1. p \in Progs
  BY Zenon DEF AtFront
<1>2. k > (IF p = "server" THEN 16 ELSE 8)
  BY <1>1, SendCall
<1>3. r = 2
  <2>1. 4 \in 3 .. 5 /\ 4 - 2 = 2
    OBVIOUS
  <2>2. QED BY <2>1, Zenon DEF Reading
<1>4. FrontItem(p, k, I, W, l, s, r, m, q)
  <2>1. FrontConnect(p, k, I, W, l, r, m, q) \/ FrontItem(p, k, I, W, l, s, r, m, q)
    BY FrontIs
  <2>2. ~FrontConnect(p, k, I, W, l, r, m, q)
    <3>1. \A i \in 1 .. Len(esp_main(p)) : i > 16 => ~(i <= 16)
      BY <1>1, Sizes
    <3>2. QED BY <1>2, <3>1, Zenon DEF FrontConnect
  <2>3. QED BY <2>1, <2>2
<1>5. r < m /\ I[q] = Answer(p, k)[r + 1] /\ Staged(p, k, J, W, l, s, r + 1, m)
  BY <1>4, Zenon DEF FrontItem
<1>6. r + 1 = 3 /\ 4 + 1 = 5 /\ 4 # 5 /\ 4 >= 2 /\ 4 \in Nat /\ 3 \in Nat
  BY <1>3
<1>7. Answer(p, k)[3] = ">"
  BY Answers
<1>8. Printed(p, k, 4 + 1, j, c, g, m)
  <2>1. 4 \in Nat /\ Printed(p, k, 4, j, c, g, m) /\ 4 >= 2 /\ r < m /\ 4 # 5
    BY <1>5
  <2>2. QED BY <2>1, PrintedOn
<1>9. Reading(p, k, 5, 3)
  <2>1. ~(5 <= 2) /\ 5 # 3 /\ 5 # 4 /\ 5 - 2 = 3 /\ 5 \notin 6 .. 7 /\ "send" # "at" /\ "send" # "reset" /\ "send" # "link"
    OBVIOUS
  <2>2. QED BY <2>1, Zenon DEF Reading
<1>10. QED BY <1>5, <1>6, <1>7, <1>8, <1>9, Zenon DEF Talks

LEMMA PromptCore ==
  ASSUME Good, NEW p \in Progs, Step(p), Prompt(p, Op(p))
  PROVE  Core'
<1> DEFINE k == call[p]
           a == at[p]
           n == Len(Call(p, k))
           o == Op(p)
           b == Body(stream[p])
           I == Input(p)
           v == Tail(b)
           J == v \o wire[p]
           W == Waiting(p)
           g == Messages[Sent(p) + 1]
<1>1. ~Ended(p) /\ Enough(o, stream[p]) /\ UNCHANGED <<job, linked>>
  BY Zenon DEF Step, Runs
<1>2. o[1] = "prompt"
  BY DEF Prompt
<1>3. /\ There(p) /\ k \in 1 .. Len(esp_main(p)) /\ a \in DOMAIN Call(p, k)
      /\ OpShape(Kind(p, k), a, n, o, Cmd(p, k), Extra(p, k))
  BY <1>1, OpNow, Zenon
<1>4. Kind(p, k) = "send" /\ a = 4 /\ n = 7
  <2>1. "prompt" # "puts" /\ "prompt" # "ack" /\ "prompt" # "expect" /\ "prompt" # "ready" /\ "prompt" # "eat"
        /\ "prompt" # "data" /\ "prompt" # "conn" /\ "prompt" # "recv"
    OBVIOUS
  <2>2. QED BY <1>2, <1>3, <2>1, Zenon DEF OpShape, ResetOp, AtOp, LinkOp, SendOp, SingleOp
<1>5. b # <<>>
  <2>1. o[1] \notin {"puts", "eat", "data"}
    BY <1>2
  <2>2. PromptCame(b)
    BY <1>1, <1>2, <2>1, Zenon DEF Enough
  <2>3. QED BY <2>2, Zenon DEF PromptCame
<1>6. PICK r, m \in Nat : /\ Reading(p, k, a, r) /\ Printed(p, k, a, job[p], cmds[p], g, m)
                          /\ Staged(p, k, I, W, linked, missed, r, m)
  BY Now, Zenon DEF Own, Talks
<1>7. /\ Len(W) \in Nat /\ (Len(W) > 0 => W[1] # "eol") /\ Len(I) \in Nat /\ k \in Places(p)
      /\ stream[p] \in Seq(Tok) /\ wire[p] \in Seq(Tok) /\ I = stream[p] \o wire[p]
      /\ cmds[p] \in Seq(Tok) /\ job[p] \in Commands \cup {"none", "boot", "data"}
  BY Now, WaitingNow, Zenon DEF Typed, Place, Input
<1>8. r < m \/ Len(W) = 0
  <2>1. r <= m
    BY <1>6, <1>7, MessageThere, Zenon
  <2>2. Kind(p, k) # "recv"
    BY <1>4
  <2>3. QED BY <1>3, <1>6, <2>1, <2>2, Behind, Zenon
<1>9. PICK q \in 1 .. Len(stream[p]) : FirstAt(I, q) /\ b[1] = I[q] /\ v \in Seq(Tok) /\ Dropped(I, q, J)
  <2> HIDE DEF I
  <2>1. Body(stream[p]) # <<>>
    BY <1>5
  <2>2. TookPrompt(Tok, stream[p], Body(stream[p]), wire[p], I)
    BY <1>7, <2>1, PromptTaken
  <2>3. QED BY <2>2, Zenon DEF TookPrompt
<1> HIDE DEF k, a, n, o, b, v, I, J, W, g
<1>10. Drops(I, J, q, q)
  <2>1. q \in Nat /\ q >= q /\ q <= Len(I) /\ \A i \in q + 1 .. q : I[i] = "eol"
    <3>1. q \in 1 .. Len(I)
      BY <1>9, Zenon DEF FirstAt
    <3>2. \A e \in Nat : \A x \in 1 .. e : x \in Nat /\ x >= x /\ x <= e /\ \A i \in x + 1 .. x : FALSE
      OBVIOUS
    <3>3. QED BY <1>7, <3>1, <3>2, Zenon
  <2>2. QED BY <1>9, <2>1, Zenon DEF Drops
<1>11. AtFront(p, k, I, W, linked, missed, r, m, q)
  BY <1>6, <1>7, <1>8, <1>9, Zenon DEF AtFront
<1>12. I[q] = ">" /\ Talks(p, k, 5, job[p], cmds[p], J, W, g, linked, missed)
  BY <1>3, <1>4, <1>6, <1>10, <1>11, PromptRead
<1>13. stream' = [stream EXCEPT ![p] = v] /\ Advance(p) /\ UNCHANGED <<fault, got, wire, cmds, missed>>
  <2>1. b[1] = ">"
    BY <1>9, <1>12
  <2>2. PICK d \in {Body(stream[p])} :
          /\ IF d[1] = ">" THEN Takes(p, Tail(d)) /\ Advance(p) /\ Fine
                           ELSE Panic(p, "no_prompt")
          /\ UNCHANGED <<got, wire, cmds, missed>>
    BY Zenon DEF Prompt
  <2>3. d = b
    BY <2>2 DEF b
  <2>4. QED BY <2>1, <2>2, <2>3, Zenon DEF Takes, Fine, v
<1>14. PICK z \in Progs : z = Peer(p) /\ z # p
  BY PeerIs
<1>15. stream'[p] = v /\ stream'[z] = stream[z]
  BY <1>9, <1>13, <1>14, Functions1, ExceptIs
<1>16. call'[z] = call[z] /\ at'[z] = at[z] /\ call'[p] = k /\ at'[p] = 5
  <2>1. a # n /\ a + 1 = 5
    BY <1>4
  <2>2. QED BY <1>13, <1>14, <2>1, AdvanceIs, Zenon DEF a, n, k
<1>17. Types'
  BY <1>1, <1>7, <1>9, <1>13, TypesMade
<1>18. Kept(z)
  BY <1>1, <1>13, <1>15, <1>16 DEF Kept
<1>19. Talks(p, call'[p], at'[p], job[p], cmds[p], stream'[p] \o wire'[p], Waiting(p),
             Messages[Sent(p) + 1], linked', missed')
  BY <1>1, <1>12, <1>13, <1>15, <1>16, Zenon DEF J, W, g
<1>20. Moves(p, call[p], at[p], Len(Call(p, call[p])), job[p], cmds[p], linked, call'[p], at'[p])
  <2>1. 4 + 1 = 5 /\ 4 >= 2 /\ 4 < 7 /\ 4 # 5
    OBVIOUS
  <2>2. QED BY <1>4, <1>16, <2>1, Zenon DEF Moves, k, a, n
<1>21. job'[p] = job[p] /\ cmds'[p] = cmds[p] /\ got' = got /\ linked' = linked /\ missed' = missed
  BY <1>1, <1>13
<1>22. QED BY <1>3, <1>14, <1>17, <1>18, <1>19, <1>20, <1>21, MovesCore

LEMMA QuietStep ==
  ASSUME Good, NEW p \in Progs, NEW q \in Progs, q = Peer(p), Types', got' = got, Kept(q),
         linked' = linked, missed' = missed, Linking',
         Place(p, call'[p], Had(p)), SentOf(p, call'[p], at'[p], job'[p], Had(p)) = Sent(p),
         Talks(p, call'[p], at'[p], job'[p], cmds'[p], stream'[p] \o wire'[p], Waiting(p),
               Messages[Sent(p) + 1], linked', missed')
  PROVE  Core'
<1>1. OwnWill(p)
  BY Zenon DEF OwnWill
<1>2. OwnWill(q)
  BY KeptOwn
<1>3. call'[q] = call[q] /\ at'[q] = at[q] /\ job'[q] = job[q]
  BY DEF Kept
<1>4. QED BY <1>1, <1>2, <1>3, QuietCore

\* While a program sends, its peer has read everything.
LEMMA SendingNow ==
  ASSUME Good, NEW p \in Progs, Kind(p, call[p]) = "send", ~Given(Kind(p, call[p]), at[p], job[p])
  PROVE  /\ Sent(p) = Had(Peer(p)) /\ Sent(p) \in Nat /\ Sent(p) + 1 \in 1 .. N
         /\ p = "server" => Sent(p) = Had(p)
         /\ p = "client" => Sent(p) + 1 = Had(p)
         /\ Waiting(Peer(p)) = <<>>
<1>1. NumbersNow
  BY NumbersGood
<1>2. \A i \in Nat : ~(i > i)
  OBVIOUS
<1>3. Had("server") \in Nat /\ Had("client") \in Nat
  BY Now, ProgsAre, Zenon DEF Typed
<1>4. CASE p = "server"
  <2>1. Sent("server") = Had("client") /\ Sent("server") = Had("server") /\ Had("server") + 1 \in 1 .. N
    BY <1>1, <1>4, ServerSends DEF NumbersNow
  <2>2. Waiting("client") = <<>>
    BY <1>2, <1>3, <2>1, ProgsAre, Zenon DEF Waiting
  <2>3. QED BY <1>3, <1>4, <2>1, <2>2, ProgsAre, Zenon
<1>5. CASE p = "client"
  <2>1. Sent("client") = Had("server") /\ Sent("client") + 1 = Had("client") /\ Had("client") \in 1 .. N
    BY <1>1, <1>5, ClientSends DEF NumbersNow
  <2>2. Waiting("server") = <<>>
    BY <1>2, <1>3, <2>1, ProgsAre, Zenon DEF Waiting
  <2>3. QED BY <1>3, <1>5, <2>1, <2>2, ProgsAre, Zenon
<1>6. QED BY <1>4, <1>5, ProgsAre

ServerAck == <<"ack", "AT+CIPSERVER", FALSE>>

LEMMA ServerCall ==
  /\ 10 \in 1 .. Len(esp_main("server")) /\ Call("server", 10) = At("AT+CIPSERVER", FALSE)
  /\ DOMAIN Call("server", 10) = 1 .. 3 /\ Call("server", 10)[2] = ServerAck
<1>1. N \in Nat
  BY NType
<1>2. 10 \in 1 .. Len(esp_main("server"))
  BY <1>1, ProgsAre, Sizes
<1>3. Call("server", 10) = At("AT+CIPSERVER", FALSE)
  <2>1. Call("server", 10) = ServerMain[10]
    BY ProgsAre, Zenon DEF Call, esp_main
  <2>2. 10 \in 1 .. 15
    OBVIOUS
  <2>3. ServerMain[10] = ServerSetUp[10]
    BY <2>2, ServerCalls, Zenon
  <2>4. QED BY <2>1, <2>3, ServerSetUpCalls, Zenon
<1>4. DOMAIN At("AT+CIPSERVER", FALSE) = 1 .. 3 /\ At("AT+CIPSERVER", FALSE)[2] = ServerAck
  BY AtOps, Zenon DEF ServerAck
<1>5. QED BY <1>2, <1>3, <1>4, Zenon

\* The client asks for the connection when the server's esp listens.
LEMMA ListensUp ==
  ASSUME Good, Listening
  PROVE  ServerUp
<1> DEFINE k == call["server"]
           a == at["server"]
           j == job["server"]
<1>1. j # "AT+CIPSERVER" /\ ~Ahead("server", ServerAck)
  BY Zenon DEF Listening, ServerAck
<1>2. k \in Nat /\ a \in Nat /\ "server" \in Progs
  BY Now, ProgsAre, Zenon DEF Typed
<1>3. ~\E i \in k .. Len(esp_main("server")) : \E e \in DOMAIN Call("server", i) :
          Call("server", i)[e] = ServerAck /\ (i = k => e >= a)
  BY <1>1, Zenon DEF Ahead, Call
<1> HIDE DEF k, a, j
<1>4. ~(k < 10)
  <2>1. ASSUME k < 10 PROVE FALSE
    <3>1. 10 \in k .. Len(esp_main("server")) /\ 10 # k
      BY <1>2, <2>1, ServerCall, Sizes
    <3>2. 2 \in DOMAIN Call("server", 10)
      BY ServerCall
    <3>3. QED BY <1>3, <3>1, <3>2, ServerCall, Zenon
  <2>2. QED BY <2>1
<1>5. CASE k = 10
  <2>1. ~(2 >= a)
    <3>1. ASSUME 2 >= a PROVE FALSE
      <4>1. 10 \in k .. Len(esp_main("server"))
        BY <1>2, <1>5, ServerCall, Sizes
      <4>2. 2 \in DOMAIN Call("server", 10)
        BY ServerCall
      <4>3. QED BY <1>3, <3>1, <4>1, <4>2, ServerCall, Zenon
    <3>2. QED BY <3>1
  <2>2. There("server")
    <3>1. ~Ended("server")
      <4>1. call["server"] = 10
        BY <1>5 DEF k
      <4>2. ~(10 > Len(esp_main("server")))
        BY ServerCall, Sizes, <1>2
      <4>3. QED BY <4>1, <4>2, Zenon DEF Ended
    <3>2. QED BY <1>2, <3>1, OpNow
  <2>3. a \in 1 .. 3
    BY <1>5, <2>2, ServerCall, Zenon DEF There, a, k
  <2>4. a = 3
    BY <2>1, <2>3
  <2>5. Kind("server", 10) = "at" /\ Cmd("server", 10) = "AT+CIPSERVER"
    <3>1. Kind("server", 10) = "at"
      BY <1>2, FirstKinds
    <3>2. QED BY <1>2, <3>1, AtCall, ServerCall
  <2>6. j = "none"
    <3>1. PICK c, g, m : Printed("server", 10, 3, j, c, g, m)
      BY Now, <1>2, <1>5, <2>4, Zenon DEF Own, Talks, j, k, a
    <3>2. 3 # 1 /\ 3 # 2 /\ "at" # "reset" /\ "at" # "send" /\ "at" \in Commanding
      BY DEF Commanding
    <3>3. QED BY <1>1, <2>5, <3>1, <3>2, Zenon DEF Printed
  <2>7. QED BY <1>5, <2>4, <2>6, Zenon DEF ServerUp, UpOf, k, a, j
<1>6. CASE k > 10
  BY <1>6, Zenon DEF ServerUp, UpOf, k
<1>7. QED BY <1>2, <1>4, <1>5, <1>6

\* The command is AT+CIPSERVER in one call only.
LEMMA ServerCmd ==
  ASSUME NEW i \in 1 .. Len(esp_main("server")), Kind("server", i) \in Commanding,
         Cmd("server", i) = "AT+CIPSERVER"
  PROVE  i = 10 /\ Kind("server", i) = "at"
<1>1. "server" \in Progs
  BY ProgsAre
<1>2. "AT+CIPSERVER" # "AT+RST" /\ "AT+CIPSERVER" # "AT+RESTORE" /\ "AT+CIPSERVER" # "AT+CIPSTART"
      /\ "AT+CIPSERVER" # "AT+CIPSEND"
  OBVIOUS
<1>3. Kind("server", i) = "reset" \/ Kind("server", i) = "at" \/ Kind("server", i) = "link" \/ Kind("server", i) = "send"
  BY Zenon DEF Commanding
<1>4. CASE Kind("server", i) = "reset"
  <2>1. Cmd("server", i) \in {"AT+RST", "AT+RESTORE"}
    BY <1>1, <1>4, ResetCall
  <2>2. QED BY <1>2, <2>1
<1>5. CASE Kind("server", i) = "at"
  BY <1>1, <1>5, AtCall
<1>6. CASE Kind("server", i) = "link"
  BY <1>1, <1>2, <1>6, LinkCall
<1>7. CASE Kind("server", i) = "send"
  BY <1>1, <1>2, <1>7, SendCall
<1>8. QED BY <1>3, <1>4, <1>5, <1>6, <1>7

LEMMA UpListens ==
  ASSUME Good, ServerUp
  PROVE  Listening
<1> DEFINE k == call["server"]
           a == at["server"]
           j == job["server"]
<1>1. k > 10 \/ (k = 10 /\ a = 3 /\ j = "none")
  BY Zenon DEF ServerUp, UpOf
<1>2. k \in Nat /\ a \in Nat /\ "server" \in Progs /\ k \in Places("server")
  BY Now, ProgsAre, Zenon DEF Typed, Place
<1>3. PICK c, g, m : Printed("server", k, a, j, c, g, m)
  BY Now, <1>2, Zenon DEF Own, Talks
<1> HIDE DEF k, a, j
<1>4. j # "AT+CIPSERVER"
  <2>1. ASSUME j = "AT+CIPSERVER" PROVE FALSE
    <3>1. "AT+CIPSERVER" # "none" /\ "AT+CIPSERVER" # "boot" /\ "AT+CIPSERVER" # "data"
      OBVIOUS
    <3>2. Kind("server", k) \in Commanding /\ Cmd("server", k) = "AT+CIPSERVER"
      BY <1>3, <2>1, <3>1, Zenon DEF Printed
    <3>3. k \in 1 .. Len(esp_main("server"))
      BY <1>2, <3>2, AnswerLines
    <3>4. k = 10
      BY <3>2, <3>3, ServerCmd
    <3>5. ~(10 > 10)
      OBVIOUS
    <3>6. QED BY <1>1, <2>1, <3>1, <3>4, <3>5, Zenon
  <2>2. QED BY <2>1
<1>5. ~Ahead("server", ServerAck)
  <2>1. ASSUME NEW i \in k .. Len(esp_main("server")), NEW e \in DOMAIN Call("server", i),
               Call("server", i)[e] = ServerAck, i = k => e >= a
        PROVE  FALSE
    <3>1. i \in 1 .. Len(esp_main("server")) /\ i >= k
      BY <1>2, Sizes DEF Places
    <3>2. OpShape(Kind("server", i), e, Len(Call("server", i)), ServerAck, Cmd("server", i), Extra("server", i))
      BY <1>2, <2>1, <3>1, OpIs
    <3>3. ServerAck[1] = "ack" /\ ServerAck[2] = "AT+CIPSERVER"
      BY DEF ServerAck
    <3>4. e = 2 /\ Cmd("server", i) = "AT+CIPSERVER" /\ Kind("server", i) \in Commanding
      <4>1. /\ "ack" # "puts" /\ "ack" # "expect" /\ "ack" # "ready" /\ "ack" # "prompt" /\ "ack" # "data"
            /\ "ack" # "eat" /\ "ack" # "conn" /\ "ack" # "recv"
            /\ "reset" \in Commanding /\ "at" \in Commanding /\ "link" \in Commanding /\ "send" \in Commanding
        BY DEF Commanding
      <4>2. QED BY <3>2, <3>3, <4>1, Zenon DEF OpShape, ResetOp, AtOp, LinkOp, SendOp, SingleOp
    <3>5. i = 10
      BY <3>1, <3>4, ServerCmd
    <3>6. k = 10 /\ a = 3
      <4>1. ~(k > 10)
        BY <1>2, <3>1, <3>5
      <4>2. QED BY <1>1, <4>1
    <3>7. ~(2 >= 3)
      OBVIOUS
    <3>8. QED BY <2>1, <3>4, <3>5, <3>6, <3>7, Zenon
  <2>2. QED BY <2>1, Zenon DEF Ahead, Call, k, a
<1>6. QED BY <1>4, <1>5, Zenon DEF Listening, ServerAck, j

LEMMA PutsCore ==
  ASSUME Good, NEW p \in Progs, Step(p), Puts(p, Op(p))
  PROVE  Core'
<1> DEFINE k == call[p]
           a == at[p]
           n == Len(Call(p, k))
           o == Op(p)
           W == Waiting(p)
           g == Messages[Sent(p) + 1]
           v == <<Cmd(p, k), "eol">>
<1>1. ~Ended(p) /\ UNCHANGED <<job, linked>> /\ ((p = "client" /\ Op(p) = CIPSTART) => Listening)
  BY Zenon DEF Step, Runs
<1>2. o[1] = "puts" /\ cmds' = [cmds EXCEPT ![p] = cmds[p] \o <<o[2], "eol">>] /\ Advance(p)
      /\ UNCHANGED <<stream, fault, got, wire, missed>>
  BY DEF Puts
<1>3. /\ There(p) /\ k \in 1 .. Len(esp_main(p)) /\ a \in DOMAIN Call(p, k)
      /\ OpShape(Kind(p, k), a, n, o, Cmd(p, k), Extra(p, k))
  BY <1>1, OpNow, Zenon
<1>4. Kind(p, k) \in Commanding /\ a = 1 /\ o[2] = Cmd(p, k) /\ n # 1
  <2>1. /\ "puts" # "ack" /\ "puts" # "expect" /\ "puts" # "ready" /\ "puts" # "prompt"
        /\ "puts" # "data" /\ "puts" # "conn" /\ "puts" # "recv" /\ "puts" # "eat" /\ 4 # 1 /\ 3 # 1 /\ 7 # 1
        /\ "reset" \in Commanding /\ "at" \in Commanding /\ "link" \in Commanding /\ "send" \in Commanding
    BY DEF Commanding
  <2>2. QED BY <1>2, <1>3, <2>1, Zenon DEF OpShape, ResetOp, AtOp, LinkOp, SendOp, SingleOp
<1>5. /\ wire[p] \in Seq(Tok) /\ stream[p] \in Seq(Tok) /\ job[p] \in Commanding \cup Commands \cup {"none", "boot", "data"}
      /\ job[p] \in Commands \cup {"none", "boot", "data"} /\ k \in Nat /\ Place(p, k, Had(p)) /\ k \in Places(p)
  BY Now, Zenon DEF Typed, Place
<1>6. PICK r, m \in Nat : /\ Reading(p, k, a, r) /\ Printed(p, k, a, job[p], cmds[p], g, m)
                          /\ Staged(p, k, Input(p), W, linked, missed, r, m)
  BY Now, Zenon DEF Own, Talks
<1> HIDE DEF k, a, n, o, W, g, v
<1>7. r = 0 /\ m = 0 /\ job[p] = "none" /\ cmds[p] = <<>>
  <2>1. 1 <= 2 /\ ~(1 >= 2)
    OBVIOUS
  <2>2. QED BY <1>4, <1>6, <2>1, Zenon DEF Reading, Printed
<1>8. v \in Seq(Tok) /\ <<>> \o v = v
  <2>1. Cmd(p, k) \in Tok /\ "eol" \in Tok
    <3>1. Cmd(p, k) \in Commands
      BY <1>4, <1>5, AnswerLines
    <3>2. QED BY <3>1, Zenon DEF Tok, Words
  <2>2. PICK w : w = Cmd(p, k)
    OBVIOUS
  <2>3. w \in Tok /\ "eol" \in Tok
    BY <2>1, <2>2
  <2>4. <<w, "eol">> \in Seq(Tok) /\ <<>> \o <<w, "eol">> = <<w, "eol">>
    BY <2>3
  <2>5. QED BY <2>2, <2>4, Zenon DEF v
<1>9. cmds' = [cmds EXCEPT ![p] = v]
  <2>1. cmds[p] \o <<o[2], "eol">> = v
    BY <1>4, <1>7, <1>8, Zenon DEF v
  <2>2. QED BY <1>2, <2>1, Zenon
<1>10. PICK q \in Progs : q = Peer(p) /\ q # p
  BY PeerIs
<1>11. cmds'[p] = v /\ cmds'[q] = cmds[q]
  BY <1>8, <1>9, <1>10, Functions1, ExceptIs
<1>12. call'[q] = call[q] /\ at'[q] = at[q] /\ call'[p] = k /\ at'[p] = 2
  <2>1. a # n /\ a + 1 = 2
    BY <1>4
  <2>2. QED BY <1>2, <1>10, <2>1, AdvanceIs, Zenon DEF a, n, k
<1>13. Types'
  BY <1>1, <1>2, <1>5, <1>8, <1>9, TypesMade
<1>14. Kept(q)
  BY <1>1, <1>2, <1>11, <1>12 DEF Kept
<1>15. Talks(p, k, 2, "none", v, Input(p), W, g, linked, missed)
  <2>1. Reading(p, k, 2, 0)
    <3>1. 2 # 3 /\ 2 # 4 /\ ~(2 >= 3) /\ 2 \notin 3 .. 5 /\ 2 \notin 6 .. 7
      OBVIOUS
    <3>2. QED BY <3>1, Zenon DEF Reading
  <2>2. Printed(p, k, 2, "none", v, g, 0)
    <3>1. 2 >= 2
      OBVIOUS
    <3>2. QED BY <1>4, <3>1, Zenon DEF Printed, v
  <2>3. 0 \in Nat
    OBVIOUS
  <2>4. QED BY <1>6, <1>7, <2>1, <2>2, <2>3, Zenon DEF Talks
<1>16. SentOf(p, k, 2, "none", Had(p)) = Sent(p)
  <2>1. PICK j, h : j = "none" /\ h = Had(p)
    OBVIOUS
  <2>2. ASSUME NEW y \in Nat, y # 5 PROVE SentOf(p, k, y + 1, j, h) = SentOf(p, k, y, j, h)
    <3>1. Kind(p, k) = "send" => y # 5
      BY <2>2
    <3>2. QED BY <3>1, SentWithin
  <2>3. PICK y \in Nat : y = 1 /\ y # 5 /\ y + 1 = 2
    OBVIOUS
  <2>4. SentOf(p, k, y + 1, j, h) = SentOf(p, k, y, j, h)
    BY <2>2, <2>3, Zenon
  <2>5. QED BY <1>4, <1>7, <2>1, <2>3, <2>4, Zenon DEF Sent, k, a
<1>17. Linking'
  <2>1. p = "client" => (LinkedOf(k, 2, "none", v) <=> LinkedOf(k, 1, "none", <<>>))
    <3>1. v # <<>> /\ ~(1 >= 2)
      <4>1. \A w : <<w, "eol">> # <<>>
        OBVIOUS
      <4>2. QED BY <4>1 DEF v
    <3>2. QED BY <3>1, Zenon DEF LinkedOf
  <2>2. p = "client" => (AskedOf(k, 2) => AskedOf(k, 1) \/ ServerUp)
    <3>1. ASSUME p = "client", k = 8 PROVE ServerUp
      <4>1. Kind(p, k) = "link"
        BY <3>1, FirstKinds
      <4>2. LinkOf(Call(p, k))
        BY <1>3, <4>1, LinkCall
      <4>3. Op(p) = CIPSTART
        BY <1>4, <4>2, Zenon DEF LinkOf, CIPSTART, Op, Call, a, k
      <4>4. QED BY <1>1, <3>1, <4>3, ListensUp
    <3>2. QED BY <3>1, Zenon DEF AskedOf
  <2>3. p = "server" => (UpOf(k, 1, "none") => UpOf(k, 2, "none"))
    <3>1. 1 # 3
      OBVIOUS
    <3>2. QED BY <3>1, Zenon DEF UpOf
  <2>4. call'[p] = call[p] /\ job'[p] = "none" /\ job'[q] = job[q] /\ linked' = linked /\ at[p] = 1
    BY <1>1, <1>4, <1>7, <1>12 DEF k, a
  <2>5. QED BY <1>7, <1>10, <1>11, <1>12, <2>1, <2>2, <2>3, <2>4, LinkStep, Zenon DEF k
<1>18. /\ Place(p, call'[p], Had(p)) /\ SentOf(p, call'[p], at'[p], job'[p], Had(p)) = Sent(p)
       /\ Talks(p, call'[p], at'[p], job'[p], cmds'[p], stream'[p] \o wire'[p], Waiting(p),
                Messages[Sent(p) + 1], linked', missed')
  BY <1>1, <1>2, <1>5, <1>7, <1>11, <1>12, <1>15, <1>16, Zenon DEF Input, W, g
<1>19. got' = got /\ linked' = linked /\ missed' = missed
  BY <1>1, <1>2
<1>20. QED BY <1>10, <1>13, <1>14, <1>17, <1>18, <1>19, QuietStep

\* The data a program writes is the message it has to send.
LEMMA Payloads ==
  ASSUME Good, NEW p \in Progs, Kind(p, call[p]) = "send", ~Given(Kind(p, call[p]), at[p], job[p])
  PROVE  (IF p = "server" THEN Messages[Len(got[p]) + 1] ELSE got[p][Len(got[p])]) = Messages[Sent(p) + 1]
<1>1. Had(p) = Len(got[p])
  BY Zenon DEF Had
<1>2. /\ Sent(p) + 1 \in 1 .. N /\ (p = "server" => Sent(p) = Had(p)) /\ (p = "client" => Sent(p) + 1 = Had(p))
      /\ Sent(p) \in Nat
  BY SendingNow
<1>3. CASE p = "server"
  BY <1>1, <1>2, <1>3, Zenon
<1>4. CASE p = "client"
  <2>1. \A i \in 1 .. Had(p) : got[p][i] = Messages[i]
    BY DEF Good, Core, Received
  <2>2. \A h \in Nat : \A s \in Nat : s + 1 = h => h \in 1 .. h
    OBVIOUS
  <2>3. Had(p) \in Nat
    BY Now, Zenon DEF Typed
  <2>4. Had(p) \in 1 .. Had(p)
    BY <1>2, <1>4, <2>2, <2>3, Zenon
  <2>5. got[p][Had(p)] = Messages[Had(p)]
    BY <2>1, <2>4, Zenon
  <2>6. p # "server"
    BY <1>4
  <2>7. QED BY <1>1, <1>2, <1>4, <2>5, <2>6, Zenon
<1>5. QED BY <1>3, <1>4, ProgsAre

LEMMA DataCore ==
  ASSUME Good, NEW p \in Progs, Step(p), Data(p, Op(p))
  PROVE  Core'
<1> DEFINE k == call[p]
           a == at[p]
           n == Len(Call(p, k))
           o == Op(p)
           W == Waiting(p)
           g == Messages[Sent(p) + 1]
<1>1. ~Ended(p) /\ UNCHANGED <<job, linked>>
  BY Zenon DEF Step, Runs
<1>2. o[1] = "data" /\ Advance(p) /\ UNCHANGED <<stream, fault, got, wire, missed>>
      /\ cmds' = [cmds EXCEPT ![p] = cmds[p] \o (IF p = "server" THEN Messages[Len(got[p]) + 1]
                                                   ELSE got[p][Len(got[p])])]
  BY DEF Data
<1>3. /\ There(p) /\ k \in 1 .. Len(esp_main(p)) /\ a \in DOMAIN Call(p, k)
      /\ OpShape(Kind(p, k), a, n, o, Cmd(p, k), Extra(p, k))
  BY <1>1, OpNow, Zenon
<1>4. Kind(p, k) = "send" /\ a = 5 /\ n = 7
  <2>1. "data" # "puts" /\ "data" # "ack" /\ "data" # "expect" /\ "data" # "ready" /\ "data" # "eat"
        /\ "data" # "prompt" /\ "data" # "conn" /\ "data" # "recv"
    OBVIOUS
  <2>2. QED BY <1>2, <1>3, <2>1, Zenon DEF OpShape, ResetOp, AtOp, LinkOp, SendOp, SingleOp
<1>5. /\ wire[p] \in Seq(Tok) /\ stream[p] \in Seq(Tok)
      /\ job[p] \in Commands \cup {"none", "boot", "data"} /\ k \in Nat /\ Place(p, k, Had(p)) /\ k \in Places(p)
  BY Now, Zenon DEF Typed, Place
<1>6. PICK r, m \in Nat : /\ Reading(p, k, a, r) /\ Printed(p, k, a, job[p], cmds[p], g, m)
                          /\ Staged(p, k, Input(p), W, linked, missed, r, m)
  BY Now, Zenon DEF Own, Talks
<1>7. /\ (IF p = "server" THEN Messages[Len(got[p]) + 1] ELSE got[p][Len(got[p])]) = g
      /\ Sent(p) + 1 \in 1 .. N
  <2>1. ~Given(Kind(p, k), a, job[p])
    <3>1. ~(5 >= 6)
      OBVIOUS
    <3>2. QED BY <1>4, <3>1, Zenon DEF Given
  <2>2. QED BY <1>4, <2>1, Payloads, SendingNow
<1>8. g \in Seq(Tok)
  BY <1>7, MessageShape
<1>9. k > (IF p = "server" THEN 16 ELSE 8)
  BY <1>3, <1>4, SendCall
<1>10. r <= m
  <2>1. Len(Input(p)) \in Nat /\ Len(W) \in Nat
    BY Now, WaitingNow, Zenon DEF Typed
  <2>2. QED BY <1>6, <2>1, MessageThere, Zenon
<1> HIDE DEF k, a, n, o, W, g
<1>11. r = 3 /\ m = 3 /\ job[p] = "data" /\ cmds[p] = <<>>
  <2>1. 5 \in 3 .. 5 /\ 5 - 2 = 3 /\ ~(5 >= 6) /\ 5 # 1 /\ 5 # 2 /\ "send" # "reset" /\ "send" \in Commanding
    BY DEF Commanding
  <2>2. r = 3
    BY <1>4, <1>6, <2>1, Zenon DEF Reading
  <2>3. m # 0 /\ m # 1
    BY <1>10, <2>2
  <2>4. QED BY <1>4, <1>6, <2>1, <2>2, <2>3, Zenon DEF Printed
<1>12. <<>> \o g = g
  BY <1>8
<1>13. cmds' = [cmds EXCEPT ![p] = g]
  BY <1>2, <1>7, <1>11, <1>12, Zenon
<1>14. PICK q \in Progs : q = Peer(p) /\ q # p
  BY PeerIs
<1>15. cmds'[p] = g /\ cmds'[q] = cmds[q]
  BY <1>8, <1>13, <1>14, Functions1, ExceptIs
<1>16. call'[q] = call[q] /\ at'[q] = at[q] /\ call'[p] = k /\ at'[p] = 6
  <2>1. a # n /\ a + 1 = 6
    BY <1>4
  <2>2. QED BY <1>2, <1>14, <2>1, AdvanceIs, Zenon DEF a, n, k
<1>17. Types'
  BY <1>1, <1>2, <1>5, <1>8, <1>13, TypesMade
<1>18. Kept(q)
  BY <1>1, <1>2, <1>15, <1>16 DEF Kept
<1>19. Talks(p, k, 6, "data", g, Input(p), W, g, linked, missed)
  <2>1. Reading(p, k, 6, 3)
    <3>1. 6 # 3 /\ 6 # 4 /\ ~(6 <= 2) /\ 6 \notin 3 .. 5 /\ 6 - 3 = 3 /\ "send" # "at" /\ "send" # "reset" /\ "send" # "link"
      OBVIOUS
    <3>2. QED BY <1>4, <3>1, Zenon DEF Reading
  <2>2. Printed(p, k, 6, "data", g, g, 3)
    <3>1. 6 >= 2 /\ 6 >= 6 /\ "send" \in Commanding
      BY DEF Commanding
    <3>2. QED BY <1>4, <3>1, Zenon DEF Printed
  <2>3. 3 \in Nat
    OBVIOUS
  <2>4. QED BY <1>6, <1>11, <2>1, <2>2, <2>3, Zenon DEF Talks
<1>20. SentOf(p, k, 6, "data", Had(p)) = Sent(p)
  <2>1. "data" # "none"
    OBVIOUS
  <2>2. Delivering(p, k, 6, "data") <=> Delivering(p, k, a, "data")
    BY <2>1, Zenon DEF Delivering
  <2>3. QED BY <1>11, <2>2, Zenon DEF Sent, SentOf, k, a
<1>21. Linking'
  <2>1. /\ p = "client" => k > 8
        /\ p = "server" => k > 10 /\ k > 16
    BY <1>5, <1>9
  <2>2. p = "client" => /\ LinkedOf(k, 6, "data", g) <=> LinkedOf(k, a, job[p], cmds[p])
                        /\ AskedOf(k, 6) => AskedOf(k, a)
    BY <2>1, Zenon DEF LinkedOf, AskedOf
  <2>3. p = "server" => UpOf(k, 6, "data")
    BY <2>1, Zenon DEF UpOf
  <2>4. call'[p] = call[p] /\ job'[p] = "data" /\ job'[q] = job[q] /\ linked' = linked
    BY <1>1, <1>11, <1>16 DEF k
  <2>5. QED BY <1>14, <1>15, <1>16, <2>1, <2>2, <2>3, <2>4, LinkStep, Zenon DEF k, a
<1>22. /\ Place(p, call'[p], Had(p)) /\ SentOf(p, call'[p], at'[p], job'[p], Had(p)) = Sent(p)
       /\ Talks(p, call'[p], at'[p], job'[p], cmds'[p], stream'[p] \o wire'[p], Waiting(p),
                Messages[Sent(p) + 1], linked', missed')
  BY <1>1, <1>2, <1>5, <1>11, <1>15, <1>16, <1>19, <1>20, Zenon DEF Input, W, g
<1>23. got' = got /\ linked' = linked /\ missed' = missed
  BY <1>1, <1>2
<1>24. QED BY <1>14, <1>17, <1>18, <1>21, <1>22, <1>23, QuietStep

LEMMA SentType ==
  ASSUME Good, NEW p \in Progs
  PROVE  Sent(p) \in Int /\ Had(p) \in Nat
<1>1. Had(p) \in Nat
  BY Now, Zenon DEF Typed
<1>2. Sent(p) = SentOf(p, call[p], at[p], job[p], Had(p))
  BY Zenon DEF Sent
<1>3. Sent(p) \in {Had(p), Had(p) + 1, Had(p) - 1}
  <2>1. \A x, y, z : x \in {x, y, z} /\ y \in {x, y, z} /\ z \in {x, y, z}
    OBVIOUS
  <2>2. QED BY <1>2, <2>1, Zenon DEF SentOf
<1>4. QED BY <1>1, <1>3

EndsWith(I, W) == \A i \in 1 .. Len(W) : I[(Len(I) - Len(W)) + i] = W[i]
LEMMA MessageEnds ==
  ASSUME NEW p, NEW k, NEW I, NEW W, NEW l, NEW s, NEW r, NEW m,
         Staged(p, k, I, W, l, s, r, m), Len(I) \in Nat, Len(W) \in Nat
  PROVE  EndsWith(I, W)
BY MessageThere DEF EndsWith

\* The message that waits is what a program in esp_is_recv finds.
Finds(p, b, W, h) ==
  /\ b[1] = "+IPD" /\ W = Message(h + 1) /\ h + 1 \in 1 .. N /\ Payload(b) = Messages[h + 1]
  /\ SubSeq(b, MsgLen + 2, Len(b)) \in Seq(Tok)
  /\ Len(SubSeq(b, MsgLen + 2, Len(b)) \o wire[p]) = 0

LEMMA RecvPlace ==
  ASSUME NEW p \in Progs, NEW k \in 1 .. Len(esp_main(p)), Kind(p, k) = "recv"
  PROVE  k > (IF p = "server" THEN 16 ELSE 8)
<1>1. /\ "recv" # "eat" /\ "recv" # "reset" /\ "recv" # "at" /\ "recv" # "conn" /\ "recv" # "link" /\ "recv" # "send"
  OBVIOUS
<1>2. QED BY <1>1, Kinds, Zenon

LEMMA RecvFinds ==
  ASSUME Good, NEW p \in Progs, ~Ended(p), Kind(p, call[p]) = "recv",
         NEW b, b = Body(stream[p]), b # <<>>, b[1] = "+IPD" => Len(b) > MsgLen
  PROVE  /\ Finds(p, b, Waiting(p), Had(p)) /\ Sent(Peer(p)) > Had(p)
         /\ job[p] = "none" /\ cmds[p] = <<>>
<1> DEFINE k == call[p]
           I == Input(p)
           W == Waiting(p)
           g == Messages[Sent(p) + 1]
           h == Had(p)
           n == MsgLen
           u == SubSeq(b, 2, n + 1)
           t == SubSeq(b, n + 2, Len(b))
<1>1. PICK r, m \in Nat : /\ Reading(p, k, at[p], r) /\ Printed(p, k, at[p], job[p], cmds[p], g, m)
                          /\ Staged(p, k, I, W, linked, missed, r, m)
  BY Now, Zenon DEF Own, Talks
<1>2. /\ Len(W) \in Nat /\ (Len(W) > 0 => W[1] # "eol") /\ Len(I) \in Nat /\ k \in Places(p) /\ k \in Nat
      /\ stream[p] \in Seq(Tok) /\ wire[p] \in Seq(Tok) /\ I = stream[p] \o wire[p] /\ h \in Nat
  BY Now, WaitingNow, Zenon DEF Typed, Place, Input
<1>3. m = 0 /\ job[p] = "none" /\ cmds[p] = <<>>
  <2>1. "recv" \notin Commanding
    BY DEF Commanding
  <2>2. QED BY <1>1, <2>1, Zenon DEF Printed
<1>4. r = m
  <2>1. r <= m
    BY <1>1, <1>2, MessageThere, Zenon
  <2>2. QED BY <1>3, <2>1
<1>5. k > (IF p = "server" THEN 16 ELSE 8)
  BY OpNow, RecvPlace
<1>6. PICK q \in 1 .. Len(stream[p]) : FirstAt(I, q) /\ b[1] = I[q]
  <2> HIDE DEF I
  <2>1. Body(stream[p]) # <<>>
    OBVIOUS
  <2>2. TookPrompt(Tok, stream[p], Body(stream[p]), wire[p], I)
    BY <1>2, <2>1, PromptTaken
  <2>3. QED BY <2>2, Zenon DEF TookPrompt
<1> HIDE DEF k, I, W, g, h
<1>7. Len(W) # 0
  <2>1. ASSUME Len(W) = 0 PROVE FALSE
    <3>1. AtFront(p, k, I, W, linked, missed, r, m, q)
      BY <1>1, <1>2, <1>6, <2>1, Zenon DEF AtFront
    <3>2. FrontConnect(p, k, I, W, linked, r, m, q) \/ FrontItem(p, k, I, W, linked, missed, r, m, q)
      BY <3>1, FrontIs
    <3>3. ~(r < m)
      BY <1>3, <1>4
    <3>4. p = "server" => ~(k <= 16)
      BY <1>2, <1>5
    <3>5. QED BY <3>2, <3>3, <3>4, Zenon DEF FrontConnect, FrontItem
  <2>2. QED BY <2>1
<1>8. W = Message(h + 1) /\ h + 1 \in 1 .. N /\ Sent(Peer(p)) > h
  <2>1. Waiting(p) # <<>>
    BY <1>7 DEF W
  <2>2. QED BY <2>1, Pending DEF W, h
<1>9. /\ Messages[h + 1] \in Seq(Tok) /\ Len(Messages[h + 1]) = n /\ n \in Nat
      /\ Len(W) = n + 1 /\ W[1] = "+IPD" /\ \A i \in 1 .. n : W[i + 1] = Messages[h + 1][i]
  BY <1>8, MessageShape
<1>10. ASSUME NEW x, FirstAt(I, x) PROVE x = (Len(I) - Len(W)) + 1
  <2>1. Len(W) > 0 /\ W[1] # "eol" /\ (p = "server" => k > 16)
    BY <1>2, <1>5, <1>7
  <2>2. Staged(p, k, I, W, linked, missed, m, m)
    BY <1>1, <1>4
  <2>3. QED BY <1>2, <1>10, <2>1, <2>2, MessageFirst
<1>11. \A i \in 1 .. Len(W) : I[(Len(I) - Len(W)) + i] = W[i]
  <2>1. EndsWith(I, W)
    BY <1>1, <1>2, MessageEnds
  <2>2. QED BY <2>1, Zenon DEF EndsWith
<1>12. b[1] = "+IPD"
  <2>1. 1 \in 1 .. Len(W)
    BY <1>2, <1>7
  <2>2. QED BY <1>6, <1>9, <1>10, <1>11, <2>1, Zenon
<1>13. PICK z \in 1 .. Len(I) - n :
         /\ FirstAt(I, z) /\ u \in Seq(Tok) /\ Len(u) = n /\ (\A i \in 1 .. n : u[i] = I[z + i])
         /\ t \in Seq(Tok) /\ Dropped(I, z + n, t \o wire[p])
  <2>1. Len(Body(stream[p])) > n
    BY <1>12
  <2>2. TookMessage(Tok, Body(stream[p]), wire[p], I, n)
    BY <1>2, <1>9, <2>1, MessageTaken
  <2>3. QED BY <2>2, Zenon DEF TookMessage
<1>14. z = (Len(I) - Len(W)) + 1
  BY <1>10, <1>13
<1> HIDE DEF u, t, n
<1>15. u = Messages[h + 1]
  <2>1. ASSUME NEW i \in 1 .. n PROVE u[i] = Messages[h + 1][i]
    <3>1. z + i = (Len(I) - Len(W)) + (i + 1) /\ i + 1 \in 1 .. Len(W)
      <4>1. \A c \in Int, x \in Int : (c + 1) + x = c + (x + 1)
        OBVIOUS
      <4>2. \A e \in Nat : \A x \in 1 .. e : x \in Int /\ x + 1 \in 1 .. e + 1
        OBVIOUS
      <4>3. Len(I) - Len(W) \in Int
        BY <1>2
      <4>4. QED BY <1>9, <1>14, <4>1, <4>2, <4>3, Zenon
    <3>2. QED BY <1>9, <1>11, <1>13, <3>1, Zenon
  <2>2. QED BY <1>9, <1>13, <2>1, SeqEqual
<1>16. Len(t \o wire[p]) = 0
  <2>1. Len(t \o wire[p]) = Len(I) - (z + n)
    BY <1>13, Zenon DEF Dropped
  <2>2. Len(I) - (z + n) = 0
    BY <1>2, <1>9, <1>14
  <2>3. QED BY <2>1, <2>2
<1>17. Finds(p, b, W, h)
  BY <1>8, <1>12, <1>13, <1>15, <1>16, Zenon DEF Finds, Payload, u, t, n
<1>18. QED BY <1>3, <1>8, <1>17, Zenon DEF W, h

\* The turns, when the message that waits is taken.
LEMMA TurnsTaken ==
  ASSUME NEW hs \in Nat, NEW sc \in Int, NEW hc \in Nat, NEW ss \in Int,
         hs <= sc, sc <= hc, hc <= ss, ss <= hs + 1
  PROVE  /\ sc > hs => hs + 1 <= sc /\ ss <= (hs + 1) + 1 /\ ~(sc > hs + 1)
         /\ ss > hc => sc <= hc + 1 /\ hc + 1 <= ss /\ ~(ss > hc + 1)
OBVIOUS

LEMMA TurnsAre ==
  ASSUME Good
  PROVE  /\ Had("server") \in Nat /\ Had("client") \in Nat /\ Sent("server") \in Int /\ Sent("client") \in Int
         /\ Had("server") <= Sent("client") /\ Sent("client") <= Had("client")
         /\ Had("client") <= Sent("server") /\ Sent("server") <= Had("server") + 1
<1>1. Turns
  BY DEF Good, Core
<1>2. "server" \in Progs /\ "client" \in Progs
  BY ProgsAre
<1>3. /\ Had("server") \in Nat /\ Had("client") \in Nat /\ Sent("server") \in Int /\ Sent("client") \in Int
  BY <1>2, SentType
<1>4. QED BY <1>1, <1>3, Zenon DEF Turns

\* What waits for p when it has received one more.
LEMMA RecvTurns ==
  ASSUME Good, NEW p \in Progs, NEW q \in Progs, q = Peer(p), Sent(q) > Had(p),
         Had(p)' = Had(p) + 1, Had(q)' = Had(q), Sent(p)' = Sent(p), Sent(q)' = Sent(q)
  PROVE  Turns' /\ Waiting(p)' = <<>> /\ Waiting(q)' = Waiting(q)
<1>1. /\ Had("server") \in Nat /\ Had("client") \in Nat /\ Sent("server") \in Int /\ Sent("client") \in Int
      /\ Had("server") <= Sent("client") /\ Sent("client") <= Had("client")
      /\ Had("client") <= Sent("server") /\ Sent("server") <= Had("server") + 1
  BY TurnsAre
<1>2. p = Peer(q)
  BY PeerIs
<1>3. Waiting(q)' = Waiting(q)
  BY <1>2, Zenon DEF Waiting
<1>4. CASE p = "server"
  <2>1. q = "client"
    BY <1>4, ProgsAre
  <2>2. /\ Had("server") + 1 <= Sent("client") /\ Sent("server") <= (Had("server") + 1) + 1
        /\ ~(Sent("client") > Had("server") + 1)
    BY <1>1, <1>4, <2>1, TurnsTaken
  <2>3. Turns'
    BY <1>1, <1>4, <2>1, <2>2, Zenon DEF Turns
  <2>4. Waiting(p)' = <<>>
    BY <1>4, <2>1, <2>2, Zenon DEF Waiting
  <2>5. QED BY <1>3, <2>3, <2>4
<1>5. CASE p = "client"
  <2>1. q = "server"
    BY <1>5, ProgsAre
  <2>2. /\ Sent("client") <= Had("client") + 1 /\ Had("client") + 1 <= Sent("server")
        /\ ~(Sent("server") > Had("client") + 1)
    BY <1>1, <1>5, <2>1, TurnsTaken
  <2>3. Turns'
    BY <1>1, <1>5, <2>1, <2>2, Zenon DEF Turns
  <2>4. Waiting(p)' = <<>>
    BY <1>5, <2>1, <2>2, Zenon DEF Waiting
  <2>5. QED BY <1>3, <2>3, <2>4
<1>6. QED BY <1>4, <1>5, ProgsAre

\* The step, as it is when the message that waits is found.
Receives(p, b, u, t) ==
  /\ stream' = [stream EXCEPT ![p] = t] /\ got' = [got EXCEPT ![p] = Append(got[p], u)]
  /\ Advance(p) /\ UNCHANGED <<fault, wire, cmds, missed>>

LEMMA RecvDone ==
  ASSUME Good, NEW p \in Progs, Recv(p, Op(p)), NEW b, b = Body(stream[p]), Finds(p, b, Waiting(p), Had(p))
  PROVE  Receives(p, b, Messages[Had(p) + 1], SubSeq(b, MsgLen + 2, Len(b)))
<1>1. b[1] = "+IPD" /\ Payload(b) = Messages[Had(p) + 1]
  BY Zenon DEF Finds
<1>2. Had(p) = Len(got[p])
  BY Zenon DEF Had
<1>3. /\ Takes(p, SubSeq(b, MsgLen + 2, Len(b))) /\ Advance(p) /\ Fine
      /\ got' = [got EXCEPT ![p] = Append(got[p], Payload(b))] /\ UNCHANGED <<wire, cmds, missed>>
  BY <1>1, <1>2, Zenon DEF Recv
<1>4. QED BY <1>1, <1>3, Zenon DEF Takes, Fine, Receives

LEMMA AppendIs ==
  ASSUME NEW S, NEW s \in Seq(S), NEW v \in S
  PROVE  /\ Append(s, v) \in Seq(S) /\ Len(s) \in Nat /\ Len(Append(s, v)) = Len(s) + 1
         /\ \A i \in 1 .. Len(s) : Append(s, v)[i] = s[i]
         /\ Append(s, v)[Len(s) + 1] = v
         /\ \A i \in 1 .. Len(s) + 1 : i \in 1 .. Len(s) \/ i = Len(s) + 1
OBVIOUS

LEMMA RecvOwn ==
  ASSUME NEW p \in Progs, NEW k \in 1 .. Len(esp_main(p)), Kind(p, k) = "recv", NEW J, Len(J) = 0,
         NEW g, NEW l, NEW s
  PROVE  Talks(p, k + 1, 1, "none", <<>>, J, <<>>, g, l, s)
<1>1. k > (IF p = "server" THEN 16 ELSE 8)
  BY RecvPlace
<1>2. k + 1 \in Places(p) /\ k + 1 \in Nat /\ (p = "server" => k + 1 > 16)
  BY <1>1, Sizes DEF Places
<1>3. PICK n : n = k + 1
  OBVIOUS
<1>4. n \in Places(p) /\ n \in Nat /\ (p = "server" => n > 16)
  BY <1>2, <1>3, Zenon
<1>5. Len(Answer(p, n)) \in Nat
  BY <1>4, AnswerLines
<1>6. PICK W : W = <<>> /\ Len(W) = 0
  OBVIOUS
<1>7. Staged(p, n, J, W, l, s, 0, 0)
  BY <1>4, <1>5, <1>6, EmptyStaged
<1>8. Talks(p, n, 1, "none", <<>>, J, W, g, l, s)
  BY <1>7, Begun
<1>9. QED BY <1>3, <1>6, <1>8, Zenon

LEMMA RecvCore ==
  ASSUME Good, NEW p \in Progs, Step(p), Recv(p, Op(p))
  PROVE  Core'
<1> DEFINE k == call[p]
           a == at[p]
           n == Len(Call(p, k))
           o == Op(p)
           b == Body(stream[p])
           h == Had(p)
           u == Messages[h + 1]
           t == SubSeq(b, MsgLen + 2, Len(b))
           J == t \o wire[p]
<1>1. ~Ended(p) /\ Enough(o, stream[p]) /\ UNCHANGED <<job, linked>>
  BY Zenon DEF Step, Runs
<1>2. o[1] = "recv"
  BY DEF Recv
<1>3. /\ There(p) /\ k \in 1 .. Len(esp_main(p)) /\ a \in DOMAIN Call(p, k)
      /\ OpShape(Kind(p, k), a, n, o, Cmd(p, k), Extra(p, k))
  BY <1>1, OpNow, Zenon
<1>4. Kind(p, k) = "recv" /\ a = 1 /\ n = 1
  <2>1. "recv" # "puts" /\ "recv" # "ack" /\ "recv" # "expect" /\ "recv" # "ready" /\ "recv" # "eat"
        /\ "recv" # "data" /\ "recv" # "conn" /\ "recv" # "prompt"
    OBVIOUS
  <2>2. QED BY <1>2, <1>3, <2>1, Zenon DEF OpShape, ResetOp, AtOp, LinkOp, SendOp, SingleOp
<1>5. b # <<>> /\ (b[1] = "+IPD" => Len(b) > MsgLen)
  <2>1. o[1] \notin {"puts", "eat", "data"} /\ o[1] # "prompt"
    BY <1>2
  <2>2. QED BY <1>1, <1>2, <2>1, Zenon DEF Enough
<1>6. PICK q \in Progs : q = Peer(p) /\ q # p
  BY PeerIs
<1>7. /\ Finds(p, b, Waiting(p), h) /\ Sent(q) > h /\ job[p] = "none" /\ cmds[p] = <<>>
  BY <1>1, <1>4, <1>5, <1>6, RecvFinds
<1>8. h + 1 \in 1 .. N /\ t \in Seq(Tok) /\ Len(J) = 0
  BY <1>7, Zenon DEF Finds
<1>9. u \in Seq(Tok)
  BY <1>8, MessageShape
<1>10. Receives(p, b, u, t)
  BY <1>7, RecvDone
<1>11. /\ wire[p] \in Seq(Tok) /\ got[p] \in Seq(Seq(Tok)) /\ h \in Nat /\ k \in Nat /\ Place(p, k, h)
  BY Now, Zenon DEF Typed
<1> HIDE DEF k, a, n, o, b, h, u, t, J
<1>12. /\ stream' = [stream EXCEPT ![p] = t] /\ got' = [got EXCEPT ![p] = Append(got[p], u)]
       /\ Advance(p) /\ UNCHANGED <<fault, wire, cmds, missed>>
  BY <1>10, Zenon DEF Receives
<1>13. /\ Append(got[p], u) \in Seq(Seq(Tok)) /\ Len(got[p]) = h /\ Len(Append(got[p], u)) = h + 1
       /\ \A i \in 1 .. h : Append(got[p], u)[i] = got[p][i]
       /\ Append(got[p], u)[h + 1] = u
       /\ \A i \in 1 .. h + 1 : i \in 1 .. h \/ i = h + 1
  <2>1. PICK s : s = got[p]
    OBVIOUS
  <2>2. s \in Seq(Seq(Tok))
    BY <1>11, <2>1
  <2>3. /\ Append(s, u) \in Seq(Seq(Tok)) /\ Len(s) \in Nat /\ Len(Append(s, u)) = Len(s) + 1
        /\ \A i \in 1 .. Len(s) : Append(s, u)[i] = s[i]
        /\ Append(s, u)[Len(s) + 1] = u
        /\ \A i \in 1 .. Len(s) + 1 : i \in 1 .. Len(s) \/ i = Len(s) + 1
    BY <1>9, <2>2, AppendIs
  <2>4. Len(s) = h
    BY <2>1, Zenon DEF h, Had
  <2>5. QED BY <2>1, <2>3, <2>4, Zenon
<1>14. /\ stream'[p] = t /\ stream'[q] = stream[q]
       /\ got'[p] = Append(got[p], u) /\ got'[q] = got[q]
  BY <1>6, <1>8, <1>12, <1>13, Functions1, ExceptIs
<1>15. call'[q] = call[q] /\ at'[q] = at[q] /\ call'[p] = k + 1 /\ at'[p] = 1
  BY <1>4, <1>6, <1>12, AdvanceIs, Zenon DEF a, n, k
<1>16. Types'
  <2>1. /\ stream \in [Progs -> Seq(Tok)] /\ wire \in [Progs -> Seq(Tok)] /\ cmds \in [Progs -> Seq(Tok)]
        /\ job \in [Progs -> Commands \cup {"none", "boot", "data"}] /\ got \in [Progs -> Seq(Seq(Tok))]
        /\ fault = [x \in Progs |-> "none"]
    BY DEF Good, Core, Types
  <2>2. stream' \in [Progs -> Seq(Tok)]
    BY <1>8, <1>12, <2>1
  <2>3. got' \in [Progs -> Seq(Seq(Tok))]
    BY <1>12, <1>13, <2>1
  <2>4. wire' = wire /\ cmds' = cmds /\ job' = job /\ fault' = fault
    BY <1>1, <1>12
  <2>5. QED BY <2>1, <2>2, <2>3, <2>4, Zenon DEF Types
<1>17. \A x \in Progs : x = p \/ x = q
  BY <1>6 DEF Progs, Peer
<1>18. Had(p)' = h + 1 /\ Had(q)' = Had(q)
  BY <1>13, <1>14, Zenon DEF Had
<1>19. Went(p, k, a, h, k + 1, h + 1)
  <2>1. Next1(p, k, a, h, k + 1, h + 1)
    <3>1. "recv" # "send"
      OBVIOUS
    <3>2. QED BY <1>3, <1>4, <1>11, <3>1, Zenon DEF Next1
  <2>2. QED BY <2>1, NextPlace
<1>20. Sent(p)' = Sent(p) /\ Place(p, call'[p], h + 1)
  <2>1. SentOf(p, k + 1, 1, "none", h + 1) = SentOf(p, k, a, "none", h) /\ Place(p, k + 1, h + 1)
    BY <1>19, Zenon DEF Went
  <2>2. job'[p] = "none"
    BY <1>1, <1>7
  <2>3. QED BY <1>7, <1>15, <1>18, <2>1, <2>2, Zenon DEF Sent, k, a, h
<1>21. Sent(q)' = Sent(q)
  <2>1. job'[q] = job[q]
    BY <1>1
  <2>2. QED BY <1>15, <1>18, <2>1, Zenon DEF Sent
<1>22. Turns' /\ Waiting(p)' = <<>> /\ Waiting(q)' = Waiting(q)
  BY <1>6, <1>7, <1>18, <1>20, <1>21, RecvTurns DEF h
<1>23. Counts'
  <2>1. Place(q, call'[q], Had(q)')
    BY <1>15, <1>18, Now, Zenon
  <2>2. \A x \in Progs : Place(x, call'[x], Had(x)')
    BY <1>17, <1>18, <1>20, <2>1, Zenon
  <2>3. QED BY <2>2, MadeCounts, ProgsAre
<1>24. Received'
  <2>1. Received
    BY DEF Good, Core
  <2>2. \A i \in 1 .. h + 1 : got'[p][i] = Messages[i]
    BY <1>13, <1>14, <2>1, Zenon DEF Received, u, h
  <2>3. \A i \in 1 .. Had(q) : got'[q][i] = Messages[i]
    BY <1>14, <2>1, Zenon DEF Received
  <2>4. QED BY <1>17, <1>18, <2>2, <2>3, Zenon DEF Received
<1>25. Own(p)'
  <2>1. Talks(p, k + 1, 1, "none", <<>>, J, <<>>, Messages[Sent(p)' + 1], linked, missed)
    BY <1>3, <1>4, <1>8, RecvOwn
  <2>2. stream'[p] \o wire'[p] = J /\ job'[p] = "none" /\ cmds'[p] = <<>> /\ linked' = linked /\ missed' = missed
    BY <1>1, <1>7, <1>12, <1>14, Zenon DEF J
  <2>3. QED BY <1>15, <1>22, <2>1, <2>2, Zenon DEF Own, Input
<1>26. Own(q)'
  <2>1. Kept(q)
    BY <1>1, <1>12, <1>14, <1>15 DEF Kept
  <2>2. linked' = linked /\ missed' = missed
    BY <1>1, <1>12
  <2>3. OwnWill(q)
    BY <2>1, <2>2, KeptOwn
  <2>4. QED BY <1>21, <1>22, <2>3, Zenon DEF Own, OwnWill, Input
<1>27. Linking'
  <2>1. /\ p = "client" => k > 8 /\ k + 1 > 8
        /\ p = "server" => k > 10 /\ k > 16 /\ k + 1 > 10
    <3>1. k > (IF p = "server" THEN 16 ELSE 8)
      BY <1>3, <1>4, RecvPlace
    <3>2. QED BY <1>11, <3>1
  <2>2. p = "client" => /\ LinkedOf(k + 1, 1, job'[p], cmds'[p]) <=> LinkedOf(k, a, job[p], cmds[p])
                        /\ AskedOf(k + 1, 1) => AskedOf(k, a)
    BY <2>1, Zenon DEF LinkedOf, AskedOf
  <2>3. p = "server" => UpOf(k + 1, 1, job'[p])
    BY <2>1, Zenon DEF UpOf
  <2>4. cmds'[q] = cmds[q] /\ job'[q] = job[q] /\ linked' = linked
    BY <1>1, <1>12
  <2>5. QED BY <1>6, <1>15, <2>1, <2>2, <2>3, <2>4, LinkStep, Zenon DEF k, a
<1>28. \A x \in Progs : Own(x)'
  BY <1>17, <1>25, <1>26, Zenon
<1>29. QED BY <1>16, <1>22, <1>23, <1>24, <1>27, <1>28, Zenon DEF Core

-----------------------------------------------------------------------------
(* The steps of the esps.                                                  *)

\* With w on the wire, lines r + 1 to n of the answer are in the input.
Said(p, k, u, w, W, l, s, r, n) == u \in Seq(Tok) /\ w \in Seq(Tok) /\ Staged(p, k, u \o w, W, l, s, r, n)

LEMMA WordsTok == \A w \in Words : w \in Tok
BY Zenon DEF Tok

LEMMA SaidFacts ==
  ASSUME NEW p, NEW k, NEW u, NEW w, NEW W, NEW l, NEW s, NEW r, NEW m, Said(p, k, u, w, W, l, s, r, m), Len(W) = 0
  PROVE  /\ Len(u \o w) \in Nat /\ r \in Nat /\ m \in Nat /\ r <= m /\ m <= Len(Answer(p, k))
<1>1. u \in Seq(Tok) /\ w \in Seq(Tok) /\ Staged(p, k, u \o w, W, l, s, r, m)
  BY Zenon DEF Said
<1>2. u \o w \in Seq(Tok)
  BY <1>1, Joined
<1>3. PICK I : I = u \o w
  OBVIOUS
<1>4. Len(I) \in Nat
  BY <1>2, <1>3
<1>5. Staged(p, k, I, W, l, s, r, m)
  BY <1>1, <1>3
<1>6. r \in Nat /\ m \in Nat /\ r <= m /\ m <= Len(Answer(p, k))
  BY <1>4, <1>5, MessageThere
<1>7. QED BY <1>3, <1>4, <1>6, Zenon

LEMMA SaysLine ==
  ASSUME NEW p \in Progs, NEW k \in Places(p), NEW u, NEW w, NEW W, NEW l, NEW s, NEW r, NEW m, NEW n, NEW t,
         Said(p, k, u, w, W, l, s, r, m), Len(W) = 0, n = m + 1, n <= Len(Answer(p, k)), t = Answer(p, k)[n],
         p = "server" /\ k = 10 => ~l
  PROVE  Said(p, k, u, w \o Line(t), W, l, s, r, n)
<1>1. u \in Seq(Tok) /\ w \in Seq(Tok) /\ Staged(p, k, u \o w, W, l, s, r, m)
  BY Zenon DEF Said
<1>2. Len(u \o w) \in Nat /\ m \in Nat
  BY SaidFacts
<1>3. t \in Tok /\ "eol" \in Tok
  <2>1. Len(Answer(p, k)) \in Nat /\ \A i \in 1 .. Len(Answer(p, k)) : Answer(p, k)[i] \in Words
    BY AnswerLines
  <2>2. n \in 1 .. Len(Answer(p, k))
    BY <1>2, <2>1
  <2>3. t \in Words /\ "eol" \in Words
    BY <2>1, <2>2 DEF Words
  <2>4. QED BY <2>3, WordsTok
<1>4. PICK L : L = Line(t)
  OBVIOUS
<1>5. L \in Seq(Tok) /\ Len(L) = 3 /\ L[1] = t /\ L[2] = "eol" /\ L[3] = "eol"
  BY <1>3, <1>4, LineShape
<1>6. w \o L \in Seq(Tok) /\ Extended(u \o w, L, u \o (w \o L))
  BY <1>1, <1>5, Appended
<1>7. More(p, k, u \o w, W, l, s, r, m, n, L, u \o (w \o L))
  BY <1>1, <1>2, <1>6, Zenon DEF More
<1>8. Staged(p, k, u \o (w \o L), W, l, s, r, n)
  <2>1. PICK I, J : I = u \o w /\ J = u \o (w \o L)
    OBVIOUS
  <2>2. More(p, k, I, W, l, s, r, m, n, L, J)
    BY <1>7, <2>1
  <2>3. Staged(p, k, J, W, l, s, r, n)
    BY <1>5, <2>2, MoreLine
  <2>4. QED BY <2>1, <2>3
<1>9. QED BY <1>1, <1>4, <1>6, <1>8, Zenon DEF Said

\* A step of the esp of p that its peer does not notice.
Speaks(p, q, w, c, j) ==
  /\ UNCHANGED <<call, at, stream, fault, got, missed>> /\ linked' = linked
  /\ wire'[p] = w /\ cmds'[p] = c /\ job'[p] = j
  /\ wire'[q] = wire[q] /\ cmds'[q] = cmds[q] /\ job'[q] = job[q]

LEMMA EspSame ==
  ASSUME Good, NEW p \in Progs, NEW q \in Progs, q = Peer(p), NEW w, NEW c, NEW j, Types', Speaks(p, q, w, c, j),
         NEW r, NEW m, Said(p, call[p], stream[p], w, Waiting(p), linked, missed, r, m), Len(Waiting(p)) = 0,
         Reading(p, call[p], at[p], r), Printed(p, call[p], at[p], j, c, Messages[Sent(p) + 1], m),
         Delivering(p, call[p], at[p], j) <=> Delivering(p, call[p], at[p], job[p]),
         p = "client" => (LinkedOf(call[p], at[p], j, c) <=> LinkedOf(call[p], at[p], job[p], cmds[p])),
         p = "server" => (UpOf(call[p], at[p], job[p]) => UpOf(call[p], at[p], j))
  PROVE  Core'
<1>1. /\ UNCHANGED <<call, at, stream, fault, got, missed>> /\ linked' = linked
      /\ wire'[p] = w /\ cmds'[p] = c /\ job'[p] = j
      /\ wire'[q] = wire[q] /\ cmds'[q] = cmds[q] /\ job'[q] = job[q]
  BY Zenon DEF Speaks
<1>2. call'[p] = call[p] /\ at'[p] = at[p] /\ stream'[p] = stream[p]
      /\ call'[q] = call[q] /\ at'[q] = at[q] /\ stream'[q] = stream[q] /\ got' = got /\ missed' = missed
  BY <1>1
<1>3. Kept(q)
  BY <1>1, <1>2, Zenon DEF Kept
<1>4. Linking'
  BY <1>1, <1>2, LinkStep
<1>5. SentOf(p, call'[p], at'[p], job'[p], Had(p)) = Sent(p)
  BY <1>1, <1>2, Zenon DEF Sent, SentOf
<1>6. Place(p, call'[p], Had(p))
  BY <1>2, Now, Zenon
<1>7. Talks(p, call'[p], at'[p], job'[p], cmds'[p], stream'[p] \o wire'[p], Waiting(p),
            Messages[Sent(p) + 1], linked', missed')
  <2>1. r \in Nat /\ m \in Nat
    BY SaidFacts
  <2>2. Talks(p, call[p], at[p], j, c, stream[p] \o w, Waiting(p), Messages[Sent(p) + 1], linked, missed)
    BY <2>1, Zenon DEF Talks, Said
  <2>3. QED BY <1>1, <1>2, <2>2, Zenon
<1>8. linked' = linked /\ missed' = missed /\ got' = got
  BY <1>1, <1>2
<1>9. QED BY <1>3, <1>4, <1>5, <1>6, <1>7, <1>8, QuietStep

\* What is so while an esp has something to do.
LEMMA EspNow ==
  ASSUME Good, NEW p \in Progs
  PROVE  \E r, m :
           /\ Reading(p, call[p], at[p], r)
           /\ Printed(p, call[p], at[p], job[p], cmds[p], Messages[Sent(p) + 1], m)
           /\ Said(p, call[p], stream[p], wire[p], Waiting(p), linked, missed, r, m)
           /\ r \in Nat /\ m \in Nat /\ r <= m /\ m <= Len(Answer(p, call[p]))
<1>1. PICK r, m \in Nat : /\ Reading(p, call[p], at[p], r)
                          /\ Printed(p, call[p], at[p], job[p], cmds[p], Messages[Sent(p) + 1], m)
                          /\ Staged(p, call[p], Input(p), Waiting(p), linked, missed, r, m)
  BY Now, Zenon DEF Own, Talks
<1>2. stream[p] \in Seq(Tok) /\ wire[p] \in Seq(Tok) /\ Len(Input(p)) \in Nat /\ Len(Waiting(p)) \in Nat
  BY Now, WaitingNow, Zenon DEF Typed
<1>3. Said(p, call[p], stream[p], wire[p], Waiting(p), linked, missed, r, m)
  BY <1>1, <1>2, Zenon DEF Said, Input
<1>4. r <= m /\ m <= Len(Answer(p, call[p]))
  BY <1>1, <1>2, MessageThere, Zenon
<1>5. QED BY <1>1, <1>3, <1>4, Zenon

\* What a step of the esp of p leaves on its line, of its commands and as its job.
Does(p, w, c, j) ==
  /\ wire' = [wire EXCEPT ![p] = w] /\ cmds' = [cmds EXCEPT ![p] = c] /\ job' = [job EXCEPT ![p] = j]
  /\ linked' = linked
  /\ w \in Seq(Tok) /\ c \in Seq(Tok) /\ j \in Commands \cup {"none", "boot", "data"}
\* The step fits the call that p is in.
Fits(p, w, c, j, r, m) ==
  /\ Said(p, call[p], stream[p], w, Waiting(p), linked, missed, r, m) /\ Len(Waiting(p)) = 0
  /\ Reading(p, call[p], at[p], r) /\ Printed(p, call[p], at[p], j, c, Messages[Sent(p) + 1], m)
  /\ Delivering(p, call[p], at[p], j) <=> Delivering(p, call[p], at[p], job[p])
  /\ p = "client" => (LinkedOf(call[p], at[p], j, c) <=> LinkedOf(call[p], at[p], job[p], cmds[p]))
  /\ p = "server" => (UpOf(call[p], at[p], job[p]) => UpOf(call[p], at[p], j))

LEMMA EspDoes ==
  ASSUME Good, NEW p \in Progs, EspStep(p), NEW w, NEW c, NEW j, NEW r, NEW m, Does(p, w, c, j), Fits(p, w, c, j, r, m)
  PROVE  Core'
<1>1. PICK q \in Progs : q = Peer(p) /\ q # p
  BY PeerIs
<1>2. /\ wire' = [wire EXCEPT ![p] = w] /\ cmds' = [cmds EXCEPT ![p] = c] /\ job' = [job EXCEPT ![p] = j]
      /\ linked' = linked
      /\ w \in Seq(Tok) /\ c \in Seq(Tok) /\ j \in Commands \cup {"none", "boot", "data"}
  BY Zenon DEF Does
<1>3. UNCHANGED <<call, at, missed, restarts, stream, fault, got>>
  BY EspMoves
<1>4. stream' = stream /\ got' = got /\ fault' = fault
  BY <1>3
<1>5. Types'
  <2>1. stream[p] \in Seq(Tok)
    BY Functions1
  <2>2. PICK s \in Seq(Tok) : s = stream[p]
    BY <2>1
  <2>3. stream' \in {stream, [stream EXCEPT ![p] = s]} /\ wire' \in {wire, [wire EXCEPT ![p] = w]}
        /\ cmds' \in {cmds, [cmds EXCEPT ![p] = c]} /\ job' \in {job, [job EXCEPT ![p] = j]}
    BY <1>2, <1>4, Zenon
  <2>4. QED BY <1>2, <1>4, <2>3, TypesMade
<1>6. /\ wire'[p] = w /\ cmds'[p] = c /\ job'[p] = j
      /\ wire'[q] = wire[q] /\ cmds'[q] = cmds[q] /\ job'[q] = job[q]
  BY <1>1, <1>2, Functions1, ExceptIs
<1>7. Speaks(p, q, w, c, j)
  BY <1>2, <1>3, <1>6 DEF Speaks
<1>8. /\ Said(p, call[p], stream[p], w, Waiting(p), linked, missed, r, m) /\ Len(Waiting(p)) = 0
      /\ Reading(p, call[p], at[p], r) /\ Printed(p, call[p], at[p], j, c, Messages[Sent(p) + 1], m)
      /\ Delivering(p, call[p], at[p], j) <=> Delivering(p, call[p], at[p], job[p])
      /\ p = "client" => (LinkedOf(call[p], at[p], j, c) <=> LinkedOf(call[p], at[p], job[p], cmds[p]))
      /\ p = "server" => (UpOf(call[p], at[p], job[p]) => UpOf(call[p], at[p], j))
  BY Zenon DEF Fits
<1>9. QED BY <1>1, <1>5, <1>7, <1>8, EspSame

LEMMA KeptIs ==
  ASSUME NEW p \in Progs, NEW S, NEW f \in [Progs -> S], f' = f
  PROVE  f' = [f EXCEPT ![p] = f[p]]
OBVIOUS

\* A command that is taken is the one the call has written.
LEMMA TakesCmd ==
  ASSUME NEW p \in Progs, NEW k \in Places(p), NEW a, NEW j, NEW c, NEW g, NEW m,
         Printed(p, k, a, j, c, g, m), j = "none", c # <<>>
  PROVE  /\ Kind(p, k) \in Commanding /\ m = 0 /\ a = 2 /\ c = <<Cmd(p, k), "eol">>
         /\ Head(c) = Cmd(p, k) /\ SubSeq(c, 3, Len(c)) = <<>> /\ Cmd(p, k) # "eol"
<1>1. "none" # "boot" /\ "none" # "data"
  OBVIOUS
<1>2. Kind(p, k) \in Commanding /\ m = 0 /\ a = 2 /\ c = <<Cmd(p, k), "eol">>
  <2>1. Kind(p, k) \in Commanding => Cmd(p, k) \notin {"none", "boot", "data", "eol"}
    BY AnswerLines
  <2>2. QED BY <1>1, <2>1, Zenon DEF Printed
<1>3. Cmd(p, k) # "eol"
  BY <1>2, AnswerLines
<1>4. \A x : Head(<<x, "eol">>) = x /\ SubSeq(<<x, "eol">>, 3, Len(<<x, "eol">>)) = <<>>
  OBVIOUS
<1>5. QED BY <1>2, <1>3, <1>4, Zenon

LEMMA EspTakeCore ==
  ASSUME Good, NEW p \in Progs, EspStep(p), EspTake(p)
  PROVE  Core'
<1> DEFINE k == call[p]
           a == at[p]
           t == Cmd(p, k)
           g == Messages[Sent(p) + 1]
<1>1. PICK r, m : /\ Reading(p, k, a, r) /\ Printed(p, k, a, job[p], cmds[p], g, m)
                  /\ Said(p, k, stream[p], wire[p], Waiting(p), linked, missed, r, m)
                  /\ r \in Nat /\ m \in Nat /\ r <= m /\ m <= Len(Answer(p, k))
  BY EspNow, Zenon
<1>2. k \in Places(p) /\ k \in Nat /\ a \in Nat /\ wire[p] \in Seq(Tok)
  BY Now, Zenon DEF Place, Typed
<1>3. job[p] = "none" /\ cmds[p] # <<>>
  BY DEF EspTake
<1>4. /\ Kind(p, k) \in Commanding /\ m = 0 /\ a = 2 /\ cmds[p] = <<t, "eol">>
      /\ Head(cmds[p]) = t /\ SubSeq(cmds[p], 3, Len(cmds[p])) = <<>> /\ t # "eol"
  BY <1>1, <1>2, <1>3, TakesCmd
<1>5. /\ cmds' = [cmds EXCEPT ![p] = <<>>] /\ job' = [job EXCEPT ![p] = t]
      /\ wire' = [wire EXCEPT ![p] = wire[p] \o Line(t)] /\ linked' = linked
  BY <1>4 DEF EspTake, Says
<1>6. Len(Waiting(p)) = 0
  <2>1. ~Awaits(p)
    <3>1. Kind(p, k) # "recv"
      BY <1>4 DEF Commanding
    <3>2. ~(2 >= 6) /\ cmds[p] # <<>>
      BY <1>3
    <3>3. QED BY <1>4, <3>1, <3>2, Zenon DEF Awaits, Given
  <2>2. QED BY <2>1, WaitingNow
<1> HIDE DEF k, a, t, g
<1>7. Len(Answer(p, k)) >= 1 /\ 1 = m + 1 /\ t = Answer(p, k)[1] /\ t \in Commands
      /\ t \notin {"none", "boot", "data"} /\ Len(Answer(p, k)) \in Nat
  BY <1>2, <1>4, AnswerLines DEF t
<1>8. Said(p, k, stream[p], wire[p] \o Line(t), Waiting(p), linked, missed, r, 1)
  <2>1. p = "server" /\ k = 10 => ~linked
    <3>1. ASSUME p = "server", k = 10, linked PROVE FALSE
      <4>1. UpOf(k, a, job[p])
        BY <3>1, LinkedUp, Zenon DEF k, a
      <4>2. ~(10 > 10) /\ 2 # 3
        OBVIOUS
      <4>3. QED BY <1>4, <3>1, <4>1, <4>2, Zenon DEF UpOf
    <3>2. QED BY <3>1
  <2>2. PICK n \in Nat : n = 1
    OBVIOUS
  <2>3. n = m + 1 /\ n <= Len(Answer(p, k)) /\ t = Answer(p, k)[n]
    BY <1>7, <2>2
  <2>4. PICK u, w, W, l, s : u = stream[p] /\ w = wire[p] /\ W = Waiting(p) /\ l = linked /\ s = missed
    OBVIOUS
  <2>5. Said(p, k, u, w, W, l, s, r, m) /\ Len(W) = 0 /\ (p = "server" /\ k = 10 => ~l)
    BY <1>1, <1>6, <2>1, <2>4, Zenon
  <2>6. Said(p, k, u, w \o Line(t), W, l, s, r, n)
    BY <1>2, <2>3, <2>5, SaysLine
  <2>7. QED BY <2>2, <2>4, <2>6, Zenon
<1>9. Printed(p, k, a, t, <<>>, g, 1)
  <2>1. 2 >= 2
    OBVIOUS
  <2>2. QED BY <1>4, <2>1, Zenon DEF Printed, t
<1>10. Fits(p, wire[p] \o Line(t), <<>>, t, r, 1)
  <2>1. Delivering(p, k, a, t) <=> Delivering(p, k, a, job[p])
    <3>1. ~(2 >= 6)
      OBVIOUS
    <3>2. QED BY <1>4, <3>1, Zenon DEF Delivering
  <2>2. LinkedOf(k, a, t, <<>>) <=> LinkedOf(k, a, job[p], cmds[p])
    <3>1. t # "none"
      BY <1>7
    <3>2. QED BY <1>3, <3>1, Zenon DEF LinkedOf
  <2>3. UpOf(k, a, job[p]) => UpOf(k, a, t)
    <3>1. 2 # 3
      OBVIOUS
    <3>2. QED BY <1>4, <3>1, Zenon DEF UpOf
  <2>4. QED BY <1>1, <1>6, <1>8, <1>9, <2>1, <2>2, <2>3, Zenon DEF Fits, k, a, g
<1>11. Does(p, wire[p] \o Line(t), <<>>, t)
  <2>1. wire[p] \o Line(t) \in Seq(Tok)
    BY <1>8, Zenon DEF Said
  <2>2. <<>> \in Seq(Tok) /\ t \in Commands \cup {"none", "boot", "data"}
    BY <1>7
  <2>3. QED BY <1>5, <2>1, <2>2, Zenon DEF Does
<1>12. QED
  <2>1. PICK w, c, j : w = wire[p] \o Line(t) /\ c = <<>> /\ j = t
    OBVIOUS
  <2>2. PICK m1 : m1 = 1
    OBVIOUS
  <2>3. Does(p, w, c, j) /\ Fits(p, w, c, j, r, m1)
    BY <1>10, <1>11, <2>1, <2>2, Zenon
  <2>4. QED BY <2>3, EspDoes

TwoMore(p, k, u, w, W, l, s, r, m, n, t, v) ==
  /\ Said(p, k, u, w, W, l, s, r, m) /\ Len(W) = 0 /\ n = m + 2 /\ n <= Len(Answer(p, k))
  /\ t = Answer(p, k)[m + 1] /\ v = Answer(p, k)[n] /\ (p = "server" /\ k = 10 => ~l)
TwoSaid(p, k, u, w, W, l, s, r, n, t, v) ==
  /\ Said(p, k, u, w \o (Line(t) \o Line(v)), W, l, s, r, n)
  /\ (w \o Line(t)) \o Line(v) = w \o (Line(t) \o Line(v))
LEMMA SaysLines ==
  ASSUME NEW p \in Progs, NEW k \in Places(p), NEW u, NEW w, NEW W, NEW l, NEW s, NEW r, NEW m, NEW n, NEW t, NEW v,
         TwoMore(p, k, u, w, W, l, s, r, m, n, t, v)
  PROVE  TwoSaid(p, k, u, w, W, l, s, r, n, t, v)
<1> /\ Said(p, k, u, w, W, l, s, r, m) /\ Len(W) = 0 /\ n = m + 2 /\ n <= Len(Answer(p, k))
    /\ t = Answer(p, k)[m + 1] /\ v = Answer(p, k)[n] /\ (p = "server" /\ k = 10 => ~l)
  BY Zenon DEF TwoMore
<1>1. m \in Nat
  BY SaidFacts
<1>2. Len(Answer(p, k)) \in Nat
  BY AnswerLines
<1>3. PICK i \in Nat : i = m + 1 /\ n = i + 1 /\ i <= Len(Answer(p, k)) /\ i \in 1 .. Len(Answer(p, k)) /\ n \in 1 .. Len(Answer(p, k))
  BY <1>1, <1>2
<1>4. t = Answer(p, k)[i]
  BY <1>3
<1>5. Said(p, k, u, w \o Line(t), W, l, s, r, i)
  BY <1>3, <1>4, SaysLine
<1>6. PICK z : z = w \o Line(t)
  OBVIOUS
<1>7. Said(p, k, u, z, W, l, s, r, i)
  BY <1>5, <1>6
<1>8. Said(p, k, u, z \o Line(v), W, l, s, r, n)
  BY <1>3, <1>7, SaysLine
<1>9. t \in Words /\ v \in Words
  BY <1>3, <1>4, AnswerLines
<1>10. t \in Tok /\ v \in Tok /\ "eol" \in Tok
  <2>1. "eol" \in Words
    BY DEF Words
  <2>2. QED BY <1>9, <2>1, WordsTok
<1>11. PICK L, M : L = Line(t) /\ M = Line(v)
  OBVIOUS
<1>12. L \in Seq(Tok) /\ M \in Seq(Tok) /\ w \in Seq(Tok)
  BY <1>10, <1>11, LineShape, Zenon DEF Said
<1>13. Regroups(Tok, w, L, M)
  BY <1>12, Regroup
<1>14. (w \o Line(t)) \o Line(v) = w \o (Line(t) \o Line(v))
  BY <1>11, <1>13, Zenon DEF Regroups
<1>15. QED BY <1>6, <1>8, <1>14, Zenon DEF TwoSaid

\* What the job tells of the call.
LEMMA PrintedBoot ==
  ASSUME NEW p \in Progs, NEW k \in Places(p), NEW a, NEW j, NEW c, NEW g, NEW m,
         Printed(p, k, a, j, c, g, m), j = "boot"
  PROVE  Kind(p, k) = "reset" /\ m = 2 /\ c = <<>> /\ a >= 2 /\ Kind(p, k) \in Commanding
<1>1. "boot" # "none" /\ "boot" # "data"
  OBVIOUS
<1>2. Kind(p, k) \in Commanding => Cmd(p, k) \notin {"none", "boot", "data", "eol"}
  BY AnswerLines
<1>3. QED BY <1>1, <1>2, Zenon DEF Printed

LEMMA PrintedData ==
  ASSUME NEW p \in Progs, NEW k \in Places(p), NEW a, NEW j, NEW c, NEW g, NEW m,
         Printed(p, k, a, j, c, g, m), j = "data"
  PROVE  Kind(p, k) = "send" /\ m = 3 /\ c = (IF a >= 6 THEN g ELSE <<>>) /\ a >= 2
<1>1. "data" # "none" /\ "data" # "boot"
  OBVIOUS
<1>2. Kind(p, k) \in Commanding => Cmd(p, k) \notin {"none", "boot", "data", "eol"}
  BY AnswerLines
<1>3. QED BY <1>1, <1>2, Zenon DEF Printed

LEMMA PrintedCmd ==
  ASSUME NEW p \in Progs, NEW k \in Places(p), NEW a, NEW j, NEW c, NEW g, NEW m,
         Printed(p, k, a, j, c, g, m), j \notin {"none", "boot", "data"}
  PROVE  Kind(p, k) \in Commanding /\ m = 1 /\ j = Cmd(p, k) /\ c = <<>> /\ a >= 2
BY Zenon DEF Printed

\* While the esp has something to do, no message waits for its program.
LEMMA BusyWaits ==
  ASSUME Good, NEW p \in Progs, job[p] # "none"
  PROVE  Len(Waiting(p)) = 0
BY WaitingNow

\* The server's esp learns of the connection when its server is past AT+CIPSERVER.
LEMMA NotLinked ==
  ASSUME Good, call["server"] = 10, job["server"] # "none"
  PROVE  ~linked
<1>1. ASSUME linked PROVE FALSE
  <2>1. UpOf(call["server"], at["server"], job["server"])
    BY <1>1, LinkedUp, Zenon
  <2>2. ~(10 > 10)
    OBVIOUS
  <2>3. QED BY <2>1, <2>2, Zenon DEF UpOf
<1>2. QED BY <1>1

\* The call is not AT+CIPSERVER while its esp boots.
LEMMA EspBootCore ==
  ASSUME Good, NEW p \in Progs, EspStep(p), EspBoot(p)
  PROVE  Core'
<1> DEFINE k == call[p]
           a == at[p]
           g == Messages[Sent(p) + 1]
           L == Line("boot") \o Line("ready")
<1>1. PICK r, m : /\ Reading(p, k, a, r) /\ Printed(p, k, a, job[p], cmds[p], g, m)
                  /\ Said(p, k, stream[p], wire[p], Waiting(p), linked, missed, r, m)
                  /\ r \in Nat /\ m \in Nat /\ r <= m /\ m <= Len(Answer(p, k))
  BY EspNow, Zenon
<1>2. k \in Places(p) /\ k \in Nat /\ a \in Nat
  BY Now, Zenon DEF Place, Typed
<1>3. /\ job[p] = "boot" /\ job' = [job EXCEPT ![p] = "none"] /\ cmds' = [cmds EXCEPT ![p] = <<>>]
      /\ wire' = [wire EXCEPT ![p] = wire[p] \o L] /\ linked' = linked
  BY DEF EspBoot, Says
<1>4. Kind(p, k) = "reset" /\ m = 2 /\ cmds[p] = <<>> /\ a >= 2 /\ Kind(p, k) \in Commanding
  BY <1>1, <1>2, <1>3, PrintedBoot
<1>5. Len(Waiting(p)) = 0
  <2>1. job[p] # "none"
    BY <1>3
  <2>2. QED BY <2>1, BusyWaits
<1> HIDE DEF k, a, g, L
<1>6. Len(Answer(p, k)) = 4 /\ Answer(p, k)[m + 1] = "boot" /\ Answer(p, k)[4] = "ready" /\ 4 = m + 2 /\ 4 <= Len(Answer(p, k))
  BY <1>4, Answers
<1>7. k \in 2 .. 4
  <2>1. k \in 1 .. Len(esp_main(p))
    BY <1>2, <1>4, AnswerLines
  <2>2. QED BY <1>4, <2>1, ResetCall
<1>8. k # 8 /\ ~(k > 8) /\ k # 10 /\ ~(k > 10)
  BY <1>7
<1>9. Said(p, k, stream[p], wire[p] \o L, Waiting(p), linked, missed, r, 4)
  <2>1. PICK n, t, v : n = 4 /\ t = "boot" /\ v = "ready"
    OBVIOUS
  <2>2. n = m + 2 /\ n <= Len(Answer(p, k)) /\ t = Answer(p, k)[m + 1] /\ v = Answer(p, k)[n]
    BY <1>6, <2>1
  <2>3. p = "server" /\ k = 10 => ~linked
    BY <1>8
  <2>4. PICK W, l, s, u, f : W = Waiting(p) /\ l = linked /\ s = missed /\ u = stream[p] /\ f = wire[p]
    OBVIOUS
  <2>5. TwoMore(p, k, u, f, W, l, s, r, m, n, t, v)
    BY <1>1, <1>5, <2>2, <2>3, <2>4, Zenon DEF TwoMore
  <2>6. TwoSaid(p, k, u, f, W, l, s, r, n, t, v)
    BY <1>2, <2>5, SaysLines
  <2>7. QED BY <2>1, <2>4, <2>6, Zenon DEF L, TwoSaid
<1>10. Printed(p, k, a, "none", <<>>, g, 4)
  <2>1. "reset" # "send"
    OBVIOUS
  <2>2. QED BY <1>4, <1>6, <2>1, Zenon DEF Printed
<1>11. Fits(p, wire[p] \o L, <<>>, "none", r, 4)
  <2>1. Delivering(p, k, a, "none") <=> Delivering(p, k, a, job[p])
    <3>1. "reset" # "send"
      OBVIOUS
    <3>2. QED BY <1>4, <3>1, Zenon DEF Delivering
  <2>2. LinkedOf(k, a, "none", <<>>) <=> LinkedOf(k, a, job[p], cmds[p])
    BY <1>8, Zenon DEF LinkedOf
  <2>3. UpOf(k, a, job[p]) => UpOf(k, a, "none")
    BY <1>8, Zenon DEF UpOf
  <2>4. QED BY <1>1, <1>5, <1>9, <1>10, <2>1, <2>2, <2>3, Zenon DEF Fits, k, a, g
<1>12. Does(p, wire[p] \o L, <<>>, "none")
  <2>1. wire[p] \o L \in Seq(Tok)
    BY <1>9, Zenon DEF Said
  <2>2. <<>> \in Seq(Tok) /\ "none" \in Commands \cup {"none", "boot", "data"}
    OBVIOUS
  <2>3. QED BY <1>3, <2>1, <2>2, Zenon DEF Does
<1>13. QED
  <2>1. PICK w, c, j, n : w = wire[p] \o L /\ c = <<>> /\ j = "none" /\ n = 4
    OBVIOUS
  <2>2. Does(p, w, c, j) /\ Fits(p, w, c, j, r, n)
    BY <1>11, <1>12, <2>1, Zenon
  <2>3. QED BY <2>2, EspDoes

\* A command that ends was echoed, and no more was said of it.
LEMMA DoneNow ==
  ASSUME Good, NEW p \in Progs, job[p] \notin {"none", "boot", "data"}
  PROVE  \E r \in Nat :
           /\ Reading(p, call[p], at[p], r) /\ r <= 1
           /\ Said(p, call[p], stream[p], wire[p], Waiting(p), linked, missed, r, 1) /\ Len(Waiting(p)) = 0
           /\ Kind(p, call[p]) \in Commanding /\ job[p] = Cmd(p, call[p]) /\ cmds[p] = <<>> /\ at[p] >= 2
           /\ call[p] \in 1 .. Len(esp_main(p)) /\ call[p] \in Nat /\ at[p] \in Nat /\ call[p] \in Places(p)
<1>1. PICK r, m : /\ Reading(p, call[p], at[p], r)
                  /\ Printed(p, call[p], at[p], job[p], cmds[p], Messages[Sent(p) + 1], m)
                  /\ Said(p, call[p], stream[p], wire[p], Waiting(p), linked, missed, r, m)
                  /\ r \in Nat /\ m \in Nat /\ r <= m /\ m <= Len(Answer(p, call[p]))
  BY EspNow, Zenon
<1>2. call[p] \in Places(p) /\ call[p] \in Nat /\ at[p] \in Nat
  BY Now, Zenon DEF Place, Typed
<1>3. Kind(p, call[p]) \in Commanding /\ m = 1 /\ job[p] = Cmd(p, call[p]) /\ cmds[p] = <<>> /\ at[p] >= 2
  BY <1>1, <1>2, PrintedCmd
<1>4. job[p] # "none"
  BY Zenon
<1>5. Len(Waiting(p)) = 0
  BY <1>4, BusyWaits
<1>6. call[p] \in 1 .. Len(esp_main(p))
  BY <1>2, <1>3, AnswerLines
<1>7. QED BY <1>1, <1>2, <1>3, <1>5, <1>6, Zenon

\* What the end of each command does.
LEMMA DoneIs ==
  ASSUME NEW p \in Progs, EspDone(p)
  PROVE  /\ job[p] \notin {"none", "boot", "data"} /\ UNCHANGED <<cmds, busies>>
         /\ job[p] \in {"AT+RST", "AT+RESTORE"} =>
              /\ job' = [job EXCEPT ![p] = "boot"] /\ linked' = FALSE
              /\ wire' = [q \in Progs |-> IF q = p THEN wire[q] \o Line("OK")
                                          ELSE wire[q] \o (IF linked THEN Line("CLOSED") ELSE <<>>)]
         /\ job[p] = "AT+CIPSTART" /\ Listening =>
              /\ job' = [job EXCEPT ![p] = "none"] /\ linked' = TRUE
              /\ wire' = [q \in Progs |-> wire[q] \o Line("CONNECT") \o (IF q = p THEN Line("OK") ELSE <<>>)]
         /\ job[p] = "AT+CIPSEND" /\ linked =>
              /\ job' = [job EXCEPT ![p] = "data"] /\ linked' = linked
              /\ wire' = [wire EXCEPT ![p] = wire[p] \o (Line("OK") \o <<">">>)]
         /\ job[p] \in SetUpCmds =>
              /\ job' = [job EXCEPT ![p] = "none"] /\ linked' = linked
              /\ wire' = [wire EXCEPT ![p] =
                            wire[p] \o ((IF job[p] \in Talkative THEN Line("info") ELSE <<>>) \o Line("OK"))]
<1>1. job[p] \notin {"none", "boot", "data"} /\ UNCHANGED <<cmds, busies>>
  BY DEF EspDone
<1>2. ASSUME job[p] \in {"AT+RST", "AT+RESTORE"}
      PROVE  /\ job' = [job EXCEPT ![p] = "boot"] /\ linked' = FALSE
             /\ wire' = [q \in Progs |-> IF q = p THEN wire[q] \o Line("OK")
                                         ELSE wire[q] \o (IF linked THEN Line("CLOSED") ELSE <<>>)]
  <2>1. job[p] # "AT+CIPSTART" /\ job[p] # "AT+CIPSEND"
    BY <1>2
  <2>2. QED BY <1>2, <2>1, Zenon DEF EspDone
<1>3. ASSUME job[p] = "AT+CIPSTART", Listening
      PROVE  /\ job' = [job EXCEPT ![p] = "none"] /\ linked' = TRUE
             /\ wire' = [q \in Progs |-> wire[q] \o Line("CONNECT") \o (IF q = p THEN Line("OK") ELSE <<>>)]
  <2>1. job[p] # "AT+CIPSEND" /\ job[p] \notin {"AT+RST", "AT+RESTORE"}
    BY <1>3
  <2>2. QED BY <1>3, <2>1, Zenon DEF EspDone
<1>4. ASSUME job[p] = "AT+CIPSEND", linked
      PROVE  /\ job' = [job EXCEPT ![p] = "data"] /\ linked' = linked
             /\ wire' = [wire EXCEPT ![p] = wire[p] \o (Line("OK") \o <<">">>)]
  <2>1. job[p] # "AT+CIPSTART" /\ job[p] \notin {"AT+RST", "AT+RESTORE"}
    BY <1>4
  <2>2. QED BY <1>4, <2>1, Zenon DEF EspDone, Says
<1>5. ASSUME job[p] \in SetUpCmds
      PROVE  /\ job' = [job EXCEPT ![p] = "none"] /\ linked' = linked
             /\ wire' = [wire EXCEPT ![p] =
                           wire[p] \o ((IF job[p] \in Talkative THEN Line("info") ELSE <<>>) \o Line("OK"))]
  <2>1. job[p] # "AT+CIPSTART" /\ job[p] # "AT+CIPSEND" /\ job[p] \notin {"AT+RST", "AT+RESTORE"}
    BY <1>5 DEF SetUpCmds
  <2>2. QED BY <1>5, <2>1, Zenon DEF EspDone, Says
<1>6. QED BY <1>1, <1>2, <1>3, <1>4, <1>5, Zenon

\* One more line.
LEMMA Done1 ==
  ASSUME NEW p \in Progs, NEW k \in Places(p), NEW u, NEW w, NEW W, NEW l, NEW s, NEW r, NEW t,
         Said(p, k, u, w, W, l, s, r, 1), Len(W) = 0, 2 <= Len(Answer(p, k)), t = Answer(p, k)[2],
         p = "server" /\ k = 10 => ~l
  PROVE  Said(p, k, u, w \o Line(t), W, l, s, r, 2)
<1>1. PICK m, n : m = 1 /\ n = 2
  OBVIOUS
<1>2. Said(p, k, u, w, W, l, s, r, m) /\ n = m + 1 /\ n <= Len(Answer(p, k)) /\ t = Answer(p, k)[n]
  BY <1>1
<1>3. Said(p, k, u, w \o Line(t), W, l, s, r, n)
  BY <1>2, SaysLine
<1>4. QED BY <1>1, <1>3, Zenon

LEMMA AloneLine ==
  ASSUME NEW t \in Tok
  PROVE  <<>> \o Line(t) = Line(t)
<1>1. "eol" \in Tok
  BY WordsTok DEF Words
<1>2. PICK L : L = Line(t)
  OBVIOUS
<1>3. L \in Seq(Tok)
  BY <1>1, <1>2, LineShape
<1>4. <<>> \o L = L
  BY <1>3
<1>5. QED BY <1>2, <1>4

LEMMA NoTail ==
  ASSUME NEW S, NEW s \in Seq(S)
  PROVE  s \o <<>> = s
OBVIOUS

LEMMA SameCmds ==
  ASSUME Good, NEW p \in Progs, cmds' = cmds, cmds[p] = <<>>
  PROVE  cmds' = [cmds EXCEPT ![p] = <<>>]
<1>1. cmds \in [Progs -> Seq(Tok)]
  BY Functions1
<1>2. cmds' = [cmds EXCEPT ![p] = cmds[p]]
  BY <1>1, KeptIs
<1>3. QED BY <1>2

\* While it is reset, the esp of p is not linked.
LEMMA ResetApart ==
  ASSUME Good, NEW p \in Progs, call[p] \in 2 .. 4
  PROVE  ~linked
<1>1. ~(call[p] > 8) /\ call[p] # 8 /\ ~(call[p] > 10) /\ call[p] # 10
  OBVIOUS
<1>2. CASE p = "client"
  <2>1. linked <=> LinkDone
    BY DEF Good, Core, Linking
  <2>2. QED BY <1>1, <1>2, <2>1, Zenon DEF LinkDone, LinkedOf
<1>3. CASE p = "server"
  BY <1>1, <1>3, LinkedUp, Zenon DEF UpOf
<1>4. QED BY <1>2, <1>3, ProgsAre

LEMMA ResetWire ==
  ASSUME Good, NEW p \in Progs, ~linked, NEW L,
         wire' = [q \in Progs |-> IF q = p THEN wire[q] \o L
                                  ELSE wire[q] \o (IF linked THEN Line("CLOSED") ELSE <<>>)]
  PROVE  wire' = [wire EXCEPT ![p] = wire[p] \o L]
<1>1. wire \in [Progs -> Seq(Tok)]
  BY Functions1
<1>2. \A q \in Progs : wire[q] \o <<>> = wire[q]
  <2>1. ASSUME NEW q \in Progs PROVE wire[q] \o <<>> = wire[q]
    <3>1. wire[q] \in Seq(Tok)
      BY <1>1
    <3>2. PICK s \in Seq(Tok) : s = wire[q]
      BY <3>1
    <3>3. s \o <<>> = s
      BY <3>2, NoTail
    <3>4. QED BY <3>2, <3>3
  <2>2. QED BY <2>1
<1>3. wire' = [q \in Progs |-> IF q = p THEN wire[q] \o L ELSE wire[q] \o <<>>]
  BY Zenon
<1>4. wire' = [q \in Progs |-> IF q = p THEN wire[q] \o L ELSE wire[q]]
  BY <1>2, <1>3
<1>5. PICK v : v = wire[p] \o L
  OBVIOUS
<1>6. wire' = [q \in Progs |-> IF q = p THEN v ELSE wire[q]]
  BY <1>4, <1>5
<1>7. wire' = [wire EXCEPT ![p] = v]
  BY <1>1, <1>6
<1>8. QED BY <1>5, <1>7

LEMMA DoneReset ==
  ASSUME Good, NEW p \in Progs, EspStep(p), EspDone(p), Kind(p, call[p]) = "reset"
  PROVE  Core'
<1> DEFINE k == call[p]
           a == at[p]
           g == Messages[Sent(p) + 1]
           L == Line("OK")
<1>1. job[p] \notin {"none", "boot", "data"} /\ cmds' = cmds
  BY DoneIs
<1>2. PICK r \in Nat :
           /\ Reading(p, k, a, r) /\ r <= 1
           /\ Said(p, k, stream[p], wire[p], Waiting(p), linked, missed, r, 1) /\ Len(Waiting(p)) = 0
           /\ Kind(p, k) \in Commanding /\ job[p] = Cmd(p, k) /\ cmds[p] = <<>> /\ a >= 2
           /\ k \in 1 .. Len(esp_main(p)) /\ k \in Nat /\ a \in Nat /\ k \in Places(p)
  BY <1>1, DoneNow, Zenon
<1>3. k \in 2 .. 4 /\ job[p] \in {"AT+RST", "AT+RESTORE"}
  BY <1>2, ResetCall
<1>4. ~linked
  BY <1>3, ResetApart
<1>5. /\ job' = [job EXCEPT ![p] = "boot"] /\ linked' = FALSE
      /\ wire' = [q \in Progs |-> IF q = p THEN wire[q] \o Line("OK")
                                  ELSE wire[q] \o (IF linked THEN Line("CLOSED") ELSE <<>>)]
  BY <1>3, DoneIs
<1>6. wire' = [wire EXCEPT ![p] = wire[p] \o Line("OK")]
  <2>1. PICK M : M = Line("OK")
    OBVIOUS
  <2>2. wire' = [q \in Progs |-> IF q = p THEN wire[q] \o M
                                 ELSE wire[q] \o (IF linked THEN Line("CLOSED") ELSE <<>>)]
    BY <1>5, <2>1, Zenon
  <2>3. wire' = [wire EXCEPT ![p] = wire[p] \o M]
    BY <1>4, <2>2, ResetWire
  <2>4. QED BY <2>1, <2>3
<1>7. cmds' = [cmds EXCEPT ![p] = <<>>]
  BY <1>1, <1>2, SameCmds
<1>8. k # 8 /\ ~(k > 8) /\ k # 10 /\ ~(k > 10)
  BY <1>3
<1> HIDE DEF k, a, g, L
<1>9. 2 <= Len(Answer(p, k)) /\ Answer(p, k)[2] = "OK"
  <2>1. Kind(p, k) = "reset"
    BY DEF k
  <2>2. QED BY <2>1, Answers
<1>10. Said(p, k, stream[p], wire[p] \o L, Waiting(p), linked, missed, r, 2)
  <2>1. PICK t : t = "OK"
    OBVIOUS
  <2>2. t = Answer(p, k)[2] /\ (p = "server" /\ k = 10 => ~linked)
    BY <1>9, <2>1, <1>8
  <2>3. Said(p, k, stream[p], wire[p] \o Line(t), Waiting(p), linked, missed, r, 2)
    BY <1>2, <1>9, <2>2, Done1
  <2>4. QED BY <2>1, <2>3 DEF L
<1>11. Printed(p, k, a, "boot", <<>>, g, 2)
  BY <1>2, Zenon DEF Printed, k
<1>12. Fits(p, wire[p] \o L, <<>>, "boot", r, 2)
  <2>1. Delivering(p, k, a, "boot") <=> Delivering(p, k, a, job[p])
    <3>1. "reset" # "send"
      OBVIOUS
    <3>2. QED BY <3>1, Zenon DEF Delivering, k
  <2>2. LinkedOf(k, a, "boot", <<>>) <=> LinkedOf(k, a, job[p], cmds[p])
    BY <1>8, Zenon DEF LinkedOf
  <2>3. UpOf(k, a, job[p]) => UpOf(k, a, "boot")
    BY <1>8, Zenon DEF UpOf
  <2>4. QED BY <1>2, <1>10, <1>11, <2>1, <2>2, <2>3, Zenon DEF Fits, k, a, g
<1>13. Does(p, wire[p] \o L, <<>>, "boot")
  <2>1. wire[p] \o L \in Seq(Tok)
    BY <1>10, Zenon DEF Said
  <2>2. <<>> \in Seq(Tok) /\ "boot" \in Commands \cup {"none", "boot", "data"}
    OBVIOUS
  <2>3. linked' = linked
    <3>1. linked \in BOOLEAN
      BY DEF Good, TypeOK
    <3>2. QED BY <1>4, <1>5, <3>1
  <2>4. QED BY <1>5, <1>6, <1>7, <2>1, <2>2, <2>3, Zenon DEF Does, L
<1>14. QED
  <2>1. PICK w, c, j, n : w = wire[p] \o L /\ c = <<>> /\ j = "boot" /\ n = 2
    OBVIOUS
  <2>2. Does(p, w, c, j) /\ Fits(p, w, c, j, r, n)
    BY <1>12, <1>13, <2>1, Zenon
  <2>3. QED BY <2>2, EspDoes

LEMMA DoneAt ==
  ASSUME Good, NEW p \in Progs, EspStep(p), EspDone(p), Kind(p, call[p]) = "at"
  PROVE  Core'
<1> DEFINE k == call[p]
           a == at[p]
           g == Messages[Sent(p) + 1]
           L == (IF job[p] \in Talkative THEN Line("info") ELSE <<>>) \o Line("OK")
           n == Len(Answer(p, k))
<1>1. job[p] \notin {"none", "boot", "data"} /\ cmds' = cmds
  BY DoneIs
<1>2. PICK r \in Nat :
           /\ Reading(p, k, a, r) /\ r <= 1
           /\ Said(p, k, stream[p], wire[p], Waiting(p), linked, missed, r, 1) /\ Len(Waiting(p)) = 0
           /\ Kind(p, k) \in Commanding /\ job[p] = Cmd(p, k) /\ cmds[p] = <<>> /\ a >= 2
           /\ k \in 1 .. Len(esp_main(p)) /\ k \in Nat /\ a \in Nat /\ k \in Places(p)
  BY <1>1, DoneNow, Zenon
<1>3. k \in 5 .. (IF p = "server" THEN 15 ELSE 7) /\ job[p] \in SetUpCmds
  BY <1>2, AtCall
<1>4. /\ job' = [job EXCEPT ![p] = "none"] /\ linked' = linked
      /\ wire' = [wire EXCEPT ![p] = wire[p] \o L]
  BY <1>3, DoneIs
<1>5. cmds' = [cmds EXCEPT ![p] = <<>>]
  BY <1>1, <1>2, SameCmds
<1>6. Kind(p, k) = "at"
  OBVIOUS
<1>7. p = "client" => k # 8 /\ ~(k > 8)
  BY <1>3
<1>8. p = "server" /\ k = 10 => ~linked
  <2>1. ASSUME p = "server", k = 10 PROVE ~linked
    <3>1. call["server"] = 10 /\ job["server"] # "none"
      BY <1>1, <2>1
    <3>2. QED BY <3>1, NotLinked
  <2>2. QED BY <2>1
<1> HIDE DEF k, a, g, L, n
<1>9. Said(p, k, stream[p], wire[p] \o L, Waiting(p), linked, missed, r, n)
  <2>1. CASE job[p] \in Talkative
    <3>1. Len(Answer(p, k)) = 3 /\ Answer(p, k)[1 + 1] = "info" /\ Answer(p, k)[3] = "OK"
      BY <1>2, <1>6, <2>1, Answers
    <3>2. PICK m, i, t, v : m = 1 /\ i = 3 /\ t = "info" /\ v = "OK"
      OBVIOUS
    <3>3. /\ i = m + 2 /\ i <= Len(Answer(p, k)) /\ t = Answer(p, k)[m + 1] /\ v = Answer(p, k)[i]
          /\ Said(p, k, stream[p], wire[p], Waiting(p), linked, missed, r, m)
      BY <1>2, <3>1, <3>2
    <3>4. Said(p, k, stream[p], wire[p] \o (Line(t) \o Line(v)), Waiting(p), linked, missed, r, i)
      <4>1. PICK W, l, s, u, f : W = Waiting(p) /\ l = linked /\ s = missed /\ u = stream[p] /\ f = wire[p]
        OBVIOUS
      <4>2. Len(W) = 0 /\ (p = "server" /\ k = 10 => ~l)
        BY <1>2, <1>8, <4>1, Zenon
      <4>3. TwoMore(p, k, u, f, W, l, s, r, m, i, t, v)
        BY <3>3, <4>1, <4>2, Zenon DEF TwoMore
      <4>4. TwoSaid(p, k, u, f, W, l, s, r, i, t, v)
        BY <1>2, <4>3, SaysLines
      <4>5. QED BY <4>1, <4>4, Zenon DEF TwoSaid
    <3>5. L = Line(t) \o Line(v) /\ i = n
      BY <2>1, <3>1, <3>2, Zenon DEF L, n
    <3>6. QED BY <3>4, <3>5
  <2>2. CASE job[p] \notin Talkative
    <3>1. Len(Answer(p, k)) = 2 /\ Answer(p, k)[2] = "OK"
      BY <1>2, <1>6, <2>2, Answers
    <3>2. PICK t : t = "OK"
      OBVIOUS
    <3>3. t = Answer(p, k)[2] /\ 2 <= Len(Answer(p, k))
      BY <3>1, <3>2
    <3>4. Said(p, k, stream[p], wire[p] \o Line(t), Waiting(p), linked, missed, r, 2)
      BY <1>2, <1>8, <3>3, Done1
    <3>5. t \in Tok
      BY <3>2, WordsTok DEF Words
    <3>6. <<>> \o Line(t) = Line(t)
      BY <3>5, AloneLine
    <3>7. L = Line(t)
      BY <2>2, <3>2, <3>6, Zenon DEF L
    <3>8. QED BY <3>1, <3>4, <3>7 DEF n
  <2>3. QED BY <2>1, <2>2
<1>10. Printed(p, k, a, "none", <<>>, g, n)
  <2>1. "at" # "send"
    OBVIOUS
  <2>2. QED BY <1>2, <1>6, <2>1, Zenon DEF Printed, n
<1>11. Fits(p, wire[p] \o L, <<>>, "none", r, n)
  <2>1. Delivering(p, k, a, "none") <=> Delivering(p, k, a, job[p])
    <3>1. "at" # "send"
      OBVIOUS
    <3>2. QED BY <1>6, <3>1, Zenon DEF Delivering
  <2>2. p = "client" => (LinkedOf(k, a, "none", <<>>) <=> LinkedOf(k, a, job[p], cmds[p]))
    BY <1>7, Zenon DEF LinkedOf
  <2>3. UpOf(k, a, job[p]) => UpOf(k, a, "none")
    BY Zenon DEF UpOf
  <2>4. QED BY <1>2, <1>9, <1>10, <2>1, <2>2, <2>3, Zenon DEF Fits, k, a, g
<1>12. Does(p, wire[p] \o L, <<>>, "none")
  <2>1. wire[p] \o L \in Seq(Tok)
    BY <1>9, Zenon DEF Said
  <2>2. <<>> \in Seq(Tok) /\ "none" \in Commands \cup {"none", "boot", "data"}
    OBVIOUS
  <2>3. QED BY <1>4, <1>5, <2>1, <2>2, Zenon DEF Does
<1>13. QED
  <2>1. PICK w, c, j : w = wire[p] \o L /\ c = <<>> /\ j = "none"
    OBVIOUS
  <2>2. PICK x : x = n
    OBVIOUS
  <2>3. Does(p, w, c, j) /\ Fits(p, w, c, j, r, x)
    BY <1>11, <1>12, <2>1, <2>2, Zenon
  <2>4. QED BY <2>3, EspDoes

\* The connection is made before anything is sent.
LEMMA SendLinked ==
  ASSUME Good, NEW p \in Progs, call[p] > (IF p = "server" THEN 16 ELSE 8)
  PROVE  linked
<1>1. CASE p = "client"
  <2>1. call[p] > 8
    BY <1>1
  <2>2. QED BY <1>1, <2>1, Zenon DEF Good, Core, Linking, LinkDone, LinkedOf
<1>2. CASE p = "server"
  BY <1>2 DEF Good, Core, Linking
<1>3. QED BY <1>1, <1>2, ProgsAre

\* After OK comes the prompt.
LEMMA SaysPrompt ==
  ASSUME NEW p \in Progs, NEW k \in Places(p), NEW u, NEW w, NEW W, NEW l, NEW s, NEW r,
         Said(p, k, u, w, W, l, s, r, 1), Len(W) = 0, Kind(p, k) = "send", p = "server" => k # 10
  PROVE  Said(p, k, u, w \o (Line("OK") \o <<">">>), W, l, s, r, 3)
<1>1. Len(Answer(p, k)) = 5 /\ Answer(p, k)[2] = "OK" /\ Answer(p, k)[3] = ">"
  BY Answers
<1>2. PICK t, L, M : t = "OK" /\ L = Line(t) /\ M = <<">">>
  OBVIOUS
<1>3. Said(p, k, u, w \o Line(t), W, l, s, r, 2)
  <2>1. 2 <= Len(Answer(p, k)) /\ t = Answer(p, k)[2] /\ (p = "server" /\ k = 10 => ~l)
    BY <1>1, <1>2
  <2>2. QED BY <2>1, Done1
<1>4. t \in Tok /\ "eol" \in Tok /\ ">" \in Tok
  BY <1>2, WordsTok DEF Words
<1>5. L \in Seq(Tok)
  BY <1>2, <1>4, LineShape
<1>6. M \in Seq(Tok) /\ Len(M) = 1 /\ M[1] = ">"
  BY <1>2, <1>4
<1>7. PICK z : z = w \o L
  OBVIOUS
<1>8. w \in Seq(Tok) /\ u \in Seq(Tok) /\ z \in Seq(Tok) /\ Staged(p, k, u \o z, W, l, s, r, 2)
  BY <1>2, <1>3, <1>7, Zenon DEF Said
<1>9. Regroups(Tok, w, L, M)
  BY <1>5, <1>6, <1>8, Regroup
<1>10. z \o M = w \o (L \o M)
  BY <1>7, <1>9, Zenon DEF Regroups
<1>11. z \o M \in Seq(Tok) /\ Extended(u \o z, M, u \o (z \o M))
  BY <1>6, <1>8, Appended
<1>12. Len(u \o z) \in Nat
  <2>1. Len(u \o z) = Len(u) + Len(z) /\ Len(u) \in Nat /\ Len(z) \in Nat
    BY <1>8, Joined
  <2>2. QED BY <2>1
<1>13. Staged(p, k, u \o (z \o M), W, l, s, r, 3)
  <2>1. PICK m, n, I, J : m = 2 /\ n = 3 /\ I = u \o z /\ J = u \o (z \o M)
    OBVIOUS
  <2>2. n = m + 1 /\ n <= Len(Answer(p, k)) /\ Answer(p, k)[n] = ">" /\ (p = "server" /\ k = 10 => ~l)
    BY <1>1, <2>1
  <2>3. More(p, k, I, W, l, s, r, m, n, M, J)
    BY <1>8, <1>11, <1>12, <2>1, <2>2, Zenon DEF More
  <2>4. Staged(p, k, J, W, l, s, r, n)
    BY <1>6, <2>2, <2>3, MorePrompt
  <2>5. QED BY <2>1, <2>4, Zenon
<1>14. QED BY <1>2, <1>8, <1>10, <1>11, <1>13, Zenon DEF Said

LEMMA DoneSend ==
  ASSUME Good, NEW p \in Progs, EspStep(p), EspDone(p), Kind(p, call[p]) = "send"
  PROVE  Core'
<1> DEFINE k == call[p]
           a == at[p]
           g == Messages[Sent(p) + 1]
           L == Line("OK") \o <<">">>
<1>1. job[p] \notin {"none", "boot", "data"} /\ cmds' = cmds
  BY DoneIs
<1>2. PICK r \in Nat :
           /\ Reading(p, k, a, r) /\ r <= 1
           /\ Said(p, k, stream[p], wire[p], Waiting(p), linked, missed, r, 1) /\ Len(Waiting(p)) = 0
           /\ Kind(p, k) \in Commanding /\ job[p] = Cmd(p, k) /\ cmds[p] = <<>> /\ a >= 2
           /\ k \in 1 .. Len(esp_main(p)) /\ k \in Nat /\ a \in Nat /\ k \in Places(p)
  BY <1>1, DoneNow, Zenon
<1>3. k > (IF p = "server" THEN 16 ELSE 8) /\ job[p] = "AT+CIPSEND"
  BY <1>2, SendCall
<1>4. linked
  BY <1>3, SendLinked
<1>5. /\ job' = [job EXCEPT ![p] = "data"] /\ linked' = linked
      /\ wire' = [wire EXCEPT ![p] = wire[p] \o L]
  BY <1>3, <1>4, DoneIs
<1>6. cmds' = [cmds EXCEPT ![p] = <<>>]
  BY <1>1, <1>2, SameCmds
<1>7. Kind(p, k) = "send"
  OBVIOUS
<1>8. /\ p = "client" => k > 8
      /\ p = "server" => k > 10 /\ k # 10
  BY <1>2, <1>3
<1> HIDE DEF k, a, g, L
<1>9. Said(p, k, stream[p], wire[p] \o L, Waiting(p), linked, missed, r, 3)
  BY <1>2, <1>7, <1>8, SaysPrompt DEF L
<1>10. ~(a >= 6)
  <2>1. a \in 6 .. 7 => r = a - 3
    BY <1>2, <1>7, Zenon DEF Reading
  <2>2. a <= 7
    <3>1. a \in DOMAIN Call(p, k)
      <4>1. ~(k > Len(esp_main(p)))
        BY <1>2, Sizes
      <4>2. There(p)
        BY <4>1, Now, Zenon DEF Ended, k
      <4>3. QED BY <4>2, Zenon DEF There, k, a
    <3>2. DOMAIN Call(p, k) = 1 .. 7
      BY <1>2, <1>7, SendCall, Zenon DEF SendOf
    <3>3. QED BY <1>2, <3>1, <3>2
  <2>3. QED BY <1>2, <2>1, <2>2
<1>11. Printed(p, k, a, "data", <<>>, g, 3)
  BY <1>2, <1>7, <1>10, Zenon DEF Printed
<1>12. Fits(p, wire[p] \o L, <<>>, "data", r, 3)
  <2>1. Delivering(p, k, a, "data") <=> Delivering(p, k, a, job[p])
    BY <1>10, Zenon DEF Delivering
  <2>2. p = "client" => (LinkedOf(k, a, "data", <<>>) <=> LinkedOf(k, a, job[p], cmds[p]))
    BY <1>8, Zenon DEF LinkedOf
  <2>3. p = "server" => (UpOf(k, a, job[p]) => UpOf(k, a, "data"))
    BY <1>8, Zenon DEF UpOf
  <2>4. QED BY <1>2, <1>9, <1>11, <2>1, <2>2, <2>3, Zenon DEF Fits, k, a, g
<1>13. Does(p, wire[p] \o L, <<>>, "data")
  <2>1. wire[p] \o L \in Seq(Tok)
    BY <1>9, Zenon DEF Said
  <2>2. <<>> \in Seq(Tok) /\ "data" \in Commands \cup {"none", "boot", "data"}
    OBVIOUS
  <2>3. QED BY <1>5, <1>6, <2>1, <2>2, Zenon DEF Does
<1>14. QED
  <2>1. PICK w, c, j, n : w = wire[p] \o L /\ c = <<>> /\ j = "data" /\ n = 3
    OBVIOUS
  <2>2. Does(p, w, c, j) /\ Fits(p, w, c, j, r, n)
    BY <1>12, <1>13, <2>1, Zenon
  <2>3. QED BY <2>2, EspDoes

LEMMA TypesWires ==
  ASSUME Good, NEW p \in Progs, NEW q \in Progs, q = Peer(p), UNCHANGED <<stream, fault, got>>,
         NEW c \in Seq(Tok), cmds' \in {cmds, [cmds EXCEPT ![p] = c]},
         NEW j \in Commands \cup {"none", "boot", "data"}, job' = [job EXCEPT ![p] = j],
         wire' = [x \in Progs |-> wire'[x]], wire'[p] \in Seq(Tok), wire'[q] \in Seq(Tok)
  PROVE  Types'
<1>1. \A x \in Progs : x = p \/ x = q
  BY DEF Progs, Peer
<1>2. /\ stream \in [Progs -> Seq(Tok)] /\ wire \in [Progs -> Seq(Tok)] /\ cmds \in [Progs -> Seq(Tok)]
      /\ job \in [Progs -> Commands \cup {"none", "boot", "data"}] /\ got \in [Progs -> Seq(Seq(Tok))]
      /\ fault = [x \in Progs |-> "none"]
  BY DEF Good, Core, Types
<1>3. stream' = stream /\ fault' = fault /\ got' = got
  OBVIOUS
<1>4. cmds' \in [Progs -> Seq(Tok)]
  BY <1>2
<1>5. job' \in [Progs -> Commands \cup {"none", "boot", "data"}]
  BY <1>2
<1>6. wire' \in [Progs -> Seq(Tok)]
  <2>1. \A x \in Progs : wire'[x] \in Seq(Tok)
    BY <1>1
  <2>2. QED BY <2>1
<1>7. QED BY <1>2, <1>3, <1>4, <1>5, <1>6, Zenon DEF Types

\* The server's esp gets the connection when it has said what the call is waiting for.
LEMMA UpSaid ==
  ASSUME Good, ServerUp, call["server"] = 10, NEW r \in Nat, NEW m \in Nat,
         Reading("server", call["server"], at["server"], r),
         Printed("server", call["server"], at["server"], job["server"], cmds["server"],
                 Messages[Sent("server") + 1], m)
  PROVE  r <= 1 /\ m >= 2
<1> DEFINE k == call["server"]
           a == at["server"]
<1>1. "server" \in Progs /\ k \in Places("server") /\ k = 10 /\ ~(10 > 10)
  <2>1. "server" \in Progs
    BY ProgsAre
  <2>2. k \in Places("server")
    BY <2>1, Now, Zenon DEF Place
  <2>3. ~(10 > 10)
    OBVIOUS
  <2>4. QED BY <2>1, <2>2, <2>3, Zenon
<1>2. a = 3 /\ job["server"] = "none"
  BY <1>1, Zenon DEF ServerUp, UpOf
<1>3. Kind("server", k) = "at" /\ "at" \in Commanding /\ k \in 1 .. Len(esp_main("server"))
  <2>1. Kind("server", k) = "at"
    BY <1>1, FirstKinds
  <2>2. "at" \in Commanding
    BY DEF Commanding
  <2>3. QED BY <1>1, <2>1, <2>2, AnswerLines
<1>4. Cmd("server", k) = "AT+CIPSERVER"
  BY <1>1, <1>3, AtCall
<1>5. Cmd("server", k) \notin Talkative
  BY <1>4 DEF Talkative
<1>6. Len(Answer("server", k)) = 2
  BY <1>3, <1>5, Answers
<1>7. m = 2
  <2>1. a # 1 /\ a # 2 /\ Cmd("server", k) # "none" /\ "none" # "boot" /\ "none" # "data"
    BY <1>2, <1>4
  <2>2. QED BY <1>2, <1>3, <1>6, <2>1, Zenon DEF Printed
<1>8. r \in 1 .. 2 - 1
  BY <1>2, <1>3, <1>6, Zenon DEF Reading
<1>9. QED BY <1>7, <1>8

\* The server's input when its esp tells it of the connection.
LEMMA ServerConnects ==
  ASSUME Good, ~linked, ServerUp, NEW w, w = wire["server"] \o Line("CONNECT"), NEW z
  PROVE  /\ w \in Seq(Tok) /\ call["server"] <= 16
         /\ Talks("server", call["server"], at["server"], job["server"], cmds["server"], stream["server"] \o w,
                  Waiting("server"), Messages[Sent("server") + 1], TRUE, z)
<1> DEFINE p == "server"
           k == call[p]
           a == at[p]
           g == Messages[Sent(p) + 1]
           W == Waiting(p)
<1>1. "server" \in Progs /\ "client" \in Progs /\ p \in Progs
  BY ProgsAre
<1>2. PICK r, m : /\ Reading(p, k, a, r) /\ Printed(p, k, a, job[p], cmds[p], g, m)
                  /\ Said(p, k, stream[p], wire[p], W, linked, missed, r, m)
                  /\ r \in Nat /\ m \in Nat /\ r <= m /\ m <= Len(Answer(p, k))
  BY <1>1, EspNow, Zenon
<1>3. k \in Places(p) /\ k \in Nat /\ a \in Nat
  BY <1>1, Now, Zenon DEF Place, Typed
<1>4. k <= 16
  <2>1. ~(k > 16)
    BY DEF Good, Core, Linking
  <2>2. QED BY <1>3, <2>1
<1>5. Len(W) = 0
  <2>1. ~Awaits(p)
    <3>1. Kind(p, k) # "recv" /\ Kind(p, k) # "send" /\ p # "client"
      <4>1. k = 1 \/ k \in 2 .. 4 \/ k \in 5 .. 15 \/ k = 16
        <5>1. k >= 1
          BY <1>1, <1>3, PlaceSizes
        <5>2. \A x \in Nat : x >= 1 /\ x <= 16 => x = 1 \/ x \in 2 .. 4 \/ x \in 5 .. 15 \/ x = 16
          OBVIOUS
        <5>3. QED BY <1>3, <1>4, <5>1, <5>2, Zenon
      <4>2. Kind(p, k) \in {"eat", "reset", "at", "conn"}
        <5>1. PICK y \in Progs, x \in Int : y = p /\ x = k /\ y = "server"
          BY <1>1, <1>3
        <5>2. x \in 5 .. 15 => x \in 5 .. (IF y = "server" THEN 15 ELSE 7)
          BY <5>1
        <5>3. x = 1 => Kind(y, x) = "eat"
          BY FirstKinds
        <5>4. x \in 2 .. 4 => Kind(y, x) = "reset"
          BY FirstKinds
        <5>5. x \in 5 .. 15 => Kind(y, x) = "at"
          BY <5>2, FirstKinds
        <5>6. x = 16 => Kind(y, x) = "conn"
          BY <5>1, FirstKinds
        <5>7. QED BY <4>1, <5>1, <5>3, <5>4, <5>5, <5>6
      <4>3. QED BY <4>2
    <3>2. QED BY <3>1, Zenon DEF Awaits, Given
  <2>2. QED BY <1>1, <2>1, WaitingNow
<1>6. k = 10 => r <= 1 /\ m >= 2
  BY <1>2, UpSaid
<1> HIDE DEF p, k, a, g, W
<1>7. stream[p] \in Seq(Tok) /\ wire[p] \in Seq(Tok) /\ Staged(p, k, stream[p] \o wire[p], W, linked, missed, r, m)
  BY <1>2, Zenon DEF Said
<1>8. "CONNECT" \in Tok /\ "eol" \in Tok
  BY WordsTok DEF Words
<1>9. PICK t, L, u, v : t = "CONNECT" /\ L = Line(t) /\ u = stream[p] /\ v = wire[p]
  OBVIOUS
<1>10. L \in Seq(Tok) /\ Len(L) = 3 /\ L[1] = "CONNECT" /\ L[2] = "eol" /\ L[3] = "eol"
  BY <1>8, <1>9, LineShape
<1>11. u \in Seq(Tok) /\ v \in Seq(Tok)
  BY <1>7, <1>9
<1>12. v \o L \in Seq(Tok) /\ Extended(u \o v, L, u \o (v \o L))
  BY <1>10, <1>11, Appended
<1>13. Len(u \o v) \in Nat
  <2>1. Len(u \o v) = Len(u) + Len(v) /\ Len(u) \in Nat /\ Len(v) \in Nat
    BY <1>11, Joined
  <2>2. QED BY <2>1
<1>14. Staged(p, k, u \o (v \o L), W, TRUE, z, r, m)
  <2>1. PICK I, J : I = u \o v /\ J = u \o (v \o L)
    OBVIOUS
  <2>2. Staged(p, k, I, W, linked, missed, r, m) /\ Len(I) \in Nat /\ Extended(I, L, J)
    BY <1>7, <1>9, <1>12, <1>13, <2>1, Zenon
  <2>3. p = "server"
    BY DEF p
  <2>4. PICK l, s : l = linked /\ s = missed
    OBVIOUS
  <2>6. Staged(p, k, I, W, l, s, r, m) /\ ~l
    BY <2>2, <2>4, Zenon
  <2>7. GetsConnect(p, k, I, W, l, s, r, m, L, J)
    BY <1>3, <1>4, <1>5, <1>6, <1>10, <2>2, <2>3, <2>6, Zenon DEF GetsConnect
  <2>8. IsLinked(p, k, J, W, z, r, m)
    BY <2>7, MoreConnect
  <2>9. QED BY <2>1, <2>8, Zenon DEF IsLinked
<1>15. w = v \o L
  BY <1>9, Zenon DEF p
<1>16. Talks(p, k, a, job[p], cmds[p], stream[p] \o w, W, g, TRUE, z)
  BY <1>2, <1>9, <1>14, <1>15, Zenon DEF Talks
<1>17. QED BY <1>4, <1>12, <1>15, <1>16, Zenon DEF p, k, a, g, W

\* Both esps tell of the connection, the client's ends its command too.
LEMMA LinkWire ==
  ASSUME Good,
         wire' = [x \in Progs |-> wire[x] \o Line("CONNECT") \o (IF x = "client" THEN Line("OK") ELSE <<>>)],
         wire["server"] \o Line("CONNECT") \in Seq(Tok)
  PROVE  /\ wire'["client"] = (wire["client"] \o Line("CONNECT")) \o Line("OK")
         /\ wire'["server"] = wire["server"] \o Line("CONNECT")
         /\ wire' = [x \in Progs |-> wire'[x]]
<1>1. PICK L, M, f : L = Line("CONNECT") /\ M = Line("OK") /\ f = wire
  OBVIOUS
<1>2. PICK y, z : y = "client" /\ z = "server" /\ y \in Progs /\ z \in Progs /\ y # z
  BY ProgsAre
<1>3. wire' = [x \in Progs |-> f[x] \o L \o (IF x = y THEN M ELSE <<>>)]
  BY <1>1, <1>2, Zenon
<1>4. wire'[y] = (f[y] \o L) \o M
  BY <1>2, <1>3
<1>5. wire'[z] = (f[z] \o L) \o <<>>
  BY <1>2, <1>3
<1>6. PICK v : v = f[z] \o L
  OBVIOUS
<1>7. v \in Seq(Tok)
  BY <1>1, <1>2, <1>6
<1>8. v \o <<>> = v
  BY <1>7, NoTail
<1>9. wire' = [x \in Progs |-> wire'[x]]
  BY <1>3
<1>10. wire'[z] = v
  BY <1>5, <1>6, <1>8
<1>11. QED BY <1>1, <1>2, <1>4, <1>6, <1>9, <1>10, Zenon

LEMMA DoneLink ==
  ASSUME Good, NEW p \in Progs, EspStep(p), EspDone(p), Kind(p, call[p]) = "link"
  PROVE  Core'
<1> DEFINE k == call[p]
           a == at[p]
           g == Messages[Sent(p) + 1]
           w == (wire[p] \o Line("CONNECT")) \o Line("OK")
<1>1. job[p] \notin {"none", "boot", "data"} /\ cmds' = cmds
  BY DoneIs
<1>2. PICK r \in Nat :
           /\ Reading(p, k, a, r) /\ r <= 1
           /\ Said(p, k, stream[p], wire[p], Waiting(p), linked, missed, r, 1) /\ Len(Waiting(p)) = 0
           /\ Kind(p, k) \in Commanding /\ job[p] = Cmd(p, k) /\ cmds[p] = <<>> /\ a >= 2
           /\ k \in 1 .. Len(esp_main(p)) /\ k \in Nat /\ a \in Nat /\ k \in Places(p)
  BY <1>1, DoneNow, Zenon
<1>3. p = "client" /\ k = 8 /\ job[p] = "AT+CIPSTART"
  BY <1>2, LinkCall
<1>4. "server" \in Progs /\ "client" \in Progs /\ Peer(p) = "server" /\ "server" # "client"
  BY <1>3, ProgsAre
<1>5. (linked <=> LinkDone) /\ (Asked => ServerUp)
  BY DEF Good, Core, Linking
<1>6. Asked
  BY <1>2, <1>3, Zenon DEF Asked, AskedOf
<1>7. ~linked
  <2>1. ~(8 > 8)
    OBVIOUS
  <2>2. ~LinkDone
    BY <1>1, <1>3, <2>1, Zenon DEF LinkDone, LinkedOf
  <2>3. QED BY <1>5, <2>2
<1>8. Listening /\ ServerUp
  BY <1>5, <1>6, UpListens
<1>9. /\ job' = [job EXCEPT ![p] = "none"] /\ linked' = TRUE
      /\ wire' = [x \in Progs |-> wire[x] \o Line("CONNECT") \o (IF x = p THEN Line("OK") ELSE <<>>)]
  BY <1>3, <1>8, DoneIs
<1>10. UNCHANGED <<call, at, missed, restarts, stream, fault, got>>
  BY EspMoves
<1>11. PICK v : v = wire["server"] \o Line("CONNECT")
  OBVIOUS
<1>12. PICK z : z = missed'
  OBVIOUS
<1>13. /\ v \in Seq(Tok) /\ call["server"] <= 16
       /\ Talks("server", call["server"], at["server"], job["server"], cmds["server"], stream["server"] \o v,
                Waiting("server"), Messages[Sent("server") + 1], TRUE, z)
  BY <1>7, <1>8, <1>11, ServerConnects
<1>14. wire'[p] = w /\ wire'["server"] = v /\ wire' = [x \in Progs |-> wire'[x]]
  <2>1. wire' = [x \in Progs |-> wire[x] \o Line("CONNECT") \o (IF x = "client" THEN Line("OK") ELSE <<>>)]
    BY <1>3, <1>9, Zenon
  <2>2. wire["server"] \o Line("CONNECT") \in Seq(Tok)
    BY <1>11, <1>13
  <2>3. /\ wire'["client"] = (wire["client"] \o Line("CONNECT")) \o Line("OK")
        /\ wire'["server"] = wire["server"] \o Line("CONNECT")
        /\ wire' = [x \in Progs |-> wire'[x]]
    BY <2>1, <2>2, LinkWire
  <2>4. QED BY <1>3, <1>11, <2>3, Zenon
<1>15. job'[p] = "none" /\ job'["server"] = job["server"]
  BY <1>3, <1>4, <1>9, Functions1, ExceptIs
<1> HIDE DEF k, a, g, w
<1>16. Said(p, k, stream[p], w, Waiting(p), linked, missed, r, 3)
  <2>1. Len(Answer(p, k)) = 3 /\ Answer(p, k)[1 + 1] = "CONNECT" /\ Answer(p, k)[3] = "OK"
    <3>1. Kind(p, k) = "link"
      BY DEF k
    <3>2. QED BY <3>1, Answers
  <2>2. PICK m, i, t, y : m = 1 /\ i = 3 /\ t = "CONNECT" /\ y = "OK"
    OBVIOUS
  <2>3. /\ i = m + 2 /\ i <= Len(Answer(p, k)) /\ t = Answer(p, k)[m + 1] /\ y = Answer(p, k)[i]
        /\ Said(p, k, stream[p], wire[p], Waiting(p), linked, missed, r, m) /\ (p = "server" /\ k = 10 => ~linked)
    BY <1>2, <1>7, <2>1, <2>2
  <2>4. PICK W, l, s, u, f : W = Waiting(p) /\ l = linked /\ s = missed /\ u = stream[p] /\ f = wire[p]
    OBVIOUS
  <2>5. /\ i = m + 2 /\ i <= Len(Answer(p, k)) /\ t = Answer(p, k)[m + 1] /\ y = Answer(p, k)[i]
        /\ Said(p, k, u, f, W, l, s, r, m) /\ Len(W) = 0 /\ (p = "server" /\ k = 10 => ~l) /\ k \in Places(p)
    BY <1>2, <2>3, <2>4, Zenon
  <2>6. TwoMore(p, k, u, f, W, l, s, r, m, i, t, y)
    BY <2>5, Zenon DEF TwoMore
  <2>7. TwoSaid(p, k, u, f, W, l, s, r, i, t, y)
    BY <2>5, <2>6, SaysLines
  <2>8. QED BY <2>2, <2>4, <2>7, Zenon DEF w, TwoSaid
<1>17. w \in Seq(Tok)
  BY <1>16, Zenon DEF Said
<1>18. Types'
  <2>1. UNCHANGED <<stream, fault, got>> /\ cmds' \in {cmds, [cmds EXCEPT ![p] = <<>>]} /\ <<>> \in Seq(Tok)
    BY <1>1, <1>10
  <2>2. PICK q \in Progs : q = "server" /\ q = Peer(p)
    BY <1>4
  <2>3. PICK c, j : c = <<>> /\ j = "none"
    OBVIOUS
  <2>4. /\ c \in Seq(Tok) /\ cmds' \in {cmds, [cmds EXCEPT ![p] = c]}
        /\ j \in Commands \cup {"none", "boot", "data"} /\ job' = [job EXCEPT ![p] = j]
        /\ wire' = [x \in Progs |-> wire'[x]] /\ wire'[p] \in Seq(Tok) /\ wire'[q] \in Seq(Tok)
    BY <1>9, <1>13, <1>14, <1>17, <2>1, <2>2, <2>3
  <2>5. QED BY <2>1, <2>2, <2>4, TypesWires
<1>19. Printed(p, k, a, "none", <<>>, g, 3)
  <2>1. "link" # "send" /\ Kind(p, k) = "link"
    BY DEF k
  <2>2. Len(Answer(p, k)) = 3
    BY <2>1, Answers
  <2>3. QED BY <1>2, <2>1, <2>2, Zenon DEF Printed
<1>20. Talks(p, k, a, "none", <<>>, stream[p] \o w, Waiting(p), g, linked, missed)
  <2>1. 3 \in Nat
    OBVIOUS
  <2>2. QED BY <1>2, <1>16, <1>19, <2>1, Zenon DEF Talks, Said
<1>21. OwnWill(p)
  <2>1. PICK l, s : l = linked' /\ s = missed'
    OBVIOUS
  <2>2. Talks("client", k, a, "none", <<>>, stream[p] \o w, Waiting(p), g, l, s)
    BY <1>3, <1>20, ClientTalks
  <2>3. call'[p] = k /\ at'[p] = a /\ stream'[p] = stream[p] /\ cmds'[p] = <<>>
    BY <1>1, <1>2, <1>10 DEF k, a
  <2>4. QED BY <1>3, <1>14, <1>15, <2>1, <2>2, <2>3, Zenon DEF OwnWill, g
<1>22. OwnWill("server")
  <2>1. /\ call'["server"] = call["server"] /\ at'["server"] = at["server"] /\ cmds'["server"] = cmds["server"]
        /\ stream'["server"] = stream["server"]
    BY <1>1, <1>10
  <2>2. QED BY <1>9, <1>12, <1>13, <1>14, <1>15, <2>1, Zenon DEF OwnWill
<1>23. Linking'
  <2>1. LinkDone'
    <3>1. call'["client"] = 8 /\ at'["client"] >= 2 /\ job'["client"] = "none" /\ cmds'["client"] = <<>>
      BY <1>1, <1>2, <1>3, <1>10, <1>15 DEF k, a
    <3>2. QED BY <3>1, Zenon DEF LinkDone, LinkedOf
  <2>2. ServerUp'
    <3>1. call'["server"] = call["server"] /\ at'["server"] = at["server"]
      BY <1>10
    <3>2. QED BY <1>8, <1>15, <3>1, Zenon DEF ServerUp
  <2>3. linked'
    BY <1>9
  <2>4. QED BY <2>1, <2>2, <2>3 DEF Linking
<1>24. Place(p, call'[p], Had(p)) /\ SentOf(p, call'[p], at'[p], job'[p], Had(p)) = Sent(p)
  <2>1. call'[p] = k /\ at'[p] = a
    BY <1>10 DEF k, a
  <2>2. Place(p, k, Had(p))
    BY Now, Zenon DEF k
  <2>3. ~Delivering(p, k, a, "none") /\ ~Delivering(p, k, a, job[p]) /\ p # "server"
    <3>1. "link" # "send"
      OBVIOUS
    <3>2. QED BY <1>3, <1>4, <3>1, Zenon DEF Delivering, k
  <2>4. SentOf(p, k, a, "none", Had(p)) = Sent(p)
    BY <2>3, Zenon DEF Sent, SentOf, k, a
  <2>5. QED BY <1>15, <2>1, <2>2, <2>4, Zenon
<1>25. PICK q \in Progs : q = "server" /\ q = Peer(p)
  BY <1>4
<1>26. /\ call'[q] = call[q] /\ at'[q] = at[q] /\ job'[q] = job[q] /\ got' = got
       /\ OwnWill(q)
  BY <1>10, <1>15, <1>22, <1>25
<1>27. QED BY <1>18, <1>21, <1>23, <1>24, <1>25, <1>26, QuietCore

LEMMA EspDoneCore ==
  ASSUME Good, NEW p \in Progs, EspStep(p), EspDone(p)
  PROVE  Core'
<1>1. job[p] \notin {"none", "boot", "data"}
  BY DoneIs
<1>2. Kind(p, call[p]) \in Commanding
  BY <1>1, DoneNow, Zenon
<1>3. Kind(p, call[p]) = "reset" \/ Kind(p, call[p]) = "at" \/ Kind(p, call[p]) = "link" \/ Kind(p, call[p]) = "send"
  BY <1>2, Zenon DEF Commanding
<1>4. QED BY <1>3, DoneReset, DoneAt, DoneLink, DoneSend

\* A command never comes too soon.
LEMMA NeverBusy ==
  ASSUME Good, NEW p \in Progs, EspBusy(p)
  PROVE  FALSE
<1>1. job[p] \notin {"none", "boot", "data"} /\ cmds[p] # <<>>
  BY DEF EspBusy
<1>2. cmds[p] = <<>>
  BY <1>1, DoneNow, Zenon
<1>3. QED BY <1>1, <1>2

LEMMA SubAll ==
  ASSUME NEW S, NEW s \in Seq(S), NEW n \in Nat, Len(s) = n
  PROVE  SubSeq(s, 1, n) = s /\ SubSeq(s, n + 1, Len(s)) = <<>>
OBVIOUS

\* What goes to the peer is the message, after an end of line.
LEMMA PassedOn ==
  ASSUME NEW g \in Seq(Tok), NEW n \in Nat, Len(g) = n
  PROVE  LET L == <<"eol", "+IPD">> \o g
             W == <<"+IPD">> \o g IN
         /\ L \in Seq(Tok) /\ Len(W) \in Nat /\ Len(L) = 1 + Len(W) /\ L[1] = "eol"
         /\ \A i \in 1 .. Len(W) : L[i + 1] = W[i]
<1>1. PICK x, y : x = "eol" /\ y = "+IPD"
  OBVIOUS
<1>2. x \in Tok /\ y \in Tok
  BY <1>1, WordsTok DEF Words
<1>3. /\ <<x, y>> \in Seq(Tok) /\ Len(<<x, y>>) = 2 /\ <<x, y>>[1] = x /\ <<x, y>>[2] = y
      /\ <<y>> \in Seq(Tok) /\ Len(<<y>>) = 1 /\ <<y>>[1] = y
  BY <1>2
<1>4. PICK U, V : U = <<x, y>> /\ V = <<y>>
  OBVIOUS
<1>5. /\ U \in Seq(Tok) /\ Len(U) = 2 /\ U[1] = x /\ U[2] = y
      /\ V \in Seq(Tok) /\ Len(V) = 1 /\ V[1] = y
  BY <1>3, <1>4
<1>6. PICK L, W : L = U \o g /\ W = V \o g
  OBVIOUS
<1>7. /\ L \in Seq(Tok) /\ Len(L) = 2 + n /\ (\A i \in 1 .. 2 : L[i] = U[i]) /\ (\A i \in 1 .. n : L[2 + i] = g[i])
  <2>1. /\ U \o g \in Seq(Tok) /\ Len(U \o g) = Len(U) + Len(g)
        /\ \A i \in 1 .. Len(U) : (U \o g)[i] = U[i]
        /\ \A i \in 1 .. Len(g) : (U \o g)[Len(U) + i] = g[i]
    <3>1. U \in Seq(Tok) /\ g \in Seq(Tok)
      BY <1>5
    <3>2. \A i \in 1 .. Len(g) : (U \o g)[Len(U) + i] = g[i]
      BY <3>1, Joined
    <3>3. \A i \in 1 .. Len(U) : (U \o g)[i] = U[i]
      BY <3>1, Joined
    <3>4. U \o g \in Seq(Tok) /\ Len(U \o g) = Len(U) + Len(g)
      BY <3>1, Joined
    <3>5. QED BY <3>2, <3>3, <3>4, Zenon
  <2>2. QED BY <1>5, <1>6, <2>1, Zenon
<1>8. /\ W \in Seq(Tok) /\ Len(W) = 1 + n /\ (\A i \in 1 .. 1 : W[i] = V[i]) /\ (\A i \in 1 .. n : W[1 + i] = g[i])
  <2>1. /\ V \o g \in Seq(Tok) /\ Len(V \o g) = Len(V) + Len(g)
        /\ \A i \in 1 .. Len(V) : (V \o g)[i] = V[i]
        /\ \A i \in 1 .. Len(g) : (V \o g)[Len(V) + i] = g[i]
    <3>1. V \in Seq(Tok) /\ g \in Seq(Tok)
      BY <1>5
    <3>2. \A i \in 1 .. Len(g) : (V \o g)[Len(V) + i] = g[i]
      BY <3>1, Joined
    <3>3. \A i \in 1 .. Len(V) : (V \o g)[i] = V[i]
      BY <3>1, Joined
    <3>4. V \o g \in Seq(Tok) /\ Len(V \o g) = Len(V) + Len(g)
      BY <3>1, Joined
    <3>5. QED BY <3>2, <3>3, <3>4, Zenon
  <2>2. QED BY <1>5, <1>6, <2>1, Zenon
<1>9. L[1] = x /\ L[2] = y /\ W[1] = y
  <2>1. 1 \in 1 .. 2 /\ 2 \in 1 .. 2 /\ 1 \in 1 .. 1
    OBVIOUS
  <2>2. QED BY <1>5, <1>7, <1>8, <2>1, Zenon
<1>10. \A i \in 1 .. Len(W) : L[i + 1] = W[i]
  <2>1. ASSUME NEW i \in 1 .. n + 1 PROVE L[i + 1] = W[i]
    <3>1. CASE i = 1
      BY <1>9, <3>1
    <3>2. CASE i # 1
      <4>1. PICK h \in 1 .. n : i = 1 + h /\ i + 1 = 2 + h
        BY <3>2
      <4>2. L[2 + h] = g[h] /\ W[1 + h] = g[h]
        BY <1>7, <1>8, <4>1
      <4>3. QED BY <4>1, <4>2
    <3>3. QED BY <3>1, <3>2
  <2>2. Len(W) = n + 1
    BY <1>8
  <2>3. QED BY <2>1, <2>2
<1>11. Len(W) \in Nat /\ Len(L) = 1 + Len(W)
  BY <1>7, <1>8
<1>12. L = <<"eol", "+IPD">> \o g /\ W = <<"+IPD">> \o g
  BY <1>1, <1>4, <1>6, Zenon
<1>13. QED BY <1>1, <1>7, <1>9, <1>10, <1>11, <1>12, Zenon

\* The peer's input when the message is passed on to it.
LEMMA PeerGets ==
  ASSUME Good, NEW q \in Progs, Waiting(q) = <<>>, NEW g \in Seq(Tok), NEW n \in Nat, Len(g) = n,
         NEW v, v = wire[q] \o (<<"eol", "+IPD">> \o g)
  PROVE  /\ v \in Seq(Tok)
         /\ Talks(q, call[q], at[q], job[q], cmds[q], stream[q] \o v, <<"+IPD">> \o g,
                  Messages[Sent(q) + 1], linked, missed)
<1>1. PICK r, m : /\ Reading(q, call[q], at[q], r)
                  /\ Printed(q, call[q], at[q], job[q], cmds[q], Messages[Sent(q) + 1], m)
                  /\ Said(q, call[q], stream[q], wire[q], Waiting(q), linked, missed, r, m)
                  /\ r \in Nat /\ m \in Nat /\ r <= m /\ m <= Len(Answer(q, call[q]))
  BY EspNow, Zenon
<1>2. PICK L, W : L = <<"eol", "+IPD">> \o g /\ W = <<"+IPD">> \o g
  OBVIOUS
<1>3. /\ L \in Seq(Tok) /\ Len(W) \in Nat /\ Len(L) = 1 + Len(W) /\ L[1] = "eol"
      /\ \A i \in 1 .. Len(W) : L[i + 1] = W[i]
  BY <1>2, PassedOn
<1>4. PICK u, w, V : u = stream[q] /\ w = wire[q] /\ V = Waiting(q) /\ Len(V) = 0
  OBVIOUS
<1>5. u \in Seq(Tok) /\ w \in Seq(Tok) /\ Staged(q, call[q], u \o w, V, linked, missed, r, m)
  BY <1>1, <1>4, Zenon DEF Said
<1>6. w \o L \in Seq(Tok) /\ Extended(u \o w, L, u \o (w \o L))
  BY <1>3, <1>5, Appended
<1>7. Len(u \o w) \in Nat
  <2>1. Len(u \o w) = Len(u) + Len(w) /\ Len(u) \in Nat /\ Len(w) \in Nat
    BY <1>5, Joined
  <2>2. QED BY <2>1
<1>8. PICK k, l, s, I, J : k = call[q] /\ l = linked /\ s = missed /\ I = u \o w /\ J = u \o (w \o L)
  OBVIOUS
<1>9. Staged(q, k, I, V, l, s, r, m) /\ Len(I) \in Nat /\ Extended(I, L, J)
  BY <1>5, <1>6, <1>7, <1>8, Zenon
<1>10. Staged(q, k, J, W, l, s, r, m)
  BY <1>3, <1>4, <1>9, MoreMessage
<1>11. v = w \o L
  BY <1>2, <1>4
<1>12. QED BY <1>1, <1>2, <1>4, <1>6, <1>8, <1>10, <1>11, Zenon DEF Talks

LEMMA SentGiven ==
  ASSUME NEW p \in Progs, NEW k, Kind(p, k) = "send", NEW a, a >= 6, NEW h
  PROVE  SentOf(p, k, a, "none", h) = IF p = "server" THEN h + 1 ELSE h
<1>1. ~Delivering(p, k, a, "none")
  BY Zenon DEF Delivering
<1>2. "send" \in {"send", "recv"}
  OBVIOUS
<1>3. QED BY <1>1, <1>2, Zenon DEF SentOf

\* The turns when the message of p has been delivered.
LEMMA TurnsGiven ==
  ASSUME Good, NEW p \in Progs, NEW q \in Progs, q = Peer(p), Kind(p, call[p]) = "send",
         ~Given(Kind(p, call[p]), at[p], job[p]),
         Had(p)' = Had(p), Had(q)' = Had(q), Sent(p)' = Sent(p) + 1, Sent(q)' = Sent(q)
  PROVE  Turns' /\ Waiting(p)' = Waiting(p) /\ Waiting(q)' = Message(Had(q) + 1)
<1>1. /\ Had("server") \in Nat /\ Had("client") \in Nat /\ Sent("server") \in Int /\ Sent("client") \in Int
      /\ Had("server") <= Sent("client") /\ Sent("client") <= Had("client")
      /\ Had("client") <= Sent("server") /\ Sent("server") <= Had("server") + 1
  BY TurnsAre
<1>2. /\ Sent(p) = Had(q) /\ (p = "server" => Sent(p) = Had(p)) /\ (p = "client" => Sent(p) + 1 = Had(p))
  BY SendingNow
<1>3. Sent(p)' > Had(q)'
  <2>1. Had(q) \in Nat
    BY Now, Zenon DEF Typed
  <2>2. \A x \in Nat : x + 1 > x
    OBVIOUS
  <2>3. QED BY <1>2, <2>1, <2>2, Zenon
<1>4. Peer(p) = q /\ Peer(q) = p
  BY PeerIs
<1>5. Waiting(q)' = Message(Had(q) + 1)
  BY <1>3, <1>4, Zenon DEF Waiting, Message
<1>6. Waiting(p)' = Waiting(p)
  BY <1>4, Zenon DEF Waiting, Message
<1>7. Turns'
  <2>1. \A x \in Nat : x \in Int /\ x <= x + 1 /\ x + 1 <= x + 1
    OBVIOUS
  <2>2. CASE p = "server"
    <3>1. q = "client"
      BY <1>4, <2>2, ProgsAre
    <3>2. Had("client") <= Sent("server") + 1 /\ Sent("server") + 1 <= Had("server") + 1
      <4>1. Sent("server") = Had("client") /\ Sent("server") = Had("server")
        BY <1>2, <2>2, <3>1, Zenon
      <4>2. QED BY <1>1, <2>1, <4>1, Zenon
    <3>3. QED BY <1>1, <2>2, <3>1, <3>2, Zenon DEF Turns
  <2>3. CASE p = "client"
    <3>1. q = "server"
      BY <1>4, <2>3, ProgsAre
    <3>2. Had("server") <= Sent("client") + 1 /\ Sent("client") + 1 <= Had("client")
      <4>1. Sent("client") = Had("server") /\ Sent("client") + 1 = Had("client")
        BY <1>2, <2>3, <3>1, Zenon
      <4>2. \A x \in Nat : x <= x
        OBVIOUS
      <4>3. QED BY <1>1, <2>1, <4>1, <4>2, Zenon
    <3>3. QED BY <1>1, <2>3, <3>1, <3>2, Zenon DEF Turns
  <2>4. QED BY <2>2, <2>3, ProgsAre
<1>8. QED BY <1>5, <1>6, <1>7

LEMMA DataIs ==
  ASSUME NEW p \in Progs, EspData(p)
  PROVE  /\ job[p] = "data" /\ Len(cmds[p]) >= MsgLen /\ job' = [job EXCEPT ![p] = "none"]
         /\ cmds' = [cmds EXCEPT ![p] = SubSeq(cmds[p], MsgLen + 1, Len(cmds[p]))] /\ linked' = linked
         /\ wire' = [x \in Progs |->
              IF x = p THEN (wire[x] \o Line("Recv")) \o Line("SENT")
              ELSE wire[x] \o (IF linked THEN <<"eol", "+IPD">> \o SubSeq(cmds[p], 1, MsgLen) ELSE <<>>)]
BY DEF EspData

LEMMA DataWire ==
  ASSUME NEW p \in Progs, NEW q \in Progs, q # p, NEW f, NEW A, NEW B, NEW C, NEW y,
         y = [x \in Progs |-> IF x = p THEN (f[x] \o A) \o B ELSE f[x] \o C]
  PROVE  y[p] = (f[p] \o A) \o B /\ y[q] = f[q] \o C /\ y = [x \in Progs |-> y[x]]
OBVIOUS

\* The esp has the message and says so.
LEMMA SaysSent ==
  ASSUME NEW p \in Progs, NEW k \in Places(p), NEW u, NEW w, NEW W, NEW l, NEW s, NEW r,
         Said(p, k, u, w, W, l, s, r, 3), Len(W) = 0, Kind(p, k) = "send", p = "server" => k # 10
  PROVE  Said(p, k, u, (w \o Line("Recv")) \o Line("SENT"), W, l, s, r, 5)
<1>1. Len(Answer(p, k)) = 5 /\ Answer(p, k)[3 + 1] = "Recv" /\ Answer(p, k)[5] = "SENT"
  BY Answers
<1>2. PICK m, i, t, y : m = 3 /\ i = 5 /\ t = "Recv" /\ y = "SENT"
  OBVIOUS
<1>3. /\ i = m + 2 /\ i <= Len(Answer(p, k)) /\ t = Answer(p, k)[m + 1] /\ y = Answer(p, k)[i]
      /\ Said(p, k, u, w, W, l, s, r, m) /\ (p = "server" /\ k = 10 => ~l)
  <2>1. 5 = 3 + 2 /\ 5 <= 5
    OBVIOUS
  <2>2. QED BY <1>1, <1>2, <2>1, Zenon
<1>4. TwoMore(p, k, u, w, W, l, s, r, m, i, t, y)
  BY <1>3, Zenon DEF TwoMore
<1>5. TwoSaid(p, k, u, w, W, l, s, r, i, t, y)
  BY <1>4, SaysLines
<1>6. QED BY <1>2, <1>5, Zenon DEF TwoSaid

\* What is so when the esp has got the data.
LEMMA DataNow ==
  ASSUME Good, NEW p \in Progs, EspStep(p), EspData(p)
  PROVE  \E r \in Nat : \E g \in Seq(Tok) :
           /\ Reading(p, call[p], at[p], r) /\ at[p] >= 6 /\ at[p] \in Nat
           /\ Said(p, call[p], stream[p], wire[p], Waiting(p), linked, missed, r, 3) /\ Len(Waiting(p)) = 0
           /\ Kind(p, call[p]) = "send" /\ g = Messages[Sent(p) + 1] /\ Len(g) = MsgLen /\ MsgLen \in Nat
           /\ SubSeq(cmds[p], 1, MsgLen) = g /\ SubSeq(cmds[p], MsgLen + 1, Len(cmds[p])) = <<>>
           /\ ~Given(Kind(p, call[p]), at[p], job[p])
           /\ call[p] \in Places(p) /\ call[p] > (IF p = "server" THEN 16 ELSE 8) /\ call[p] \in Nat
           /\ Sent(p) + 1 \in 1 .. N
<1> DEFINE k == call[p]
           a == at[p]
<1>1. job[p] = "data" /\ Len(cmds[p]) >= MsgLen
  BY DataIs
<1>2. PICK r, m : /\ Reading(p, k, a, r) /\ Printed(p, k, a, job[p], cmds[p], Messages[Sent(p) + 1], m)
                  /\ Said(p, k, stream[p], wire[p], Waiting(p), linked, missed, r, m)
                  /\ r \in Nat /\ m \in Nat /\ r <= m /\ m <= Len(Answer(p, k))
  BY EspNow, Zenon
<1>3. k \in Places(p) /\ k \in Nat /\ a \in Nat
  BY Now, Zenon DEF Place, Typed
<1>4. PICK g : g = Messages[Sent(p) + 1]
  OBVIOUS
<1>5. Kind(p, k) = "send" /\ m = 3 /\ cmds[p] = (IF a >= 6 THEN g ELSE <<>>)
  <2>1. PICK j, c : j = job[p] /\ c = cmds[p]
    OBVIOUS
  <2>2. Printed(p, k, a, j, c, g, m) /\ j = "data"
    BY <1>1, <1>2, <1>4, <2>1, Zenon
  <2>3. Kind(p, k) = "send" /\ m = 3 /\ c = (IF a >= 6 THEN g ELSE <<>>)
    BY <1>3, <2>2, PrintedData
  <2>4. QED BY <2>1, <2>3, Zenon
<1>6. ~Given(Kind(p, k), a, job[p]) /\ job[p] # "none"
  <2>1. "data" # "none"
    OBVIOUS
  <2>2. QED BY <1>1, <2>1, Zenon DEF Given
<1>7. Sent(p) + 1 \in 1 .. N
  BY <1>5, <1>6, SendingNow
<1>8. g \in Seq(Tok) /\ Len(g) = MsgLen /\ MsgLen \in Nat /\ MsgLen > 0
  BY <1>4, <1>7, MessageShape
<1>9. a >= 6 /\ cmds[p] = g
  <2>1. ASSUME ~(a >= 6) PROVE FALSE
    <3>1. cmds[p] = <<>>
      BY <1>5, <2>1, Zenon
    <3>2. Len(<<>>) = 0
      OBVIOUS
    <3>3. 0 >= MsgLen
      BY <1>1, <3>1, <3>2, Zenon
    <3>4. QED BY <1>8, <3>3
  <2>2. QED BY <1>5, <2>1, Zenon
<1>10. SubSeq(g, 1, MsgLen) = g /\ SubSeq(g, MsgLen + 1, Len(g)) = <<>>
  <2>1. PICK n \in Nat : n = MsgLen
    BY <1>8
  <2>2. g \in Seq(Tok) /\ Len(g) = n
    BY <1>8, <2>1
  <2>3. SubSeq(g, 1, n) = g /\ SubSeq(g, n + 1, Len(g)) = <<>>
    BY <2>2, SubAll
  <2>4. QED BY <2>1, <2>3
<1>11. k \in 1 .. Len(esp_main(p))
  <2>1. "send" \in Commanding
    BY DEF Commanding
  <2>2. QED BY <1>3, <1>5, <2>1, AnswerLines
<1>12. k > (IF p = "server" THEN 16 ELSE 8)
  BY <1>5, <1>11, SendCall
<1>13. Len(Waiting(p)) = 0
  BY <1>6, BusyWaits
<1>14. QED BY <1>2, <1>3, <1>4, <1>5, <1>6, <1>7, <1>8, <1>9, <1>10, <1>12, <1>13, Zenon

LEMMA EspDataCore ==
  ASSUME Good, NEW p \in Progs, EspStep(p), EspData(p)
  PROVE  Core'
<1> DEFINE k == call[p]
           a == at[p]
           w == (wire[p] \o Line("Recv")) \o Line("SENT")
<1>1. PICK r \in Nat, g \in Seq(Tok) :
           /\ Reading(p, k, a, r) /\ a >= 6 /\ a \in Nat
           /\ Said(p, k, stream[p], wire[p], Waiting(p), linked, missed, r, 3) /\ Len(Waiting(p)) = 0
           /\ Kind(p, k) = "send" /\ g = Messages[Sent(p) + 1] /\ Len(g) = MsgLen /\ MsgLen \in Nat
           /\ SubSeq(cmds[p], 1, MsgLen) = g /\ SubSeq(cmds[p], MsgLen + 1, Len(cmds[p])) = <<>>
           /\ ~Given(Kind(p, k), a, job[p])
           /\ k \in Places(p) /\ k > (IF p = "server" THEN 16 ELSE 8) /\ k \in Nat
           /\ Sent(p) + 1 \in 1 .. N
  BY DataNow, Zenon
<1>2. PICK q \in Progs : q = Peer(p) /\ q # p
  BY PeerIs
<1>3. linked
  BY <1>1, SendLinked
<1>4. /\ job[p] = "data" /\ job' = [job EXCEPT ![p] = "none"] /\ cmds' = [cmds EXCEPT ![p] = <<>>] /\ linked' = linked
      /\ wire' = [x \in Progs |-> IF x = p THEN (wire[x] \o Line("Recv")) \o Line("SENT")
                                  ELSE wire[x] \o (<<"eol", "+IPD">> \o g)]
  <2>1. /\ job[p] = "data" /\ job' = [job EXCEPT ![p] = "none"]
        /\ cmds' = [cmds EXCEPT ![p] = SubSeq(cmds[p], MsgLen + 1, Len(cmds[p]))] /\ linked' = linked
        /\ wire' = [x \in Progs |->
             IF x = p THEN (wire[x] \o Line("Recv")) \o Line("SENT")
             ELSE wire[x] \o (IF linked THEN <<"eol", "+IPD">> \o SubSeq(cmds[p], 1, MsgLen) ELSE <<>>)]
    BY DataIs, Zenon
  <2>2. (IF linked THEN <<"eol", "+IPD">> \o SubSeq(cmds[p], 1, MsgLen) ELSE <<>>) = <<"eol", "+IPD">> \o g
    BY <1>1, <1>3, Zenon
  <2>3. QED BY <1>1, <2>1, <2>2, Zenon
<1>5. UNCHANGED <<call, at, missed, restarts, stream, fault, got>>
  BY EspMoves
<1>6. wire'[p] = w /\ wire'[q] = wire[q] \o (<<"eol", "+IPD">> \o g) /\ wire' = [x \in Progs |-> wire'[x]]
  <2>1. PICK A, B, C, f, y : A = Line("Recv") /\ B = Line("SENT") /\ C = <<"eol", "+IPD">> \o g /\ f = wire /\ y = wire'
    OBVIOUS
  <2>2. y = [x \in Progs |-> IF x = p THEN (f[x] \o A) \o B ELSE f[x] \o C]
    BY <1>4, <2>1, Zenon
  <2>3. y[p] = (f[p] \o A) \o B /\ y[q] = f[q] \o C /\ y = [x \in Progs |-> y[x]]
    BY <1>2, <2>2, DataWire
  <2>4. QED BY <2>1, <2>3, Zenon
<1>7. job'[p] = "none" /\ job'[q] = job[q] /\ cmds'[p] = <<>> /\ cmds'[q] = cmds[q]
  BY <1>2, <1>4, Functions1, ExceptIs
<1>8. /\ p = "client" => k > 8
      /\ p = "server" => k > 10 /\ k # 10 /\ k > 16
  BY <1>1
<1>9. call'[q] = call[q] /\ at'[q] = at[q] /\ stream'[q] = stream[q] /\ call'[p] = k /\ at'[p] = a
      /\ stream'[p] = stream[p] /\ got' = got /\ missed' = missed
  BY <1>5
<1>10. /\ Sent(p) = Had(q) /\ Sent(p) \in Nat /\ (p = "server" => Sent(p) = Had(p)) /\ (p = "client" => Sent(p) + 1 = Had(p))
       /\ Waiting(q) = <<>>
  BY <1>1, <1>2, SendingNow
<1>11. Had(p)' = Had(p) /\ Had(q)' = Had(q)
  BY <1>9, Zenon DEF Had
<1>12. Sent(q)' = Sent(q)
  BY <1>7, <1>9, <1>11, Zenon DEF Sent
<1>13. Sent(p)' = Sent(p) + 1
  <2>1. SentOf(p, k, a, "none", Had(p)) = IF p = "server" THEN Had(p) + 1 ELSE Had(p)
    BY <1>1, SentGiven
  <2>2. SentOf(p, k, a, "none", Had(p)) = Sent(p) + 1
    <3>1. CASE p = "server"
      BY <1>10, <2>1, <3>1, Zenon
    <3>2. CASE p = "client"
      <4>1. p # "server"
        BY <3>2
      <4>2. QED BY <1>10, <2>1, <3>2, <4>1, Zenon
    <3>3. QED BY <3>1, <3>2, ProgsAre
  <2>3. QED BY <1>7, <1>9, <1>11, <2>2, Zenon DEF Sent
<1>14. Turns' /\ Waiting(p)' = Waiting(p) /\ Waiting(q)' = Message(Had(q) + 1)
  BY <1>1, <1>2, <1>11, <1>12, <1>13, TurnsGiven DEF k, a
<1>15. Message(Had(q) + 1) = <<"+IPD">> \o g
  BY <1>1, <1>10, Zenon DEF Message
<1> HIDE DEF k, a, w
<1>16. Said(p, k, stream[p], w, Waiting(p), linked, missed, r, 5)
  BY <1>1, <1>8, SaysSent DEF w
<1>17. w \in Seq(Tok)
  BY <1>16, Zenon DEF Said
<1>18. /\ wire'[q] \in Seq(Tok)
       /\ Talks(q, call[q], at[q], job[q], cmds[q], stream[q] \o wire'[q], <<"+IPD">> \o g,
                Messages[Sent(q) + 1], linked, missed)
  <2>1. PICK n \in Nat : n = Len(g)
    BY <1>1
  <2>2. PICK v : v = wire'[q]
    OBVIOUS
  <2>3. v = wire[q] \o (<<"eol", "+IPD">> \o g)
    BY <1>6, <2>2
  <2>4. /\ v \in Seq(Tok)
        /\ Talks(q, call[q], at[q], job[q], cmds[q], stream[q] \o v, <<"+IPD">> \o g,
                 Messages[Sent(q) + 1], linked, missed)
    BY <1>10, <2>1, <2>3, PeerGets
  <2>5. QED BY <2>2, <2>4, Zenon
<1>19. Types'
  <2>1. UNCHANGED <<stream, fault, got>>
    BY <1>5
  <2>2. PICK c, j : c = <<>> /\ j = "none"
    OBVIOUS
  <2>3. /\ c \in Seq(Tok) /\ cmds' \in {cmds, [cmds EXCEPT ![p] = c]}
        /\ j \in Commands \cup {"none", "boot", "data"} /\ job' = [job EXCEPT ![p] = j]
        /\ wire' = [x \in Progs |-> wire'[x]] /\ wire'[p] \in Seq(Tok) /\ wire'[q] \in Seq(Tok)
    <3>1. c \in Seq(Tok) /\ j \in Commands \cup {"none", "boot", "data"}
      BY <2>2
    <3>2. cmds' \in {cmds, [cmds EXCEPT ![p] = c]} /\ job' = [job EXCEPT ![p] = j]
      BY <1>4, <2>2, Zenon
    <3>3. wire'[p] \in Seq(Tok)
      BY <1>6, <1>17, Zenon
    <3>4. QED BY <1>6, <1>18, <3>1, <3>2, <3>3, Zenon
  <2>4. QED BY <1>2, <2>1, <2>3, TypesWires
<1>20. Own(p)'
  <2>1. Printed(p, k, a, "none", <<>>, Messages[Sent(p)' + 1], 5)
    <3>1. Len(Answer(p, k)) = 5 /\ Kind(p, k) = "send"
      BY <1>1, Answers
    <3>2. "send" \in Commanding
      BY DEF Commanding
    <3>3. a >= 2
      BY <1>1
    <3>4. QED BY <1>1, <3>1, <3>2, <3>3, Zenon DEF Printed
  <2>2. 5 \in Nat
    OBVIOUS
  <2>3. Talks(p, k, a, "none", <<>>, stream[p] \o w, Waiting(p), Messages[Sent(p)' + 1], linked, missed)
    BY <1>1, <1>16, <2>1, <2>2, Zenon DEF Talks, Said
  <2>4. QED BY <1>4, <1>6, <1>7, <1>9, <1>14, <2>3, Zenon DEF Own, Input
<1>21. Own(q)'
  BY <1>4, <1>7, <1>9, <1>12, <1>14, <1>15, <1>18, Zenon DEF Own, Input
<1>22. \A x \in Progs : x = p \/ x = q
  BY <1>2 DEF Progs, Peer
<1>23. Counts'
  <2>1. \A x \in Progs : Place(x, call'[x], Had(x)')
    <3>1. Place(p, k, Had(p)) /\ Place(q, call[q], Had(q))
      BY Now, Zenon DEF k
    <3>2. QED BY <1>9, <1>11, <1>22, <3>1, Zenon
  <2>2. QED BY <2>1, MadeCounts, ProgsAre
<1>24. Received'
  <2>1. Received
    BY DEF Good, Core
  <2>2. QED BY <1>9, <2>1, Zenon DEF Received, Had
<1>25. Linking'
  <2>1. p = "client" => (LinkedOf(k, a, "none", <<>>) <=> LinkedOf(k, a, job[p], cmds[p]))
    BY <1>8, Zenon DEF LinkedOf
  <2>2. p = "server" => UpOf(k, a, "none")
    BY <1>8, Zenon DEF UpOf
  <2>3. call[p] = k /\ at[p] = a
    BY DEF k, a
  <2>4. p \in Progs /\ q \in Progs /\ q = Peer(p)
    BY <1>2, Zenon
  <2>5. call'[q] = call[q] /\ at'[q] = at[q] /\ job'[q] = job[q] /\ cmds'[q] = cmds[q] /\ linked' = linked
    BY <1>4, <1>7, <1>9, Zenon
  <2>6. p = "client" =>
           /\ LinkedOf(call'[p], at'[p], job'[p], cmds'[p]) <=> LinkedOf(call[p], at[p], job[p], cmds[p])
           /\ AskedOf(call'[p], at'[p]) => AskedOf(call[p], at[p]) \/ ServerUp
    BY <1>7, <1>9, <2>1, <2>3, Zenon
  <2>7. p = "server" =>
           /\ UpOf(call[p], at[p], job[p]) => UpOf(call'[p], at'[p], job'[p])
           /\ call'[p] > 16 => call[p] > 16 \/ linked
    BY <1>7, <1>8, <1>9, <2>2, <2>3, Zenon
  <2>8. QED BY <2>4, <2>5, <2>6, <2>7, LinkStep, Zenon
<1>26. \A x \in Progs : Own(x)'
  BY <1>20, <1>21, <1>22, Zenon
<1>27. QED BY <1>14, <1>19, <1>23, <1>24, <1>25, <1>26, Zenon DEF Core

-----------------------------------------------------------------------------
(* The invariant.                                                          *)

LEMMA StepCore ==
  ASSUME Good, NEW p \in Progs, Step(p)
  PROVE  Core'
<1>1. \/ Eat(p, Op(p)) \/ Puts(p, Op(p)) \/ Data(p, Op(p)) \/ Ack(p, Op(p))
      \/ Expect(p, Op(p)) \/ Prompt(p, Op(p)) \/ Recv(p, Op(p))
  BY Zenon DEF Step
<1>2. QED BY <1>1, EatCore, PutsCore, DataCore, LineCore, PromptCore, RecvCore

LEMMA EspStepCore ==
  ASSUME Good, NEW p \in Progs, EspStep(p)
  PROVE  Core'
<1>1. EspData(p) \/ EspTake(p) \/ EspBusy(p) \/ EspDone(p) \/ EspBoot(p)
  BY Zenon DEF EspStep
<1>2. QED BY <1>1, EspDataCore, EspTakeCore, NeverBusy, EspDoneCore, EspBootCore

LEMMA SameCore ==
  ASSUME Core, UNCHANGED vars
  PROVE  Core'
<1>1. /\ call' = call /\ at' = at /\ stream' = stream /\ fault' = fault /\ got' = got /\ wire' = wire
      /\ cmds' = cmds /\ job' = job /\ linked' = linked /\ missed' = missed
  BY DEF vars, pc
<1>2. Types' <=> Types
  BY <1>1, Zenon DEF Types
<1>3. Turns' <=> Turns
  BY <1>1, Zenon DEF Turns, Sent, Had
<1>4. Counts' <=> Counts
  BY <1>1, Zenon DEF Counts, Had
<1>5. Received' <=> Received
  BY <1>1, Zenon DEF Received, Had
<1>6. Linking' <=> Linking
  BY <1>1, Zenon DEF Linking, LinkDone, Asked, ServerUp
<1>7. \A p \in Progs : Own(p)' <=> Own(p)
  BY <1>1, Zenon DEF Own, Input, Waiting, Sent, Had
<1>8. QED BY <1>2, <1>3, <1>4, <1>5, <1>6, <1>7, Zenon DEF Core

LEMMA NextCore ==
  ASSUME Good, [Next]_vars, restarts' = 0
  PROVE  Core'
<1>1. CASE UNCHANGED vars
  BY <1>1, SameCore DEF Good
<1>2. ASSUME NEW p \in Progs, Restart(p) PROVE FALSE
  <2>1. restarts \in Nat /\ restarts' = restarts + 1
    BY <1>2, EspAssumption DEF Restart, Good, TypeOK
  <2>2. QED BY <2>1
<1>3. CASE Work
  <2>1. PICK p \in Progs : Readin(p) \/ Step(p) \/ EspStep(p)
    BY <1>3 DEF Work
  <2>2. QED BY <2>1, ReadinCore, StepCore, EspStepCore
<1>4. QED BY <1>1, <1>2, <1>3, Zenon DEF Next

LEMMA InitCore ==
  ASSUME Init
  PROVE  Shape /\ Core
<1>1. /\ call = [p \in Progs |-> 1] /\ at = [p \in Progs |-> 1] /\ stream = [p \in Progs |-> <<>>]
      /\ fault = [p \in Progs |-> "none"] /\ got = [p \in Progs |-> <<>>]
      /\ wire = [p \in Progs |-> <<>>] /\ cmds = [p \in Progs |-> <<>>]
      /\ job = [p \in Progs |-> "none"]
      /\ linked = FALSE /\ restarts = 0 /\ busies = 0 /\ missed = FALSE /\ disturbed = FALSE
  BY DEF Init
<1>2. "server" \in Progs /\ "client" \in Progs
  BY ProgsAre
<1>3. Types
  <2>1. <<>> \in Seq(Tok) /\ <<>> \in Seq(Seq(Tok))
    OBVIOUS
  <2>2. QED BY <1>1, <2>1 DEF Types
<1>4. \A p \in Progs : /\ call[p] = 1 /\ at[p] = 1 /\ stream[p] = <<>> /\ wire[p] = <<>> /\ cmds[p] = <<>>
                       /\ job[p] = "none" /\ got[p] = <<>>
  BY <1>1
<1>5. \A p \in Progs : Had(p) = 0
  <2>1. Len(<<>>) = 0
    OBVIOUS
  <2>2. QED BY <1>4, <2>1, Zenon DEF Had
<1>6. \A p \in Progs : Kind(p, 1) = "eat"
  <2>1. 1 \in Int
    OBVIOUS
  <2>2. QED BY <2>1, FirstKinds, Zenon
<1>7. \A p \in Progs : Sent(p) = 0
  <2>1. "eat" # "send" /\ "eat" # "recv" /\ "eat" \notin {"send", "recv"}
    OBVIOUS
  <2>2. QED BY <1>4, <1>5, <1>6, <2>1, Zenon DEF Sent, SentOf, Delivering
<1>8. \A p \in Progs : Waiting(p) = <<>>
  <2>1. ~(0 > 0)
    OBVIOUS
  <2>2. QED BY <1>5, <1>7, <2>1, PeerIs, Zenon DEF Waiting
<1>9. Turns
  <2>1. 0 <= 0 /\ 0 <= 0 + 1
    OBVIOUS
  <2>2. QED BY <1>2, <1>5, <1>7, <2>1, Zenon DEF Turns
<1>10. Counts
  <2>1. ~(1 > 16) /\ ~(1 > 8)
    OBVIOUS
  <2>2. QED BY <1>2, <1>4, <1>5, <2>1, Zenon DEF Counts
<1>11. Received
  <2>1. \A i \in 1 .. 0 : FALSE
    OBVIOUS
  <2>2. QED BY <1>5, <2>1, Zenon DEF Received
<1>12. Linking
  <2>1. ~(1 > 16) /\ ~(1 > 8) /\ 1 # 8 /\ ~(1 > 10) /\ 1 # 10
    OBVIOUS
  <2>2. QED BY <1>1, <1>2, <1>4, <2>1, Zenon DEF Linking, LinkDone, LinkedOf, Asked, AskedOf
<1>13. ASSUME NEW p \in Progs PROVE ShapeOf(p, 1, 1) /\ 1 \in Places(p)
  <2>1. ShapeOf(p, 1, 1)
    BY ShapeFirst
  <2>2. QED BY <2>1, Zenon DEF ShapeOf
<1>14. ASSUME NEW p \in Progs PROVE Own(p)
  <2>1. Len(Input(p)) = 0
    <3>1. <<>> \o <<>> = <<>> /\ Len(<<>>) = 0
      OBVIOUS
    <3>2. QED BY <1>4, <3>1, Zenon DEF Input
  <2>2. PICK k \in Nat : k = 1 /\ ~(k > 16)
    OBVIOUS
  <2>3. Len(Answer(p, k)) \in Nat
    BY <1>13, <2>2, AnswerLines
  <2>4. PICK I, W, l, s : I = Input(p) /\ W = Waiting(p) /\ l = linked /\ s = missed
    OBVIOUS
  <2>5. Len(I) = 0 /\ Len(W) = 0 /\ ~l
    <3>1. Len(<<>>) = 0
      OBVIOUS
    <3>2. QED BY <1>1, <1>8, <2>1, <2>4, <3>1, Zenon
  <2>6. p = "server" /\ l => k > 16
    BY <2>5
  <2>7. Staged(p, k, I, W, l, s, 0, 0)
    BY <2>3, <2>5, <2>6, EmptyStaged
  <2>8. Talks(p, k, 1, "none", <<>>, I, W, Messages[Sent(p) + 1], l, s)
    BY <2>7, Begun
  <2>9. QED BY <1>4, <2>2, <2>4, <2>8, Zenon DEF Own
<1>15. Core
  BY <1>3, <1>9, <1>10, <1>11, <1>12, <1>14, Zenon DEF Core
<1>16. TypeOK
  <2>1. ASSUME NEW p \in Progs
        PROVE  call[p] \in 1 .. Len(esp_main(p)) + 1 /\ at[p] \in IF Ended(p) THEN {1} ELSE DOMAIN esp_main(p)[call[p]]
    BY <1>4, <1>13, Zenon DEF ShapeOf, Places, Ended, Call
  <2>2. {linked, missed, disturbed} \subseteq BOOLEAN
    BY <1>1
  <2>3. restarts \in 0 .. MaxRestart /\ busies \in 0 .. MaxBusy
    BY <1>1, EspAssumption
  <2>4. QED BY <2>1, <2>2, <2>3, Zenon DEF TypeOK
<1>17. call \in [Progs -> Nat] /\ at \in [Progs -> Nat]
  BY <1>1
<1>18. QED BY <1>15, <1>16, <1>17, Zenon DEF Shape

\* While no program is restarted, every esp has printed, and every program has
\* read, a beginning of its command's answer; the rest of the input is ends of
\* lines, the connection of the server and the message that waits; messages go
\* to and fro by turns (esp-parse.c, esp.c, server.c, client.c).
THEOREM Invariance == Spec => []IInv
<1>1. Init => IInv
  BY InitCore, Zenon DEF IInv, Shape
<1>2. IInv /\ [Next]_vars => IInv'
  <2> SUFFICES ASSUME IInv, [Next]_vars PROVE IInv'
    OBVIOUS
  <2>1. Shape
    BY Zenon DEF IInv, Shape
  <2>2. Shape'
    BY <2>1, ShapeStays
  <2>3. ASSUME restarts' = 0 PROVE Core'
    <3>1. restarts = 0
      <4>1. restarts \in Nat
        BY <2>1, EspAssumption DEF Shape, TypeOK
      <4>2. restarts' = restarts \/ restarts' = restarts + 1
        <5>1. CASE UNCHANGED vars
          BY <5>1 DEF vars
        <5>2. CASE Next
          <6>1. CASE \E p \in Progs : Restart(p)
            BY <6>1 DEF Restart
          <6>2. CASE Work
            <7>1. PICK p \in Progs : Readin(p) \/ Step(p) \/ EspStep(p)
              BY <6>2 DEF Work
            <7>2. QED BY <7>1 DEF Readin, Step, EspStep
          <6>3. QED BY <5>2, <6>1, <6>2, Zenon DEF Next
        <5>3. QED BY <5>1, <5>2
      <4>3. QED BY <2>3, <4>1, <4>2
    <3>2. Good
      BY <3>1, Zenon DEF IInv, Good
    <3>3. QED BY <2>3, <3>2, NextCore
  <2>4. QED BY <2>2, <2>3, Zenon DEF IInv, Shape
<1>3. QED BY <1>1, <1>2, PTL DEF Spec

-----------------------------------------------------------------------------
(* The properties.                                                         *)

LEMMA NowGood ==
  ASSUME IInv, restarts = 0
  PROVE  Good
BY Zenon DEF IInv, Good

LEMMA CmdsBound ==
  ASSUME Good, NEW p \in Progs
  PROVE  Len(cmds[p]) <= (IF job[p] = "data" THEN MsgLen ELSE 2)
<1> DEFINE k == call[p]
           a == at[p]
           g == Messages[Sent(p) + 1]
<1>1. PICK r, m : /\ Reading(p, k, a, r) /\ Printed(p, k, a, job[p], cmds[p], g, m)
                  /\ Said(p, k, stream[p], wire[p], Waiting(p), linked, missed, r, m)
                  /\ r \in Nat /\ m \in Nat /\ r <= m /\ m <= Len(Answer(p, k))
  BY EspNow, Zenon
<1>2. k \in Places(p)
  BY Now, Zenon DEF Place
<1>3. Len(<<>>) = 0 /\ 0 <= 2 /\ 2 <= 2
  OBVIOUS
<1>4. MsgLen \in Nat
  BY EspAssumption
<1>5. 0 <= MsgLen /\ MsgLen <= MsgLen
  BY <1>4
<1>6. \A x : Len(<<x, "eol">>) = 2
  OBVIOUS
<1>7. CASE job[p] = "data"
  <2>1. Kind(p, k) = "send" /\ m = 3 /\ cmds[p] = (IF a >= 6 THEN g ELSE <<>>)
    <3>1. PICK j, c : j = job[p] /\ c = cmds[p]
      OBVIOUS
    <3>2. Printed(p, k, a, j, c, g, m) /\ j = "data"
      BY <1>1, <1>7, <3>1, Zenon
    <3>3. Kind(p, k) = "send" /\ m = 3 /\ c = (IF a >= 6 THEN g ELSE <<>>)
      BY <1>2, <3>2, PrintedData
    <3>4. QED BY <3>1, <3>3, Zenon
  <2>2. Len(g) = MsgLen
    <3>1. "data" # "none"
      OBVIOUS
    <3>2. ~Given(Kind(p, k), a, job[p])
      BY <1>7, <3>1, Zenon DEF Given
    <3>3. Sent(p) + 1 \in 1 .. N
      BY <2>1, <3>2, SendingNow
    <3>4. QED BY <3>3, MessageShape
  <2>3. QED BY <1>3, <1>5, <1>7, <2>1, <2>2, Zenon
<1>8. CASE job[p] # "data"
  <2>1. cmds[p] = <<>> \/ cmds[p] = <<Cmd(p, k), "eol">>
    BY <1>1, <1>8, Zenon DEF Printed
  <2>2. QED BY <1>3, <1>6, <1>8, <2>1, Zenon
<1>9. QED BY <1>7, <1>8

\* When a program writes a command, everything before was read.
LEMMA AllReadNow ==
  ASSUME Good, NEW p \in Progs, ~Ended(p), Op(p)[1] = "puts"
  PROVE  job[p] = "none" /\ \A t \in Range(stream[p] \o wire[p]) : t = "eol" \/ (p = "server" /\ t = "CONNECT")
<1> DEFINE k == call[p]
           a == at[p]
           n == Len(Call(p, k))
           o == Op(p)
           g == Messages[Sent(p) + 1]
<1>1. OpShape(Kind(p, k), a, n, o, Cmd(p, k), Extra(p, k))
  BY OpNow, Zenon
<1>2. Kind(p, k) \in Commanding /\ a = 1
  <2>1. /\ "puts" # "ack" /\ "puts" # "expect" /\ "puts" # "ready" /\ "puts" # "prompt"
        /\ "puts" # "data" /\ "puts" # "conn" /\ "puts" # "recv" /\ "puts" # "eat"
        /\ "reset" \in Commanding /\ "at" \in Commanding /\ "link" \in Commanding /\ "send" \in Commanding
    BY DEF Commanding
  <2>2. QED BY <1>1, <2>1, Zenon DEF OpShape, ResetOp, AtOp, LinkOp, SendOp, SingleOp
<1>3. PICK r, m : /\ Reading(p, k, a, r) /\ Printed(p, k, a, job[p], cmds[p], g, m)
                  /\ Said(p, k, stream[p], wire[p], Waiting(p), linked, missed, r, m)
                  /\ r \in Nat /\ m \in Nat /\ r <= m /\ m <= Len(Answer(p, k))
  BY EspNow, Zenon
<1>4. r = 0 /\ m = 0 /\ job[p] = "none"
  <2>1. 1 <= 2 /\ ~(1 >= 2)
    OBVIOUS
  <2>2. QED BY <1>2, <1>3, <2>1, Zenon DEF Reading, Printed
<1>5. Len(Waiting(p)) = 0
  <2>1. Kind(p, k) # "recv" /\ ~(1 >= 6) /\ ~(1 >= 2)
    BY <1>2 DEF Commanding
  <2>2. ~Awaits(p)
    BY <1>2, <2>1, Zenon DEF Awaits, Given
  <2>3. QED BY <2>2, WaitingNow
<1> HIDE DEF k, a, n, o, g
<1>6. stream[p] \in Seq(Tok) /\ wire[p] \in Seq(Tok) /\ Staged(p, k, stream[p] \o wire[p], Waiting(p), linked, missed, r, m)
  BY <1>3, Zenon DEF Said
<1>7. PICK I, W, l, s, u, w : I = u \o w /\ W = Waiting(p) /\ l = linked /\ s = missed /\ u = stream[p] /\ w = wire[p]
  OBVIOUS
<1>8. u \in Seq(Tok) /\ w \in Seq(Tok)
  BY <1>6, <1>7
<1>9. I \in Seq(Tok)
  <2>1. u \o w \in Seq(Tok)
    BY <1>8, Joined
  <2>2. QED BY <1>7, <2>1
<1>10. Staged(p, k, I, W, l, s, m, m) /\ Len(I) \in Nat /\ Len(W) = 0
  <2>1. Len(I) \in Nat
    BY <1>9
  <2>2. QED BY <1>4, <1>5, <1>6, <1>7, <2>1, Zenon
<1>11. \A i \in 1 .. Len(I) : I[i] = "eol" \/ (p = "server" /\ I[i] = "CONNECT")
  BY <1>10, AllRead
<1>12. \A t \in Range(I) : t = "eol" \/ (p = "server" /\ t = "CONNECT")
  <2>1. DOMAIN I = 1 .. Len(I)
    BY <1>9
  <2>2. QED BY <1>11, <2>1, Zenon DEF Range
<1>13. QED BY <1>4, <1>7, <1>12, Zenon

\* However the input is cut up, at every command the conversation is in step,
\* and programs nobody restarts never panic (cmd_ack, cmd_response, match_eol).
THEOREM StaysInStep == Spec => []InStep
<1>1. IInv => InStep
  <2> SUFFICES ASSUME IInv PROVE InStep
    OBVIOUS
  <2>1. TypeOK
    BY DEF IInv
  <2>2. ASSUME restarts = 0, NEW p \in Progs
        PROVE  /\ fault[p] = "none" /\ Len(cmds[p]) <= (IF job[p] = "data" THEN MsgLen ELSE 2)
               /\ (~Ended(p) /\ Op(p)[1] = "puts") =>
                    /\ job[p] = "none"
                    /\ \A t \in Range(stream[p] \o wire[p]) : t = "eol" \/ (p = "server" /\ t = "CONNECT")
    <3>1. Good
      BY <2>2, NowGood
    <3>2. fault[p] = "none"
      BY <3>1, Now, Zenon DEF Typed
    <3>3. Len(cmds[p]) <= (IF job[p] = "data" THEN MsgLen ELSE 2)
      BY <3>1, CmdsBound
    <3>4. ASSUME ~Ended(p), Op(p)[1] = "puts"
          PROVE  job[p] = "none" /\ \A t \in Range(stream[p] \o wire[p]) : t = "eol" \/ (p = "server" /\ t = "CONNECT")
      BY <3>1, <3>4, AllReadNow
    <3>5. QED BY <3>2, <3>3, <3>4, Zenon
  <2>3. QED BY <2>1, <2>2, Zenon DEF InStep
<1>2. QED BY <1>1, Invariance, PTL

LEMMA PrefixIs ==
  ASSUME NEW S, NEW s \in Seq(S), NEW t \in Seq(S), Len(s) <= Len(t), \A i \in 1 .. Len(s) : s[i] = t[i]
  PROVE  IsPrefix(s, t)
<1>1. Len(s) \in Nat /\ Len(t) \in Nat
  OBVIOUS
<1>2. SubSeq(s, 1, Len(s)) = SubSeq(t, 1, Len(s))
  <2>1. /\ SubSeq(s, 1, Len(s)) = [i \in 1 .. Len(s) |-> s[i]]
        /\ SubSeq(t, 1, Len(s)) = [i \in 1 .. Len(s) |-> t[i]]
    BY <1>1
  <2>2. QED BY <2>1
<1>3. QED BY <1>2 DEF IsPrefix

\* Messages arrive whole, once and in order, and come back so (esp_send, esp_is_recv).
THEOREM MessagesArrive == Spec => []PingPong
<1>1. IInv => PingPong
  <2> SUFFICES ASSUME IInv, restarts = 0 PROVE IsPrefix(got["client"], Messages) /\ IsPrefix(got["server"], got["client"])
    BY DEF PingPong
  <2>1. Good
    BY NowGood
  <2>2. "server" \in Progs /\ "client" \in Progs
    BY ProgsAre
  <2>3. PICK x, y : x = got["client"] /\ y = got["server"]
    OBVIOUS
  <2>4. x \in Seq(Seq(Tok)) /\ y \in Seq(Seq(Tok)) /\ Had("client") = Len(x) /\ Had("server") = Len(y)
    BY <2>1, <2>2, <2>3, Now, Zenon DEF Typed, Had
  <2>5. Messages \in Seq(Seq(Tok))
    <3>1. \A i \in 1 .. N : Messages[i] \in Seq(Tok)
      BY MessageShape
    <3>2. Messages \in Seq(Range(Messages))
      BY EspAssumption
    <3>3. PICK S : S = Range(Messages)
      OBVIOUS
    <3>4. Messages \in Seq(S)
      BY <3>2, <3>3
    <3>5. QED BY <3>1, <3>4 DEF N
  <2>6. Len(x) <= N /\ Len(y) <= Len(x)
    <3>1. ClientAt(call["client"], Had("client"), Kind("client", call["client"]))
      BY <2>1, <2>2, Now, ClientIsAt, Zenon
    <3>2. Had("client") <= N
      <4>1. \A h \in Nat : (h = 0 \/ h \in 1 .. N \/ h + 1 \in 1 .. N \/ h = N) => h <= N
        BY NType
      <4>2. Had("client") \in Nat
        BY <2>1, <2>2, Now, Zenon DEF Typed
      <4>3. Had("client") = 0 \/ Had("client") \in 1 .. N \/ Had("client") + 1 \in 1 .. N \/ Had("client") = N
        BY <3>1, Zenon DEF ClientAt
      <4>4. QED BY <4>1, <4>2, <4>3, Zenon
    <3>3. Had("server") <= Had("client")
      <4>1. /\ Had("server") \in Nat /\ Had("client") \in Nat /\ Sent("client") \in Int
            /\ Had("server") <= Sent("client") /\ Sent("client") <= Had("client")
        BY <2>1, TurnsAre
      <4>2. \A u, v \in Nat : \A w \in Int : u <= w /\ w <= v => u <= v
        OBVIOUS
      <4>3. QED BY <4>1, <4>2, Zenon
    <3>4. QED BY <2>4, <3>2, <3>3, Zenon
  <2>7. /\ \A i \in 1 .. Len(x) : x[i] = Messages[i]
        /\ \A i \in 1 .. Len(y) : y[i] = Messages[i]
    BY <2>1, <2>2, <2>3, <2>4, Zenon DEF Good, Core, Received
  <2>8. IsPrefix(x, Messages)
    BY <2>4, <2>5, <2>6, <2>7, PrefixIs DEF N
  <2>9. \A i \in 1 .. Len(y) : y[i] = x[i]
    <3>1. \A i \in 1 .. Len(y) : i \in 1 .. Len(x)
      <4>1. Len(x) \in Nat /\ Len(y) \in Nat
        BY <2>4
      <4>2. QED BY <2>6, <4>1
    <3>2. QED BY <2>7, <3>1, Zenon
  <2>10. IsPrefix(y, x)
    BY <2>4, <2>6, <2>9, PrefixIs
  <2>11. QED BY <2>3, <2>8, <2>10
<1>2. QED BY <1>1, Invariance, PTL

-----------------------------------------------------------------------------
(* Nobody waits for ever.                                                  *)

LEMMA LineThere ==
  ASSUME NEW S, NEW s \in Seq(S), NEW i \in 1 .. Len(s), s[i] # "eol"
  PROVE  /\ Body(s) # <<>>
         /\ i + 1 \in 1 .. Len(s) /\ s[i + 1] = "eol" => LineEnd(Body(s)) > 0
<1>1. PICK q \in 1 .. Len(s) : FirstAt(s, q)
  BY BodyOr
<1>2. PICK b : b = Body(s)
  OBVIOUS
<1>3. b = SubSeq(s, q, Len(s))
  BY <1>1, <1>2, BodyIs
<1>4. /\ b \in Seq(S) /\ Len(s) \in Nat /\ Len(b) = Len(s) - q + 1
      /\ \A j \in 1 .. Len(s) - q + 1 : b[j] = s[q + j - 1]
  BY <1>3, Rest
<1>5. q <= i
  <2>1. \A k \in 1 .. q - 1 : s[k] = "eol"
    BY <1>1 DEF FirstAt
  <2>2. QED BY <1>4, <2>1
<1>6. b # <<>>
  <2>1. Len(b) # 0
    BY <1>4
  <2>2. QED BY <2>1
<1>7. ASSUME i + 1 \in 1 .. Len(s), s[i + 1] = "eol" PROVE LineEnd(b) > 0
  <2>1. PICK j \in 1 .. Len(b) : j = (i + 1) - q + 1
    BY <1>4, <1>5, <1>7
  <2>2. b[j] = "eol"
    <3>1. q + j - 1 = i + 1 /\ j \in 1 .. Len(s) - q + 1
      BY <1>4, <2>1
    <3>2. QED BY <1>4, <1>7, <3>1, Zenon
  <2>3. PICK e \in 1 .. Len(b) : LineEnd(b) = e
    BY <1>4, <2>1, <2>2, LineEndOr
  <2>4. Len(b) \in Nat
    BY <1>4
  <2>5. e > 0
    BY <2>4
  <2>6. QED BY <2>3, <2>5
<1>8. QED BY <1>2, <1>6, <1>7

LEMMA EnoughIs ==
  ASSUME NEW o, NEW s
  PROVE  /\ o[1] \in {"puts", "eat", "data"} => Enough(o, s)
         /\ o[1] \in LineOps /\ LineEnd(Body(s)) > 0 => Enough(o, s)
         /\ o[1] = "prompt" /\ Body(s) # <<>> => Enough(o, s)
         /\ o[1] = "recv" /\ Body(s) # <<>> /\ Len(Body(s)) > MsgLen => Enough(o, s)
<1>1. o[1] \in {"puts", "eat", "data"} => Enough(o, s)
  <2>1. ASSUME o[1] \in {"puts", "eat", "data"} PROVE Enough(o, s)
    <3>1. o[1] # "prompt" /\ o[1] # "recv"
      BY <2>1
    <3>2. QED BY <2>1, <3>1, Zenon DEF Enough
  <2>2. QED BY <2>1
<1>2. o[1] \in LineOps /\ LineEnd(Body(s)) > 0 => Enough(o, s)
  <2>1. ASSUME o[1] \in LineOps, LineEnd(Body(s)) > 0 PROVE Enough(o, s)
    <3>1. o[1] # "prompt" /\ o[1] # "recv" /\ o[1] \notin {"puts", "eat", "data"}
      BY <2>1 DEF LineOps
    <3>2. QED BY <2>1, <3>1, Zenon DEF Enough
  <2>2. QED BY <2>1
<1>3. o[1] = "prompt" /\ Body(s) # <<>> => Enough(o, s)
  <2>1. ASSUME o[1] = "prompt", Body(s) # <<>> PROVE Enough(o, s)
    <3>1. o[1] # "recv" /\ o[1] \notin {"puts", "eat", "data"}
      BY <2>1
    <3>2. QED BY <2>1, <3>1, Zenon DEF Enough, PromptCame
  <2>2. QED BY <2>1
<1>4. o[1] = "recv" /\ Body(s) # <<>> /\ Len(Body(s)) > MsgLen => Enough(o, s)
  <2>1. ASSUME o[1] = "recv", Body(s) # <<>>, Len(Body(s)) > MsgLen PROVE Enough(o, s)
    <3>1. o[1] # "prompt" /\ o[1] \notin {"puts", "eat", "data"}
      BY <2>1
    <3>2. QED BY <2>1, <3>1, Zenon DEF Enough
  <2>2. QED BY <2>1
<1>5. QED BY <1>1, <1>2, <1>3, <1>4

\* An idle esp has said more than its program has read, unless that has nothing to read.
IdleAt(kind, a, j, c) == (j = "none" /\ c = <<>>) \/ (kind = "send" /\ j = "data" /\ ~(a >= 6))
LEMMA BehindIdle ==
  ASSUME NEW p \in Progs, NEW k \in 1 .. Len(esp_main(p)), NEW a \in DOMAIN Call(p, k), NEW j, NEW c, NEW g,
         NEW r \in Nat, NEW m \in Nat, Kind(p, k) \in Commanding, a \in Nat,
         Reading(p, k, a, r), Printed(p, k, a, j, c, g, m), IdleAt(Kind(p, k), a, j, c)
  PROVE  \/ Call(p, k)[a][1] \in {"puts", "data"}
         \/ Call(p, k)[a][1] = "prompt" /\ r < m
         \/ Call(p, k)[a][1] \in LineOps /\ r < m /\ Answer(p, k)[r + 1] # ">"
<1> DEFINE o == Call(p, k)[a]
           n == Len(Call(p, k))
           T == Answer(p, k)
<1>1. OpShape(Kind(p, k), a, n, o, Cmd(p, k), Extra(p, k))
  BY OpIs
<1>2. k \in Places(p) /\ Cmd(p, k) \notin {"none", "boot", "data", "eol"}
  <2>1. k \in Places(p)
    BY Sizes DEF Places
  <2>2. QED BY <2>1, AnswerLines
<1>3. /\ "puts" # "data" /\ "none" # "boot" /\ "none" # "data" /\ "data" # "boot"
      /\ "ack" \in LineOps /\ "expect" \in LineOps /\ "ready" \in LineOps
      /\ "puts" \in {"puts", "data"} /\ "data" \in {"puts", "data"}
      /\ "reset" # "send" /\ "at" # "send" /\ "link" # "send" /\ "reset" # "at" /\ "reset" # "link" /\ "at" # "link"
  BY DEF LineOps
<1>4. Len(T) \in Nat /\ \A i \in 1 .. Len(T) : T[i] = ">" <=> (Kind(p, k) = "send" /\ i = 3)
  BY <1>2, AnswerLines
<1> HIDE DEF o, n, T
<1>5. CASE a = 1
  <2>1. 1 # 2 /\ 1 # 3 /\ 1 # 4 /\ 1 # 5 /\ 1 # 6 /\ 1 # 7
    OBVIOUS
  <2>2. o[1] = "puts"
    BY <1>1, <1>5, <2>1, Zenon DEF OpShape, ResetOp, AtOp, LinkOp, SendOp
  <2>3. QED BY <1>3, <2>2, Zenon DEF o
<1>6. CASE a # 1 /\ Kind(p, k) # "send"
  <2>1. j = "none" /\ c = <<>>
    BY <1>6, Zenon DEF IdleAt
  <2>2. m = Len(T)
    <3>1. \A y : c # <<y, "eol">>
      <4>1. \A y : <<>> # <<y, "eol">>
        OBVIOUS
      <4>2. QED BY <2>1, <4>1
    <3>2. QED BY <1>2, <1>3, <1>6, <2>1, <3>1, Zenon DEF Printed, T
  <2>3. Kind(p, k) = "reset" \/ Kind(p, k) = "at" \/ Kind(p, k) = "link"
    BY <1>6, Zenon DEF Commanding
  <2>4. o[1] \in LineOps
    BY <1>1, <1>3, <1>6, <2>3, Zenon DEF OpShape, ResetOp, AtOp, LinkOp, SendOp, SingleOp
  <2>5. r < Len(T)
    <3>1. CASE Kind(p, k) = "reset"
      <4>1. Len(T) = 4
        BY <3>1, Answers DEF T
      <4>2. a = 2 \/ a = 3 \/ a = 4
        BY <1>1, <1>3, <1>6, <3>1, Zenon DEF OpShape, ResetOp
      <4>3. (a <= 2 => r = 0) /\ (a = 3 => r = 1) /\ (a = 4 => r \in {2, 3})
        BY <3>1, Zenon DEF Reading
      <4>4. QED BY <4>1, <4>2, <4>3
    <3>2. CASE Kind(p, k) = "at"
      <4>1. Len(T) >= 2
        BY <1>2, AnswerLines DEF T
      <4>2. a = 2 \/ a = 3
        BY <1>1, <1>3, <1>6, <3>2, Zenon DEF OpShape, AtOp
      <4>3. (a <= 2 => r = 0) /\ (a = 3 => r \in 1 .. Len(T) - 1)
        BY <3>2, Zenon DEF Reading, T
      <4>4. QED BY <1>4, <4>1, <4>2, <4>3
    <3>3. CASE Kind(p, k) = "link"
      <4>1. Len(T) = 3
        BY <3>3, Answers DEF T
      <4>2. a = 2 \/ a = 3 \/ a = 4
        BY <1>1, <1>3, <1>6, <3>3, Zenon DEF OpShape, LinkOp
      <4>3. (a <= 2 => r = 0) /\ (a >= 3 => r = a - 2)
        BY <3>3, Zenon DEF Reading
      <4>4. QED BY <4>1, <4>2, <4>3
    <3>4. QED BY <2>3, <3>1, <3>2, <3>3
  <2>6. T[r + 1] # ">"
    <3>1. r + 1 \in 1 .. Len(T)
      BY <1>4, <2>5
    <3>2. QED BY <1>4, <1>6, <3>1
  <2>7. QED BY <2>2, <2>4, <2>5, <2>6, Zenon DEF o, T
<1>7. CASE a # 1 /\ Kind(p, k) = "send"
  <2>1. (a <= 2 => r = 0) /\ (a \in 3 .. 5 => r = a - 2) /\ (a \in 6 .. 7 => r = a - 3)
    BY <1>7, Zenon DEF Reading
  <2>2. Len(T) = 5
    BY <1>7, Answers DEF T
  <2>3. a = 5 \/ (a = 4 /\ o[1] = "prompt") \/ ((a = 2 \/ a = 3 \/ a = 6 \/ a = 7) /\ o[1] \in LineOps)
    BY <1>1, <1>3, <1>7, Zenon DEF OpShape, SendOp, ResetOp, AtOp, LinkOp, SingleOp, Commanding
  <2>4. a = 5 => o[1] = "data"
    <3>1. 5 # 1 /\ 5 # 2 /\ 5 # 3 /\ 5 # 4 /\ 5 # 6 /\ 5 # 7
      OBVIOUS
    <3>2. QED BY <1>1, <1>3, <1>7, <3>1, Zenon DEF OpShape, SendOp, SingleOp
  <2>5. (m = 5 /\ a >= 6) \/ (m = 3 /\ ~(a >= 6))
    <3>1. CASE j = "none" /\ c = <<>>
      <4>1. \A y : c # <<y, "eol">>
        <5>1. \A y : <<>> # <<y, "eol">>
          OBVIOUS
        <5>2. QED BY <3>1, <5>1
      <4>2. QED BY <1>2, <1>3, <1>7, <2>2, <3>1, <4>1, Zenon DEF Printed, T
    <3>2. CASE j = "data" /\ ~(a >= 6)
      <4>1. m = 3
        BY <1>2, <3>2, PrintedData
      <4>2. QED BY <3>2, <4>1
    <3>3. QED BY <3>1, <3>2, Zenon DEF IdleAt
  <2>6. a # 5 => r < m /\ (a # 4 => r + 1 \in 1 .. 5 /\ r + 1 # 3)
    BY <2>1, <2>3, <2>5
  <2>7. \/ a = 5 
        \/ a = 4 /\ o[1] = "prompt" /\ 4 # 5
        \/ a # 5 /\ a # 4 /\ o[1] \in LineOps
    <3>1. 4 # 5 /\ \A x : (x = 2 \/ x = 3 \/ x = 6 \/ x = 7) => x # 4 /\ x # 5
      OBVIOUS
    <3>2. QED BY <2>3, <3>1, Zenon
  <2>8. QED BY <1>3, <1>4, <2>2, <2>4, <2>6, <2>7, Zenon DEF o, T
<1>8. QED BY <1>5, <1>6, <1>7

\* An idle esp leaves its program something to do with the command it is in.
LEMMA DataIdle ==
  ASSUME Good, NEW p \in Progs, Idles(p), NEW m,
         Printed(p, call[p], at[p], job[p], cmds[p], Messages[Sent(p) + 1], m)
  PROVE  IdleAt(Kind(p, call[p]), at[p], job[p], cmds[p])
<1> DEFINE k == call[p]
           a == at[p]
           g == Messages[Sent(p) + 1]
<1>1. CASE job[p] = "none" /\ cmds[p] = <<>>
  BY <1>1, Zenon DEF IdleAt
<1>2. CASE job[p] = "data" /\ Len(cmds[p]) < MsgLen
  <2>1. k \in Places(p)
    BY Now, Zenon DEF Place
  <2>2. Kind(p, k) = "send" /\ cmds[p] = (IF a >= 6 THEN g ELSE <<>>)
    <3>1. PICK j, c, K, A, G : j = job[p] /\ c = cmds[p] /\ K = k /\ A = a /\ G = g
      OBVIOUS
    <3>2. Printed(p, K, A, j, c, G, m) /\ j = "data" /\ K \in Places(p)
      BY <1>2, <2>1, <3>1, Zenon
    <3>3. Kind(p, K) = "send" /\ c = (IF A >= 6 THEN G ELSE <<>>)
      BY <3>2, PrintedData
    <3>4. QED BY <3>1, <3>3, Zenon
  <2>3. Len(g) = MsgLen /\ MsgLen \in Nat
    <3>1. "data" # "none"
      OBVIOUS
    <3>2. ~Given(Kind(p, k), a, job[p])
      BY <1>2, <3>1, Zenon DEF Given
    <3>3. Sent(p) + 1 \in 1 .. N
      BY <2>2, <3>2, SendingNow
    <3>4. QED BY <3>3, MessageShape
  <2>4. ~(MsgLen < MsgLen)
    BY <2>3
  <2>5. ~(a >= 6)
    BY <1>2, <2>2, <2>3, <2>4, Zenon
  <2>6. QED BY <1>2, <2>2, <2>5, Zenon DEF IdleAt
<1>3. QED BY <1>1, <1>2, Zenon DEF Idles

\* What the program has read of its input when nothing more is on the line.
LEMMA AllIn ==
  ASSUME Good, NEW p \in Progs, wire[p] = <<>>, NEW r, NEW m,
         Said(p, call[p], stream[p], wire[p], Waiting(p), linked, missed, r, m)
  PROVE  /\ stream[p] \in Seq(Tok) /\ Len(stream[p]) \in Nat /\ Len(Waiting(p)) \in Nat
         /\ Staged(p, call[p], stream[p], Waiting(p), linked, missed, r, m)
<1>1. stream[p] \in Seq(Tok) /\ Staged(p, call[p], stream[p] \o wire[p], Waiting(p), linked, missed, r, m)
  BY Zenon DEF Said
<1>2. stream[p] \o <<>> = stream[p] /\ Len(stream[p]) \in Nat
  BY <1>1, NoTail
<1>3. QED BY <1>1, <1>2, WaitingNow, Zenon

LEMMA CommandMoves ==
  ASSUME Good, NEW p \in Progs, ~Ended(p), Idles(p), wire[p] = <<>>, Kind(p, call[p]) \in Commanding
  PROVE  Enough(Op(p), stream[p])
<1> DEFINE k == call[p]
           a == at[p]
           g == Messages[Sent(p) + 1]
<1>1. /\ k \in 1 .. Len(esp_main(p)) /\ a \in DOMAIN Call(p, k) /\ a \in Nat /\ k \in Places(p)
      /\ Op(p) = Call(p, k)[a]
  <2>1. k \in 1 .. Len(esp_main(p)) /\ a \in DOMAIN Call(p, k)
    BY OpNow
  <2>2. a \in Nat /\ k \in Places(p)
    BY Now, Zenon DEF Typed, Place
  <2>3. QED BY <2>1, <2>2, Zenon DEF Op, Call
<1>2. PICK r, m : /\ Reading(p, k, a, r) /\ Printed(p, k, a, job[p], cmds[p], g, m)
                  /\ Said(p, k, stream[p], wire[p], Waiting(p), linked, missed, r, m)
                  /\ r \in Nat /\ m \in Nat /\ r <= m /\ m <= Len(Answer(p, k))
  BY EspNow, Zenon
<1>3. IdleAt(Kind(p, k), a, job[p], cmds[p])
  BY <1>2, DataIdle, Zenon
<1>4. PICK T : T = Answer(p, k)
  OBVIOUS
<1>5. PICK o, s, W, l, z : o = Op(p) /\ s = stream[p] /\ W = Waiting(p) /\ l = linked /\ z = missed
  OBVIOUS
<1>6. \/ o[1] \in {"puts", "data"}
      \/ o[1] = "prompt" /\ r < m
      \/ o[1] \in LineOps /\ r < m /\ T[r + 1] # ">"
  <2>1. PICK j, c, K, A, G : j = job[p] /\ c = cmds[p] /\ K = k /\ A = a /\ G = g
    OBVIOUS
  <2>2. /\ K \in 1 .. Len(esp_main(p)) /\ A \in DOMAIN Call(p, K) /\ Kind(p, K) \in Commanding /\ A \in Nat
        /\ Reading(p, K, A, r) /\ Printed(p, K, A, j, c, G, m) /\ IdleAt(Kind(p, K), A, j, c)
    BY <1>1, <1>2, <1>3, <2>1, Zenon
  <2>3. \/ Call(p, K)[A][1] \in {"puts", "data"}
        \/ Call(p, K)[A][1] = "prompt" /\ r < m
        \/ Call(p, K)[A][1] \in LineOps /\ r < m /\ Answer(p, K)[r + 1] # ">"
    BY <1>2, <2>2, BehindIdle
  <2>4. QED BY <1>1, <1>4, <1>5, <2>1, <2>3, Zenon
<1>7. s \in Seq(Tok) /\ Len(s) \in Nat /\ Len(W) \in Nat /\ Staged(p, k, s, W, l, z, r, m)
  BY <1>2, <1>5, AllIn, Zenon
<1>8. ASSUME r < m
      PROVE  Body(s) # <<>> /\ (T[r + 1] # ">" => LineEnd(Body(s)) > 0)
  <2>1. PICK i \in 1 .. Len(s) : /\ s[i] = Answer(p, k)[r + 1]
                                 /\ Answer(p, k)[r + 1] # ">" => i + 1 \in 1 .. Len(s) /\ s[i + 1] = "eol"
    <3>1. PICK K, R, M : K = k /\ R = r /\ M = m
      OBVIOUS
    <3>2. Unread(p, K, s, W, l, z, R, M)
      BY <1>7, <1>8, <3>1, Zenon DEF Unread
    <3>3. HasLine(s, Answer(p, K)[R + 1])
      BY <3>2, ItemThere
    <3>4. QED BY <3>1, <3>3, Zenon DEF HasLine
  <2>2. T[r + 1] # "eol"
    <3>1. Len(T) \in Nat
      BY <1>1, <1>4, AnswerLines
    <3>2. r + 1 \in 1 .. Len(T)
      BY <1>2, <1>4, <1>8, <3>1
    <3>3. QED BY <1>1, <1>4, <3>2, AnswerLines
  <2>3. s[i] # "eol"
    BY <1>4, <2>1, <2>2
  <2>4. Body(s) # <<>> /\ (i + 1 \in 1 .. Len(s) /\ s[i + 1] = "eol" => LineEnd(Body(s)) > 0)
    BY <1>7, <2>3, LineThere
  <2>5. QED BY <1>4, <2>1, <2>4, Zenon
<1>9. o[1] \in {"puts", "data"} => o[1] \in {"puts", "eat", "data"}
  OBVIOUS
<1>10. Enough(o, s)
  BY <1>6, <1>8, <1>9, EnoughIs, Zenon
<1>11. QED BY <1>5, <1>10

LEMMA EatMoves ==
  ASSUME Good, NEW p \in Progs, ~Ended(p), Kind(p, call[p]) = "eat"
  PROVE  Enough(Op(p), stream[p])
<1>1. OpShape(Kind(p, call[p]), at[p], Len(Call(p, call[p])), Op(p), Cmd(p, call[p]), Extra(p, call[p]))
  BY OpNow, Zenon
<1>2. /\ "eat" # "reset" /\ "eat" # "at" /\ "eat" # "link" /\ "eat" # "send" /\ "eat" # "conn" /\ "eat" # "recv"
      /\ "eat" \in {"puts", "eat", "data"}
  OBVIOUS
<1>3. Op(p)[1] = "eat"
  BY <1>1, <1>2, Zenon DEF OpShape, SingleOp
<1>4. QED BY <1>2, <1>3, EnoughIs, Zenon

\* The server waits for a connection that was made only if it has skipped the line.
LEMMA ConnMoves ==
  ASSUME Good, NEW p \in Progs, ~Ended(p), wire[p] = <<>>, Kind(p, call[p]) = "conn", p = "server",
         call[p] = 16, linked, ~missed
  PROVE  Enough(Op(p), stream[p])
<1>1. Op(p)[1] = "conn"
  <2>1. OpShape(Kind(p, call[p]), at[p], Len(Call(p, call[p])), Op(p), Cmd(p, call[p]), Extra(p, call[p]))
    BY OpNow, Zenon
  <2>2. "conn" # "reset" /\ "conn" # "at" /\ "conn" # "link" /\ "conn" # "send" /\ "conn" # "eat" /\ "conn" # "recv"
    OBVIOUS
  <2>3. QED BY <2>1, <2>2, Zenon DEF OpShape, SingleOp
<1>2. PICK r, m : Said(p, call[p], stream[p], wire[p], Waiting(p), linked, missed, r, m)
  BY EspNow, Zenon
<1>3. PICK s, W, l, z, k : s = stream[p] /\ W = Waiting(p) /\ l = linked /\ z = missed /\ k = call[p]
  OBVIOUS
<1>4. s \in Seq(Tok) /\ Len(s) \in Nat /\ Len(W) \in Nat /\ Staged(p, k, s, W, l, z, r, m)
  BY <1>2, <1>3, AllIn, Zenon
<1>5. k <= 16 /\ l /\ ~z
  BY <1>3
<1>6. PICK i \in 1 .. Len(s) : s[i] # "eol" /\ i + 1 \in 1 .. Len(s) /\ s[i + 1] = "eol"
  <2>1. Unskipped(p, k, s, W, l, z, r, m)
    BY <1>4, <1>5, Zenon DEF Unskipped
  <2>2. QED BY <2>1, ConnectThere
<1>7. LineEnd(Body(s)) > 0
  BY <1>4, <1>6, LineThere
<1>8. "conn" \in LineOps
  BY DEF LineOps
<1>9. QED BY <1>1, <1>3, <1>7, <1>8, EnoughIs, Zenon

\* A program waits for a message only if none was delivered to it.
LEMMA RecvMoves ==
  ASSUME Good, NEW p \in Progs, ~Ended(p), wire[p] = <<>>, Kind(p, call[p]) = "recv", Waiting(p) # <<>>
  PROVE  Enough(Op(p), stream[p])
<1>1. Op(p)[1] = "recv"
  <2>1. OpShape(Kind(p, call[p]), at[p], Len(Call(p, call[p])), Op(p), Cmd(p, call[p]), Extra(p, call[p]))
    BY OpNow, Zenon
  <2>2. "recv" # "reset" /\ "recv" # "at" /\ "recv" # "link" /\ "recv" # "send" /\ "recv" # "eat" /\ "recv" # "conn"
    OBVIOUS
  <2>3. QED BY <2>1, <2>2, Zenon DEF OpShape, SingleOp
<1>2. PICK r, m : /\ Said(p, call[p], stream[p], wire[p], Waiting(p), linked, missed, r, m)
                  /\ r \in Nat /\ m \in Nat /\ r <= m /\ m <= Len(Answer(p, call[p]))
  BY EspNow, Zenon
<1>3. r = m
  <2>1. Len(Answer(p, call[p])) = 0
    <3>1. "recv" \notin Commanding
      BY DEF Commanding
    <3>2. QED BY <3>1, Answers
  <2>2. QED BY <1>2, <2>1
<1>4. PICK s, W, l, z, k : s = stream[p] /\ W = Waiting(p) /\ l = linked /\ z = missed /\ k = call[p]
  OBVIOUS
<1>5. s \in Seq(Tok) /\ Len(s) \in Nat /\ Staged(p, k, s, W, l, z, m, m)
  BY <1>2, <1>3, <1>4, AllIn, Zenon
<1>6. Len(W) = MsgLen + 1 /\ W[1] = "+IPD" /\ MsgLen \in Nat
  <2>1. Waiting(p) = Message(Had(p) + 1) /\ Had(p) + 1 \in 1 .. N
    BY Pending
  <2>2. Len(Waiting(p)) = MsgLen + 1 /\ Waiting(p)[1] = "+IPD" /\ MsgLen \in Nat
    BY <2>1, MessageShape, Zenon
  <2>3. QED BY <1>4, <2>2, Zenon
<1>7. Len(W) \in Nat /\ Len(W) > 0
  BY <1>6
<1>8. k \in Nat /\ (p = "server" => k > 16)
  <2>1. k \in 1 .. Len(esp_main(p))
    BY <1>4, OpNow
  <2>2. k > (IF p = "server" THEN 16 ELSE 8)
    <3>1. Kind(p, k) = "recv"
      BY <1>4
    <3>2. QED BY <2>1, <3>1, Kinds
  <2>3. Len(esp_main(p)) \in Nat
    BY Sizes
  <2>4. QED BY <2>1, <2>2, <2>3
<1>9. /\ Len(s) - Len(W) \in Nat
      /\ \A i \in 1 .. Len(W) : s[(Len(s) - Len(W)) + i] = W[i]
  BY <1>5, <1>7, MessageThere
<1>10. W[1] # "eol"
  BY <1>6
<1>11. PICK i \in 1 .. Len(s) : i = (Len(s) - Len(W)) + 1
  BY <1>5, <1>7, <1>9
<1>12. s[i] # "eol"
  <2>1. 1 \in 1 .. Len(W)
    BY <1>7
  <2>2. QED BY <1>9, <1>10, <1>11, <2>1, Zenon
<1>13. PICK q \in 1 .. Len(s) : FirstAt(s, q)
  <2>1. \/ \A j \in 1 .. Len(s) : s[j] = "eol"
        \/ \E q \in 1 .. Len(s) : FirstAt(s, q)
    BY <1>5, BodyOr
  <2>2. QED BY <1>12, <2>1, Zenon
<1>14. q = (Len(s) - Len(W)) + 1
  BY <1>5, <1>7, <1>8, <1>10, <1>13, MessageFirst, Zenon
<1>15. PICK b : b = Body(s)
  OBVIOUS
<1>16. Len(b) = Len(s) - q + 1
  <2>1. b = SubSeq(s, q, Len(s))
    BY <1>5, <1>13, <1>15, BodyIs
  <2>2. QED BY <1>5, <2>1, Rest
<1>17. Len(b) > MsgLen
  BY <1>5, <1>6, <1>14, <1>16
<1>18. b # <<>>
  <2>1. Len(<<>>) = 0 /\ ~(0 > MsgLen)
    BY <1>6
  <2>2. QED BY <1>17, <2>1, Zenon
<1>19. QED BY <1>1, <1>4, <1>15, <1>17, <1>18, EnoughIs, Zenon

\* What a program that can go on waits for: a connection or a message.
LEMMA WaitsFor ==
  ASSUME Good, NEW p \in Progs, Runs(p), Waits(p), Idles(p)
  PROVE  \/ Kind(p, call[p]) = "recv" /\ Waiting(p) = <<>> /\ call[p] > (IF p = "server" THEN 16 ELSE 8)
         \/ Kind(p, call[p]) = "conn" /\ p = "server" /\ call[p] = 16 /\ ~(linked /\ ~missed)
<1>1. ~Ended(p) /\ wire[p] = <<>> /\ ~Enough(Op(p), stream[p])
  BY Zenon DEF Runs, Waits
<1>2. call[p] \in 1 .. Len(esp_main(p))
  BY <1>1, OpNow
<1>3. \/ Kind(p, call[p]) = "eat"
      \/ Kind(p, call[p]) = "reset" \/ Kind(p, call[p]) = "at"
      \/ Kind(p, call[p]) = "link" \/ Kind(p, call[p]) = "send"
      \/ Kind(p, call[p]) = "conn" /\ p = "server" /\ call[p] = 16
      \/ Kind(p, call[p]) = "recv" /\ call[p] > (IF p = "server" THEN 16 ELSE 8)
  BY <1>2, Kinds, Zenon
<1>4. Kind(p, call[p]) \notin Commanding
  BY <1>1, CommandMoves
<1>5. Kind(p, call[p]) # "eat"
  BY <1>1, EatMoves
<1>6. "reset" \in Commanding /\ "at" \in Commanding /\ "link" \in Commanding /\ "send" \in Commanding
  BY DEF Commanding
<1>7. CASE Kind(p, call[p]) = "conn" /\ p = "server" /\ call[p] = 16
  <2>1. ~(linked /\ ~missed)
    BY <1>1, <1>7, ConnMoves
  <2>2. QED BY <1>7, <2>1, Zenon
<1>8. CASE Kind(p, call[p]) = "recv" /\ call[p] > (IF p = "server" THEN 16 ELSE 8)
  <2>1. Waiting(p) = <<>>
    BY <1>1, <1>8, RecvMoves
  <2>2. QED BY <1>8, <2>1, Zenon
<1>9. QED BY <1>3, <1>4, <1>5, <1>6, <1>7, <1>8, Zenon

\* A program has ended when it has no call.
LEMMA EndIs ==
  ASSUME Good, NEW p \in Progs
  PROVE  Ended(p) <=> Kind(p, call[p]) = "end"
<1>1. CASE Ended(p)
  <2>1. call[p] = Len(esp_main(p)) + 1
    BY <1>1, Now, Zenon
  <2>2. Kind(p, call[p]) = "end"
    BY <2>1, EndKind, Zenon
  <2>3. QED BY <1>1, <2>2
<1>2. CASE ~Ended(p)
  <2>1. call[p] \in 1 .. Len(esp_main(p))
    BY <1>2, OpNow
  <2>2. PICK K : K = Kind(p, call[p])
    OBVIOUS
  <2>3. K = "eat" \/ K = "reset" \/ K = "at" \/ K = "conn" \/ K = "link" \/ K = "send" \/ K = "recv"
    BY <2>1, <2>2, Kinds, Zenon
  <2>4. K # "end"
    BY <2>3
  <2>5. QED BY <1>2, <2>2, <2>4, Zenon
<1>3. QED BY <1>1, <1>2

LEMMA NoneWaiting ==
  ASSUME Good, NEW p \in Progs, Waiting(p) = <<>>
  PROVE  ~(Sent(Peer(p)) > Had(p))
<1>1. SUFFICES ASSUME Sent(Peer(p)) > Had(p) PROVE FALSE
  OBVIOUS
<1>2. Had(p) + 1 \in 1 .. N
  <2>1. CASE p = "server"
    <3>1. Sent("client") > Had("server")
      BY <1>1, <2>1, ProgsAre
    <3>2. Had("server") + 1 \in 1 .. N
      BY <3>1, NumbersGood, ServerPending, Zenon DEF NumbersNow
    <3>3. QED BY <2>1, <3>2
  <2>2. CASE p = "client"
    <3>1. Sent("server") > Had("client")
      BY <1>1, <2>2, ProgsAre
    <3>2. NumbersNow
      BY NumbersGood
    <3>3. Had("client") + 1 \in 1 .. N
      BY <3>1, <3>2, ClientPending DEF NumbersNow
    <3>4. QED BY <2>2, <3>3
  <2>3. QED BY <2>1, <2>2, ProgsAre
<1>3. Message(Had(p) + 1) = <<>>
  BY <1>1, Zenon DEF Waiting
<1>4. Len(Message(Had(p) + 1)) = MsgLen + 1 /\ MsgLen \in Nat
  BY <1>2, MessageShape
<1>5. Len(<<>>) = 0 /\ 0 # MsgLen + 1
  BY <1>4
<1>6. QED BY <1>3, <1>4, <1>5, Zenon

\* Of two programs that have ended or wait for a message, both have ended.
LEMMA LastTurn ==
  ASSUME NEW ks, NEW as, NEW js, NEW hs, NEW ss, NEW kinds, NEW kc, NEW ac, NEW jc, NEW hc, NEW sc, NEW kindc,
         Numbers(ks, as, js, hs, ss, kinds, kc, ac, jc, hc, sc, kindc),
         kinds = "end" \/ (kinds = "recv" /\ ~(sc > hs)), kindc = "end" \/ (kindc = "recv" /\ ~(ss > hc))
  PROVE  kinds = "end" /\ kindc = "end"
<1>1. N \in Nat
  BY NType
<1>2. /\ kinds = "end" => hs = N /\ ss = hs
      /\ kinds = "recv" => hs + 1 \in 1 .. N /\ ss = hs + 1
  BY DEF Numbers, ServerAt, ServerSent
<1>3. /\ kindc = "end" => hc = N /\ sc = hc
      /\ kindc = "recv" => hc + 1 \in 1 .. N /\ sc = hc
  BY DEF Numbers, ClientAt, ClientSent
<1>4. hs \in Nat /\ hc \in Nat /\ hs <= sc /\ sc <= hc /\ hc <= ss /\ ss <= hs + 1
  BY Zenon DEF Numbers
<1>5. "end" # "recv"
  OBVIOUS
<1>6. CASE kinds = "end" /\ kindc = "recv" /\ ~(ss > hc)
  BY <1>1, <1>2, <1>3, <1>4, <1>6
<1>7. CASE kinds = "recv" /\ ~(sc > hs) /\ kindc = "end"
  BY <1>1, <1>2, <1>3, <1>4, <1>7
<1>8. CASE kinds = "recv" /\ ~(sc > hs) /\ kindc = "recv" /\ ~(ss > hc)
  BY <1>1, <1>2, <1>3, <1>4, <1>8
<1>9. QED BY <1>6, <1>7, <1>8

\* Where the client has asked for the connection and goes on, the server runs.
LEMMA LinkedRuns ==
  ASSUME Good, linked
  PROVE  Ended("server") \/ Runs("server")
<1>1. UpOf(call["server"], at["server"], job["server"])
  BY LinkedUp
<1>2. call["server"] # 1
  <2>1. ~(1 > 10) /\ 1 # 10
    OBVIOUS
  <2>2. QED BY <1>1, <2>1, Zenon DEF UpOf
<1>3. fault["server"] = "none"
  BY Now, ProgsAre, Zenon DEF Typed
<1>4. "server" # "client"
  OBVIOUS
<1>5. QED BY <1>2, <1>3, <1>4, Zenon DEF Runs, At0

\* The client does not wait for the server to listen while the server waits.
LEMMA AskerRuns ==
  ASSUME Good, Waits("server"), Idles("server")
  PROVE  Ended("client") \/ Runs("client")
<1>1. SUFFICES ASSUME ~Ended("client"), ~Runs("client") PROVE FALSE
  OBVIOUS
<1>2. fault["client"] = "none" /\ fault["server"] = "none"
  BY Now, ProgsAre, Zenon DEF Typed
<1>3. "client" # "server"
  OBVIOUS
<1>4. Op("client") = CIPSTART /\ ~Listening
  BY <1>1, <1>2, <1>3, Zenon DEF Runs
<1>5. ClientReady
  BY <1>4, Zenon DEF ClientReady
<1>6. ~UpOf(call["server"], at["server"], job["server"])
  <2>1. ~ServerUp
    BY <1>4, UpListens
  <2>2. QED BY <2>1, Zenon DEF ServerUp
<1>7. call["server"] \in Nat /\ ~(call["server"] > 10)
  <2>1. call["server"] \in Nat
    BY Now, ProgsAre, Zenon DEF Typed
  <2>2. QED BY <1>6, <2>1, Zenon DEF UpOf
<1>8. ~Ended("server")
  <2>1. Len(esp_main("server")) = 16 + 2 * N /\ N \in Nat
    BY Sizes, NType, ProgsAre
  <2>2. QED BY <1>7, <2>1 DEF Ended
<1>9. Runs("server")
  BY <1>2, <1>3, <1>5, <1>8, Zenon DEF Runs
<1>10. \/ call["server"] > (IF "server" = "server" THEN 16 ELSE 8)
       \/ call["server"] = 16
  BY <1>9, WaitsFor, ProgsAre, Zenon
<1>11. QED BY <1>7, <1>10

\* Who can do nothing any more has ended.
LEMMA AllEnd ==
  ASSUME Good, Stuck, ~missed
  PROVE  \A p \in Progs : Ended(p)
<1>1. \A p \in Progs : Waits(p) /\ Idles(p)
  BY DEF Stuck
<1>2. \/ Kind("client", call["client"]) = "end"
      \/ Kind("client", call["client"]) = "recv" /\ Waiting("client") = <<>> /\ call["client"] > 8
  <2>1. Ended("client") \/ Runs("client")
    BY <1>1, AskerRuns, ProgsAre
  <2>2. CASE Ended("client")
    BY <2>2, EndIs, ProgsAre, Zenon
  <2>3. CASE Runs("client")
    <3>1. \/ /\ Kind("client", call["client"]) = "recv" /\ Waiting("client") = <<>>
             /\ call["client"] > (IF "client" = "server" THEN 16 ELSE 8)
          \/ "client" = "server"
      BY <1>1, <2>3, WaitsFor, ProgsAre, Zenon
    <3>2. QED BY <3>1
  <2>4. QED BY <2>1, <2>2, <2>3
<1>3. linked
  <2>1. call["client"] > 8
    <3>1. CASE Kind("client", call["client"]) = "end"
      <4>1. Ended("client")
        BY <3>1, EndIs, ProgsAre, Zenon
      <4>2. call["client"] = Len(esp_main("client")) + 1
        BY <4>1, Now, ProgsAre, Zenon
      <4>3. Len(esp_main("client")) = 8 + 2 * N /\ N \in Nat
        BY Sizes, NType, ProgsAre
      <4>4. QED BY <4>2, <4>3
    <3>2. QED BY <1>2, <3>1
  <2>2. Linking
    BY Zenon DEF Good, Core
  <2>3. QED BY <2>1, <2>2, Zenon DEF Linking, LinkDone, LinkedOf
<1>4. \/ Kind("server", call["server"]) = "end"
      \/ Kind("server", call["server"]) = "recv" /\ Waiting("server") = <<>>
  <2>1. Ended("server") \/ Runs("server")
    BY <1>3, LinkedRuns
  <2>2. CASE Ended("server")
    BY <2>2, EndIs, ProgsAre, Zenon
  <2>3. CASE Runs("server")
    BY <1>1, <1>3, <2>3, WaitsFor, ProgsAre, Zenon
  <2>4. QED BY <2>1, <2>2, <2>3
<1>5. /\ Waiting("client") = <<>> => ~(Sent("server") > Had("client"))
      /\ Waiting("server") = <<>> => ~(Sent("client") > Had("server"))
  <2>1. \A p \in Progs : Waiting(p) = <<>> => ~(Sent(Peer(p)) > Had(p))
    BY NoneWaiting
  <2>2. QED BY <2>1, ProgsAre, Zenon
<1>6. Kind("server", call["server"]) = "end" /\ Kind("client", call["client"]) = "end"
  <2>1. PICK ks, as, js, hs, ss, kinds :
          /\ ks = call["server"] /\ as = at["server"] /\ js = job["server"] /\ hs = Had("server")
          /\ ss = Sent("server") /\ kinds = Kind("server", call["server"])
    OBVIOUS
  <2>2. PICK kc, ac, jc, hc, sc, kindc :
          /\ kc = call["client"] /\ ac = at["client"] /\ jc = job["client"] /\ hc = Had("client")
          /\ sc = Sent("client") /\ kindc = Kind("client", call["client"])
    OBVIOUS
  <2>3. Numbers(ks, as, js, hs, ss, kinds, kc, ac, jc, hc, sc, kindc)
    BY <2>1, <2>2, NumbersGood, Zenon DEF NumbersNow
  <2>4. kinds = "end" \/ (kinds = "recv" /\ ~(sc > hs))
    BY <1>4, <1>5, <2>1, <2>2, Zenon
  <2>5. kindc = "end" \/ (kindc = "recv" /\ ~(ss > hc))
    BY <1>2, <1>5, <2>1, <2>2, Zenon
  <2>6. kinds = "end" /\ kindc = "end"
    BY <2>3, <2>4, <2>5, LastTurn
  <2>7. QED BY <2>1, <2>2, <2>6, Zenon
<1>7. Ended("server") /\ Ended("client")
  BY <1>6, EndIs, ProgsAre, Zenon
<1>8. QED BY <1>7, ProgsAre, Zenon

\* Two programs nobody restarts end, unless the server skipped the line of the
\* connection: nobody waits for ever (server.c, client.c).
THEOREM NeverStuck == Spec => []NoDeadlock
<1>1. IInv => NoDeadlock
  <2> SUFFICES ASSUME IInv, Stuck, restarts = 0, ~missed PROVE \A p \in Progs : Ended(p)
    BY Zenon DEF NoDeadlock
  <2>1. Good
    BY NowGood
  <2>2. QED BY <2>1, AllEnd
<1>2. QED BY <1>1, Invariance, PTL
=============================================================================
