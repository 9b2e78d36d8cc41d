-------------------------------- MODULE Esp --------------------------------
(***************************************************************************)
(* The esp8266 library (labs/16-esp8266/libesp) and the ping-pong programs *)
(* that use it: a server and a client, each driving its own esp over a     *)
(* serial line whose characters trickle in.                                *)
(*                                                                         *)
(* A token is a whole line without its end, an end-of-line character, the  *)
(* prompt, the head of a +IPD message or one byte of data.  Every matcher  *)
(* restores the input when it fails and reads more when it runs out, so    *)
(* the outcome of a call is a function of the input once there is enough.  *)
(* A program is the sequence of the operations its calls make.             *)
(***************************************************************************)
EXTENDS Naturals, Sequences, SequencesExt, FiniteSets

CONSTANTS
  Messages,     \* what the server sends, in order: NTRIALS of them
  MsgLen,       \* bytes in each
  MaxRestart, MaxBusy, \* bounds on programs restarted, on "busy" answers
  RestartOps           \* the operations at which restarts are considered

ASSUME EspAssumption ==
  /\ MsgLen \in Nat \ {0} /\ MaxRestart \in Nat /\ MaxBusy \in Nat
  /\ Messages \in Seq(Range(Messages)) /\ \A m \in Range(Messages) : m \in Seq(Range(m))
  /\ \A i \in DOMAIN Messages : Len(Messages[i]) = MsgLen

Progs == {"server", "client"}
Peer(p) == IF p = "server" THEN "client" ELSE "server"

-----------------------------------------------------------------------------
(* The calls of the library, each a sequence of operations <<kind,          *)
(* argument, extra_p>>, and the programs as sequences of calls.  CONNECT,  *)
(* SENT and CLOSED are the lines "0,CONNECT", "SEND OK" and "0,CLOSED".    *)

\* do_at_cmd; extra: lines that are not the answer are skipped
At(cmd, extra) == << <<"puts", cmd, extra>>, <<"ack", cmd, extra>>, <<"expect", "OK", extra>> >>
Bugat_drain == <<>>
at_drain == << <<"ready", "ready", TRUE>> >>
Reset(cmd) == At(cmd, TRUE) \o at_drain

esp_hard_reset ==
  << << <<"eat", "all", TRUE>> >>, Reset("AT+RST"), Reset("AT+RESTORE"), Reset("AT+RST") >>
esp_setup_wifi == << At("AT+CWSAP", FALSE), At("AT+CWMODE=3", FALSE), At("AT+CIFSR", TRUE) >>
esp_connect_to_wifi == << At("AT+CWMODE=1", FALSE), At("AT+CWJAP", TRUE) >>
esp_start_tcp_server ==
  << At("AT+CWMODE=3", FALSE), At("AT+CIPMUX=1", FALSE), At("AT+CIPSERVER", FALSE),
     At("AT+CIPSTO?", TRUE), At("AT+CIPSTO=7200", TRUE), At("AT+CIPSTO?", TRUE),
     At("AT+CIFSR", TRUE), At("AT+GMR", TRUE) >>
CIPSTART == <<"puts", "AT+CIPSTART", FALSE>>
issue_tcp_connect ==
  << CIPSTART, <<"ack", "AT+CIPSTART", FALSE>>,
     <<"expect", "CONNECT", FALSE>>, <<"expect", "OK", FALSE>> >>
esp_start_tcp_client == << At("AT+CIPMUX=1", FALSE), issue_tcp_connect >>
wait_for_conn == << <<"conn", "CONNECT", TRUE>> >>
esp_send ==
  At("AT+CIPSEND", FALSE)
  \o << <<"prompt", ">", FALSE>>, <<"data", "bytes", FALSE>>,
        <<"expect", "Recv", FALSE>>, <<"expect", "SENT", FALSE>> >>
esp_is_recv == << <<"recv", "+IPD", FALSE>> >>

\* NTRIALS times one call and then the other
Rounds(a, b) == [i \in 1 .. 2 * Len(Messages) |-> IF i % 2 = 1 THEN a ELSE b]
ServerSetUp == esp_hard_reset \o esp_setup_wifi \o esp_start_tcp_server
ClientSetUp == esp_hard_reset \o esp_connect_to_wifi \o esp_start_tcp_client
ServerMain == ServerSetUp \o <<wait_for_conn>> \o Rounds(esp_send, esp_is_recv)
ClientMain == ClientSetUp \o Rounds(esp_is_recv, esp_send)
SetUp(p)    == IF p = "server" THEN ServerSetUp ELSE ClientSetUp
esp_main(p) == IF p = "server" THEN ServerMain ELSE ClientMain

-----------------------------------------------------------------------------
VARIABLES
  call, at, \* the call each program is in, and its operation that is next
  stream,   \* the lexer's unread input
  fault,    \* "none" or the panic
  got,      \* messages received
  wire,     \* from the esp: printed, not read yet
  cmds,     \* to the esp: written, not taken yet
  job,      \* the command the esp works on, "none", "boot" or "data"
  linked,   \* the two esps have a TCP connection
  restarts, busies,
  missed,   \* history: the server has skipped the line it waits for later
  disturbed \* history: a program was restarted in a moment esp_hard_reset does not cover

vars == <<call, at, stream, fault, got, wire, cmds, job, linked, restarts, busies, missed, disturbed>>

Init ==
  /\ call = [p \in Progs |-> 1] /\ at = [p \in Progs |-> 1] /\ stream = [p \in Progs |-> <<>>]
  /\ fault = [p \in Progs |-> "none"] /\ got = [p \in Progs |-> <<>>]
  /\ wire = [p \in Progs |-> <<>>] /\ cmds = [p \in Progs |-> <<>>]
  /\ job = [p \in Progs |-> "none"]
  /\ linked = FALSE /\ restarts = 0 /\ busies = 0 /\ missed = FALSE
  /\ disturbed = FALSE

Ended(p) == call[p] > Len(esp_main(p))
Op(p)    == esp_main(p)[call[p]][at[p]]
\* o is one of the operations that p has yet to do
Ahead(p, o) ==
  \E i \in call[p] .. Len(esp_main(p)) : \E j \in DOMAIN esp_main(p)[i] :
    esp_main(p)[i][j] = o /\ (i = call[p] => j >= at[p])
Resetting(p) == call[p] <= Len(esp_hard_reset)
At0(p) == call[p] = 1
BugActive(p) == TRUE
Active(p) == call[p] > Len(SetUp(p))  \* e->active_p
Listening == job["server"] # "AT+CIPSERVER" /\ ~Ahead("server", <<"ack", "AT+CIPSERVER", FALSE>>)

\* The client asks for the connection once the server's esp listens.  Until
\* then the two share nothing, so the server's start waits for the client to
\* get there: the order of independent steps makes no difference.
ClientReady == fault["client"] # "none" \/ ~(Ahead("client", CIPSTART) /\ Op("client") # CIPSTART)
Runs(p) ==
  /\ fault[p] = "none" /\ ~Ended(p)
  /\ (p = "server" /\ At0(p)) => ClientReady
  /\ (p = "client" /\ Op(p) = CIPSTART) => Listening

-----------------------------------------------------------------------------
(* The matchers of esp-parse.c.                                            *)

NotEol(t) == t # "eol"
IsEol(t)  == t = "eol"
\* skip_blank_lines: the input from the first token that is no end of line on
Body(s) == LET i == SelectInSeq(s, NotEol) IN IF i = 0 THEN <<>> ELSE SubSeq(s, i, Len(s))
\* where the first line of s ends, 0 if its end has not come yet
LineEnd(s) == SelectInSeq(s, IsEol)

\* match_eol takes the end of line, and those after it that have come already
AfterLine(s) == Body(SubSeq(s, LineEnd(s), Len(s)))

Takes(p, s) == stream' = [stream EXCEPT ![p] = s]
pc == <<call, at>>
Advance(p) ==
  IF at[p] = Len(esp_main(p)[call[p]])
    THEN call' = [call EXCEPT ![p] = @ + 1] /\ at' = [at EXCEPT ![p] = 1]
    ELSE at' = [at EXCEPT ![p] = @ + 1] /\ UNCHANGED call
Stays      == UNCHANGED pc
Panic(p, why) == fault' = [fault EXCEPT ![p] = why] /\ UNCHANGED <<pc, stream>>
Fine == UNCHANGED fault

BugPromptCame(b) == LineEnd(b) > 0
\* match_tok: no end of line follows
PromptCame(b) == b # <<>>

\* Whether operation o can end on input s without reading more: most look at
\* a line and its end.
Enough(o, s) ==
  LET b == Body(s)
  IN CASE o[1] \in {"puts", "eat", "data"} -> TRUE
       [] o[1] = "prompt" -> PromptCame(b)
       [] o[1] = "recv"   -> b # <<>> /\ (b[1] = "+IPD" => Len(b) > MsgLen)
       [] OTHER           -> LineEnd(b) > 0

Busy == "busy"

-----------------------------------------------------------------------------
(* The operations.                                                         *)

\* lex_readin: everything that has come, or only as far as an end of line: a
\* line without its end changes nothing
Readin(p) ==
  /\ wire[p] # <<>> /\ Runs(p) /\ ~Enough(Op(p), stream[p])
  /\ \E k \in {LineEnd(wire[p]), Len(wire[p])} \ {0} :
       /\ stream' = [stream EXCEPT ![p] = @ \o SubSeq(wire[p], 1, k)]
       /\ wire' = [wire EXCEPT ![p] = SubSeq(@, k + 1, Len(@))]
  /\ UNCHANGED <<pc, fault, got, cmds, job, linked, restarts, busies, missed, disturbed>>

\* tokens of one character, and what is left of s when lex_getc has taken one:
\* of a line, a line that nobody waits for
Short == {"eol", ">"} \cup UNION {Range(Messages[i]) : i \in DOMAIN Messages}
Bites(s) == {Tail(s)} \cup (IF Head(s) \in Short THEN {} ELSE {<<"cut">> \o Tail(s)})

\* the loop at the start of esp_hard_reset, which looks at the serial line only:
\* each time it finds something there it takes a character, from the lexer if
\* that holds any, and lets the lexer read if not.  What is left in the lexer
\* when the line is quiet stays there, and more may come.
Eat(p, o) ==
  /\ o[1] = "eat"
  /\ \/ wire[p] = <<>> /\ Advance(p) /\ UNCHANGED <<stream, wire>>
     \/ /\ wire[p] # <<>> /\ Stays
        /\ \E k \in IF stream[p] # <<>> THEN {0} ELSE {LineEnd(wire[p]), Len(wire[p])} \ {0} :
             /\ \E s \in Bites(stream[p] \o SubSeq(wire[p], 1, k)) : Takes(p, s)
             /\ wire' = [wire EXCEPT ![p] = SubSeq(@, k + 1, Len(@))]
  /\ Fine /\ UNCHANGED <<got, cmds, missed>>

\* cmd_puts, and esp_send's esp_write_exact
Puts(p, o) ==
  /\ o[1] = "puts" /\ cmds' = [cmds EXCEPT ![p] = @ \o <<o[2], "eol">>]
  /\ Advance(p) /\ UNCHANGED <<stream, fault, got, wire, missed>>
Data(p, o) ==
  /\ o[1] = "data"
  /\ cmds' = [cmds EXCEPT ![p] = @ \o (IF p = "server" THEN Messages[Len(got[p]) + 1]
                                       ELSE got[p][Len(got[p])])]
  /\ Advance(p) /\ UNCHANGED <<stream, fault, got, wire, missed>>

\* the line is looked at and dropped (cmd_echo_line)
Skips(p, b) ==
  /\ Takes(p, AfterLine(b)) /\ Stays /\ Fine
  /\ missed' = (missed \/ (p = "server" /\ b[1] = "CONNECT"))

\* cmd_ack, cmd_response and cmd_responsev, at_drain, and the loop around
\* wait_for_conn: the line they wait for, busy lines, errors, the rest
Ack(p, o) ==
  \E b \in {Body(stream[p])} :
     /\ o[1] = "ack"
     /\ CASE b[1] = o[2] -> Takes(p, AfterLine(b)) /\ Advance(p) /\ Fine /\ missed' = missed
          [] b[1] # o[2] /\ (b[1] = Busy \/ ~Active(p)) -> Skips(p, b)
          [] OTHER -> Panic(p, "disordered") /\ missed' = missed
     /\ UNCHANGED <<got, wire, cmds>>

\* what cmd_response passes over while it waits; at_drain and the server's loop
\* around wait_for_conn pass over anything
MaySkip(o, l) == o[1] # "expect" \/ (l # "ERROR" /\ (o[3] \/ l = Busy))

Expect(p, o) ==
  \E b \in {Body(stream[p])} :
     /\ o[1] \in {"expect", "ready", "conn"}
     /\ CASE b[1] = o[2] -> Takes(p, AfterLine(b)) /\ Advance(p) /\ Fine /\ missed' = missed
          [] b[1] # o[2] /\ MaySkip(o, b[1]) -> Skips(p, b)
          [] OTHER -> Panic(p, "unexpected") /\ missed' = missed
     /\ UNCHANGED <<got, wire, cmds>>

Prompt(p, o) ==
  \E b \in {Body(stream[p])} :
     /\ o[1] = "prompt"
     /\ IF b[1] = ">" THEN Takes(p, Tail(b)) /\ Advance(p) /\ Fine
                      ELSE Panic(p, "no_prompt")
     /\ UNCHANGED <<got, wire, cmds, missed>>

BugPayload(b) == Body(Tail(b))
\* the bytes after the head of the message, raw
Payload(b) == SubSeq(b, 2, MsgLen + 1)
\* esp_is_recv, and the server's comparison with what it sent
Recv(p, o) ==
  \E b \in {Body(stream[p])} : LET m == Payload(b)
                                   n == Len(got[p]) + 1 IN
     /\ o[1] = "recv"
     /\ CASE b[1] # "+IPD" -> Panic(p, "no_message") /\ got' = got
          [] b[1] = "+IPD" /\ p = "server" /\ m # Messages[n] -> Panic(p, "mismatch") /\ got' = got
          [] OTHER -> /\ Takes(p, SubSeq(b, MsgLen + 2, Len(b))) /\ Advance(p) /\ Fine
                      /\ got' = [got EXCEPT ![p] = Append(@, m)]
     /\ UNCHANGED <<wire, cmds, missed>>

Step(p) ==
  /\ Runs(p)
  /\ \E o \in {Op(p)} :
       /\ Enough(o, stream[p])
       /\ \/ Eat(p, o) \/ Puts(p, o) \/ Data(p, o) \/ Ack(p, o)
          \/ Expect(p, o) \/ Prompt(p, o) \/ Recv(p, o)
  /\ UNCHANGED <<job, linked, restarts, busies, disturbed>>

-----------------------------------------------------------------------------
(* The esps, as far as the library relies on them.                         *)

prog == <<pc, stream, fault, got, missed>>
Says(p, ls) == wire' = [wire EXCEPT ![p] = @ \o ls]
Line(l) == <<l, "eol", "eol">>

\* a command is taken and echoed
EspTake(p) ==
  /\ job[p] = "none" /\ cmds[p] # <<>>
  /\ IF Head(cmds[p]) = "eol"
       THEN cmds' = [cmds EXCEPT ![p] = Tail(@)] /\ UNCHANGED <<job, wire>>
       ELSE /\ cmds' = [cmds EXCEPT ![p] = SubSeq(@, 3, Len(@))]
            /\ job' = [job EXCEPT ![p] = Head(cmds[p])]
            /\ Says(p, Line(Head(cmds[p])))
  /\ UNCHANGED <<linked, busies>>

\* a command that comes too soon is complained of, and waits
EspBusy(p) ==
  /\ job[p] \notin {"none", "boot", "data"} /\ cmds[p] # <<>>
  /\ busies < MaxBusy /\ busies' = busies + 1 /\ Says(p, Line(Busy))
  /\ UNCHANGED <<cmds, job, linked>>

Talkative == {"AT+CIFSR", "AT+CWJAP", "AT+GMR", "AT+CIPSTO?"}

\* a command ends with OK
EspDone(p) ==
  /\ job[p] \notin {"none", "boot", "data"}
  /\ LET c    == job[p]
         info == IF c \in Talkative THEN Line("info") ELSE <<>>
     IN CASE c \in {"AT+RST", "AT+RESTORE"} ->
               /\ job' = [job EXCEPT ![p] = "boot"] /\ linked' = FALSE
               /\ wire' = [q \in Progs |->
                    IF q = p THEN wire[q] \o Line("OK")
                    ELSE wire[q] \o (IF linked THEN Line("CLOSED") ELSE <<>>)]
          [] c = "AT+CIPSTART" /\ Listening ->
               /\ job' = [job EXCEPT ![p] = "none"] /\ linked' = TRUE
               /\ wire' = [q \in Progs |-> wire[q] \o Line("CONNECT") \o
                                            (IF q = p THEN Line("OK") ELSE <<>>)]
          [] (c = "AT+CIPSTART" /\ ~Listening) \/ (c = "AT+CIPSEND" /\ ~linked) ->
               /\ job' = [job EXCEPT ![p] = "none"] /\ Says(p, Line("ERROR")) /\ UNCHANGED linked
          [] c = "AT+CIPSEND" /\ linked ->
               /\ job' = [job EXCEPT ![p] = "data"] /\ Says(p, Line("OK") \o <<">">>)
               /\ UNCHANGED linked
          [] OTHER ->
               /\ job' = [job EXCEPT ![p] = "none"] /\ Says(p, info \o Line("OK"))
               /\ UNCHANGED linked
  /\ UNCHANGED <<cmds, busies>>

\* MsgLen bytes are data, whatever they are
EspData(p) ==
  /\ job[p] = "data" /\ Len(cmds[p]) >= MsgLen
  /\ job' = [job EXCEPT ![p] = "none"]
  /\ cmds' = [cmds EXCEPT ![p] = SubSeq(@, MsgLen + 1, Len(@))]
  /\ wire' = [q \in Progs |->
       IF q = p THEN wire[q] \o Line("Recv") \o Line("SENT")
       ELSE wire[q] \o (IF linked THEN <<"eol", "+IPD">> \o SubSeq(cmds[p], 1, MsgLen) ELSE <<>>)]
  /\ disturbed' = (disturbed \/ (linked /\ Resetting(Peer(p))))
  /\ UNCHANGED <<linked, busies>>

\* a reset esp prints what it likes, then "ready", and has forgotten its input
EspBoot(p) ==
  /\ job[p] = "boot" /\ job' = [job EXCEPT ![p] = "none"]
  /\ cmds' = [cmds EXCEPT ![p] = <<>>]
  /\ Says(p, Line("boot") \o Line("ready"))
  /\ UNCHANGED <<linked, busies>>

EspStep(p) ==
  /\ \/ EspData(p)
     \/ (EspTake(p) \/ EspBusy(p) \/ EspDone(p) \/ EspBoot(p)) /\ UNCHANGED disturbed
  /\ UNCHANGED <<prog, restarts>>

\* the esp waits for the bytes of a message, or is about to
Sending(p) == job[p] \in {"data", "AT+CIPSEND"} \/ "AT+CIPSEND" \in Range(cmds[p])

\* what the esp printed last lies unread, and no line ends there
Unfinished(p) == wire[p] # <<>> /\ Last(wire[p]) # "eol"

\* Control-C and another start, or a panic and another start: the esp goes on
\* with what it does.
Restart(p) ==
  /\ ~Ended(p) /\ Op(p) \in RestartOps /\ restarts < MaxRestart /\ restarts' = restarts + 1
  /\ call' = [call EXCEPT ![p] = 1] /\ at' = [at EXCEPT ![p] = 1]
  /\ stream' = [stream EXCEPT ![p] = <<>>]
  /\ fault' = [fault EXCEPT ![p] = "none"] /\ got' = [got EXCEPT ![p] = <<>>]
  /\ disturbed' = (disturbed \/ Sending(p) \/ Resetting(p) \/ Unfinished(p))
  /\ UNCHANGED <<wire, cmds, job, linked, busies, missed>>

Work == \E p \in Progs : Readin(p) \/ Step(p) \/ EspStep(p)
Next == Work \/ \E p \in Progs : Restart(p)

Spec == Init /\ [][Next]_vars

-----------------------------------------------------------------------------

\* Values of the variables.
TypeOK ==
  /\ \A p \in Progs :
       /\ call[p] \in 1 .. Len(esp_main(p)) + 1
       /\ at[p] \in IF Ended(p) THEN {1} ELSE DOMAIN esp_main(p)[call[p]]
  /\ {linked, missed, disturbed} \subseteq BOOLEAN
  /\ restarts \in 0 .. MaxRestart /\ busies \in 0 .. MaxBusy

\* However the input was cut up, when a program writes a command everything
\* its esp printed before has been read, ends of lines and the server's
\* connection apart: the conversation is in step (cmd_ack and cmd_response,
\* match_eol).  A program that nobody restarts, under a peer nobody restarts,
\* never panics (every lex_panic of the library).
InStep ==
  /\ TypeOK
  /\ restarts = 0 => \A p \in Progs :
       /\ fault[p] = "none" /\ Len(cmds[p]) <= (IF job[p] = "data" THEN MsgLen ELSE 2)
       /\ (~Ended(p) /\ Op(p)[1] = "puts") =>
            /\ job[p] = "none"
            /\ \A t \in Range(stream[p] \o wire[p]) : t = "eol" \/ (p = "server" /\ t = "CONNECT")

\* Messages arrive whole, once and in order, although their bytes may look like
\* ends of lines; the server sends the next when the last came back (esp_send,
\* esp_is_recv).
PingPong ==
  (restarts = 0) =>
    IsPrefix(got.client, Messages) /\ IsPrefix(got.server, got.client)

\* Everybody waits for everybody: no step of a program or an esp is possible.
Waits(p) == ~Runs(p) \/ (wire[p] = <<>> /\ ~Enough(Op(p), stream[p]))
Idles(p) == \/ job[p] = "none" /\ cmds[p] = <<>>
            \/ job[p] = "data" /\ Len(cmds[p]) < MsgLen
Stuck == \A p \in Progs : Waits(p) /\ Idles(p)

\* Two programs nobody restarts come to their end, and do not end up waiting
\* for each other, unless the client connects while the server is still setting
\* up and the server skips the line it is about to wait for (server.c, client.c).
NoDeadlock == (Stuck /\ restarts = 0 /\ ~missed) => \A p \in Progs : Ended(p)

\* A program restarted outside a reset, while its esp neither waits for the
\* bytes of a message nor is about to, and to which no message is sent during
\* the reset, gets through that reset, whatever its esp was doing and whatever
\* lines the drain leaves in the lexer (esp_hard_reset).  Not so if a message
\* was left unread: the bytes the drain leaves of it are glued to the echo of
\* AT+RST, which cmd_ack then waits for in vain.
ResetRecovers ==
  (Stuck /\ ~disturbed) => ~Resetting("server") /\ ~Resetting("client")
=============================================================================
