------------------------------ MODULE Requests ------------------------------
(***************************************************************************)
(* Requests of the local client (src/rpi/main.c): the poll loop of the      *)
(* Zero, its socket with one client, the lines the client may send ahead,   *)
(* the one request that waits for the reply of the Pico, and its timeout.   *)
(* A line is the number of its place among all lines of all clients; what   *)
(* the socket carries are its pieces.  The Pico is seen from here: it does  *)
(* requests in order, and answers a gyro calibration when it is over.       *)
(***************************************************************************)
EXTENDS Naturals, Sequences

CONSTANTS
  BufSize,      \* pieces that client_buf holds (CMD_LINE_MAX)
  LineLens,     \* lengths of a line in pieces, its end included
  MaxLines,     \* bound: lines of all clients
  MaxSessions,  \* bound: clients one after the other
  MaxLosses     \* bound: frames lost on the link

ASSUME RequestsAssumption ==
  /\ BufSize \in Nat \ {0}
  /\ LineLens \subseteq Nat \ {0}
  /\ MaxLines \in Nat /\ MaxSessions \in Nat /\ MaxLosses \in Nat

\* What a line says: a request for the Pico, by what a reply is matched with,
\* or one that the Zero answers itself.
Requested == {"gyro cal", "set beta"}
Kind == Requested \cup {"error"}

VARIABLES
  at, then,     \* place in the loop; where process_client_lines goes back to
  ready,        \* what poll reported and the pass has still to look at:
                \* "link", "listen", "client"
  client,       \* client_fd: the number of the client, 0 if none
  buf,          \* client_buf
  waiting,      \* the line that waits for its reply, 0 if none
  hung,         \* has the client closed its end
  knocking,     \* is a client in the backlog of the socket
  sessions,     \* clients so far
  socket,       \* pieces written by the client and not yet read
  lines,        \* all lines: client, what it says, length
  to_pico, to_zero,  \* frames on the link
  calibrating,  \* the line whose gyro calibration the Pico does, 0 if none
  done,         \* lines the Pico did
  losses,
  answers       \* all answers: to whom, line, text, line of the reply

zero == <<at, then, ready, client, buf, waiting>>
clients == <<hung, knocking, sessions, socket, lines>>
pico == <<to_pico, to_zero, calibrating, done, losses>>
vars == <<zero, clients, pico, answers>>

Pieces(line) == [i \in 1 .. lines'[line].len |-> [line |-> line, place |-> i]]

\* Is this the piece with the end of its line?
Ends(piece) == piece.place = lines[piece.line].len

\* Place of the first end of line, 0 if there is none.
LineEnd(b) ==
  LET ends == {i \in 1 .. Len(b) : Ends(b[i])}
  IN  IF ends = {} THEN 0 ELSE CHOOSE i \in ends : \A j \in ends : i <= j

Init ==
  /\ at = "poll" /\ then = "poll" /\ ready = {}
  /\ client = 0 /\ buf = <<>> /\ waiting = 0
  /\ hung = FALSE /\ knocking = FALSE /\ sessions = 0 /\ socket = <<>>
  /\ lines = <<>>
  /\ to_pico = <<>> /\ to_zero = <<>> /\ calibrating = 0 /\ done = {} /\ losses = 0
  /\ answers = <<>>

-----------------------------------------------------------------------------
(* The client.                                                              *)

Connect ==
  /\ ~knocking
  /\ sessions < MaxSessions
  /\ knocking' = TRUE
  /\ UNCHANGED <<zero, pico, answers, hung, sessions, socket, lines>>

SendLine(kind, len) ==
  /\ client # 0 /\ ~hung
  /\ Len(lines) < MaxLines
  /\ lines' = Append(lines, [client |-> client, kind |-> kind, len |-> len])
  /\ socket' = socket \o Pieces(Len(lines'))
  /\ UNCHANGED <<zero, pico, answers, hung, knocking, sessions>>

HangUp ==
  /\ client # 0 /\ ~hung
  /\ hung' = TRUE
  /\ UNCHANGED <<zero, pico, answers, knocking, sessions, socket, lines>>

-----------------------------------------------------------------------------
(* The link and the Pico.                                                   *)

Reply(line, result) == [line |-> line, result |-> result]

\* on_command and on_setting: a gyro calibration is answered later.
PicoDoes ==
  /\ to_pico # <<>>
  /\ to_pico' = Tail(to_pico)
  /\ LET line == Head(to_pico)
     IN  CASE lines[line].kind = "gyro cal" /\ calibrating = 0 ->
                /\ calibrating' = line
                /\ UNCHANGED <<to_zero, done>>
           [] lines[line].kind = "gyro cal" /\ calibrating # 0 ->
                /\ to_zero' = Append(to_zero, Reply(line, "busy"))
                /\ UNCHANGED <<calibrating, done>>
           [] OTHER ->
                /\ done' = done \cup {line}
                /\ to_zero' = Append(to_zero, Reply(line, "ok"))
                /\ UNCHANGED calibrating
  /\ UNCHANGED <<zero, clients, losses, answers>>

\* calibration_step
PicoCalibrated ==
  /\ calibrating # 0
  /\ calibrating' = 0
  /\ done' = done \cup {calibrating}
  /\ to_zero' = Append(to_zero, Reply(calibrating, "ok"))
  /\ UNCHANGED <<zero, clients, to_pico, losses, answers>>

LoseRequest ==
  /\ to_pico # <<>> /\ losses < MaxLosses
  /\ to_pico' = Tail(to_pico) /\ losses' = losses + 1
  /\ UNCHANGED <<zero, clients, to_zero, calibrating, done, answers>>

LoseReply ==
  /\ to_zero # <<>> /\ losses < MaxLosses
  /\ to_zero' = Tail(to_zero) /\ losses' = losses + 1
  /\ UNCHANGED <<zero, clients, to_pico, calibrating, done, answers>>

-----------------------------------------------------------------------------
(* The loop of the Zero.                                                    *)

\* socket_answer.  A write to a client that has closed its end raises SIGPIPE,
\* which ends the program.
SocketAnswer(line, text, from, next) ==
  /\ waiting' = 0
  /\ at' = IF hung THEN "ended" ELSE next
  /\ IF hung \/ client = 0
     THEN UNCHANGED answers
     ELSE answers' = Append(answers, [client |-> client, line |-> line, text |-> text,
                                      from |-> from])

Events ==
  (IF to_zero # <<>> THEN {"link"} ELSE {})
    \cup (IF knocking THEN {"listen"} ELSE {})
    \cup (IF client # 0 /\ (socket # <<>> \/ hung) THEN {"client"} ELSE {})

Poll ==
  /\ at = "poll"
  /\ ready' = Events
  /\ at' = "link"
  /\ UNCHANGED <<then, client, buf, waiting, clients, pico, answers>>

Process(next) == at' = "process" /\ then' = next

\* Mutant: a reply is matched by what it is for and not by its id.
Matches_WhatOnly(line) == waiting # 0

\* The test of on_reply.
Matches(line) == waiting # 0 /\ lines[line].kind = lines[waiting].kind

\* on_reply
ReadReply ==
  /\ at = "link" /\ "link" \in ready
  /\ to_zero # <<>>
  /\ to_zero' = Tail(to_zero)
  /\ LET reply == Head(to_zero)
     IN  IF Matches(reply.line)
         THEN SocketAnswer(waiting, reply.result, reply.line, at)
         ELSE UNCHANGED <<at, waiting, answers>>
  /\ UNCHANGED <<then, ready, client, buf, clients, to_pico, calibrating, done, losses>>

\* Mutant: the lines that queue behind a reply wait for the next read.
LinkRead_ProcessesNoLines ==
  /\ at = "link"
  /\ "link" \in ready => to_zero = <<>>
  /\ at' = "accept" /\ UNCHANGED then
  /\ ready' = ready \ {"link"}
  /\ UNCHANGED <<client, buf, waiting, clients, pico, answers>>

\* The link is empty.
LinkRead ==
  /\ at = "link"
  /\ "link" \in ready => to_zero = <<>>
  /\ IF "link" \in ready /\ client # 0
     THEN Process("accept")
     ELSE at' = "accept" /\ UNCHANGED then
  /\ ready' = ready \ {"link"}
  /\ UNCHANGED <<client, buf, waiting, clients, pico, answers>>

\* send_request, when comm_send succeeds.
Send(line) ==
  /\ to_pico' = Append(to_pico, line)
  /\ waiting' = line
  /\ UNCHANGED <<at, answers>>

\* handle_request.  The rest of a line that was too long is taken for a line,
\* and may say anything; a request is refused if comm_send finds no memory.
HandleRequest(piece) ==
  \/ /\ lines[piece.line].kind \in Requested
     /\ Send(piece.line)
  \/ /\ SocketAnswer(piece.line, "error", 0, at)
     /\ UNCHANGED to_pico

MayHandle == waiting = 0

\* One turn of process_client_lines.
HandleLine ==
  /\ at = "process"
  /\ MayHandle
  /\ LineEnd(buf) # 0
  /\ buf' = SubSeq(buf, LineEnd(buf) + 1, Len(buf))
  /\ HandleRequest(buf[LineEnd(buf)])
  /\ UNCHANGED <<then, ready, client, clients, to_zero, calibrating, done, losses>>

LineTooLong ==
  /\ at = "process"
  /\ MayHandle
  /\ LineEnd(buf) = 0 /\ Len(buf) = BufSize
  /\ buf' = <<>>
  /\ SocketAnswer(buf[1].line, "error", 0, then)
  /\ then' = "poll"
  /\ UNCHANGED <<ready, client, clients, pico>>

LinesProcessed ==
  /\ at = "process"
  /\ MayHandle => LineEnd(buf) = 0 /\ Len(buf) < BufSize
  /\ at' = then
  /\ then' = "poll"
  /\ UNCHANGED <<ready, client, buf, waiting, clients, pico, answers>>

\* accept_client.  One client is served at a time: another one is told so and
\* closed.
AcceptClient ==
  /\ at = "accept"
  /\ at' = "read"
  /\ IF "listen" \in ready
     THEN /\ knocking' = FALSE
          /\ sessions' = sessions + 1
          /\ client' = IF client # 0 THEN client ELSE sessions'
     ELSE UNCHANGED <<client, knocking, sessions>>
  /\ ready' = ready \ {"listen"}
  /\ UNCHANGED <<then, buf, waiting, hung, socket, lines, pico, answers>>

\* Mutant: the request of the client goes on waiting.
Forget_KeepsWaiting == UNCHANGED waiting

Forget == waiting' = 0

\* close_client
CloseClient ==
  /\ client' = 0
  /\ buf' = <<>>
  /\ Forget
  /\ socket' = <<>> /\ hung' = FALSE
  /\ at' = "timeout" /\ UNCHANGED then

\* Mutant: the room that is left in the buffer is not looked at.
ReadClient_AnyLength ==
  /\ at = "read" /\ "client" \in ready /\ client # 0
  /\ IF socket = <<>>
     THEN CloseClient
     ELSE /\ buf' = buf \o socket
          /\ socket' = <<>>
          /\ Process("timeout")
          /\ UNCHANGED <<client, waiting, hung>>
  /\ ready' = {}
  /\ UNCHANGED <<knocking, sessions, lines, pico, answers>>

\* read_client.  A read into a full buffer returns 0 and is taken for the end.
ReadClient ==
  /\ at = "read" /\ "client" \in ready /\ client # 0
  /\ LET room == BufSize - Len(buf)
     IN  IF room = 0 \/ socket = <<>>
         THEN CloseClient
         ELSE \E n \in 1 .. room :
                /\ n <= Len(socket)
                /\ buf' = buf \o SubSeq(socket, 1, n)
                /\ socket' = SubSeq(socket, n + 1, Len(socket))
                /\ Process("timeout")
                /\ UNCHANGED <<client, waiting, hung>>
  /\ ready' = {}
  /\ UNCHANGED <<knocking, sessions, lines, pico, answers>>

NoRead ==
  /\ at = "read" /\ ~("client" \in ready /\ client # 0)
  /\ at' = "timeout"
  /\ ready' = {}
  /\ UNCHANGED <<then, client, buf, waiting, clients, pico, answers>>

\* The deadline of the request has passed.
Timeout ==
  /\ at = "timeout"
  /\ waiting # 0
  /\ SocketAnswer(waiting, "timeout", 0, "process")
  /\ then' = "poll"
  /\ UNCHANGED <<ready, client, buf, clients, pico>>

NoTimeout ==
  /\ at = "timeout"
  /\ at' = "poll"
  /\ UNCHANGED <<then, ready, client, buf, waiting, clients, pico, answers>>

ZeroStep ==
  \/ Poll \/ ReadReply \/ LinkRead
  \/ HandleLine \/ LineTooLong \/ LinesProcessed
  \/ AcceptClient \/ ReadClient \/ NoRead
  \/ Timeout \/ NoTimeout

PicoStep == PicoDoes \/ PicoCalibrated

Next ==
  \/ Connect \/ HangUp
  \/ \E kind \in Kind, len \in LineLens : SendLine(kind, len)
  \/ PicoStep
  \/ LoseRequest \/ LoseReply
  \/ ZeroStep

Spec == Init /\ [][Next]_vars

\* The loop goes round while the program runs, and a deadline passes some time.
FairSpec == Spec /\ WF_vars(ZeroStep) /\ SF_vars(Timeout)

-----------------------------------------------------------------------------
Line == 1 .. Len(lines)

TypeOK ==
  /\ at \in {"poll", "link", "process", "accept", "read", "timeout", "ended"}
  /\ then \in {"poll", "accept", "timeout"}
  /\ ready \subseteq {"link", "listen", "client"}
  /\ client \in 0 .. sessions /\ sessions \in 0 .. MaxSessions
  /\ Len(buf) <= BufSize
  /\ waiting \in 0 .. Len(lines) /\ calibrating \in 0 .. Len(lines)
  /\ done \subseteq Line
  /\ \A i \in DOMAIN to_pico : to_pico[i] \in Line
  /\ \A i \in DOMAIN to_zero : to_zero[i] \in [line : Line, result : {"ok", "busy"}]

\* Lines that fit the buffer have one answer, others one for each part.
Fits(line) == lines[line].len <= BufSize

\* The lines a client got an answer to, and the one that waits for its reply.
Taken(c) ==
  {answers[i].line : i \in {i \in DOMAIN answers : answers[i].client = c}}
    \cup {n \in {waiting} : c = client /\ n # 0}

\* A second answer for the same line is only for the rest of an over-long one.
Follows(m, n) == n < m \/ (n = m /\ ~Fits(n))

\* Each client gets the answers to its own lines, in their order and without a
\* gap.
AnswersInOrder ==
  /\ \A c \in 1 .. sessions :
       LET own == {n \in Line : lines[n].client = c}
       IN  /\ Taken(c) \subseteq own
           /\ \A n \in Taken(c), m \in own : m < n => m \in Taken(c)
  /\ \A i, j \in DOMAIN answers :
       i < j /\ answers[i].client = answers[j].client
         => Follows(answers[j].line, answers[i].line)
  /\ \A i \in DOMAIN answers :
       waiting # 0 /\ answers[i].client = client => Follows(waiting, answers[i].line)

\* A request was given up: its client got `timeout` or is gone.
Abandoned(line) ==
  \/ lines[line].client # client
  \/ \E i \in DOMAIN answers : answers[i].line = line /\ answers[i].text = "timeout"

\* `ok` means that the Pico did the request the result is of (README 7.2).  The
\* result of another request can only be that of an earlier one of the same
\* kind, and only after a request of that kind was given up: from then on each
\* reply may answer the request after its own.
OwnUnlessAbandoned ==
  \A i \in DOMAIN answers :
    LET a == answers[i]
    IN  /\ a.text = "ok" => a.from \in done
        /\ a.from # 0 /\ a.from # a.line =>
             /\ a.from < a.line
             /\ lines[a.from].kind = lines[a.line].kind
             /\ \E given_up \in 1 .. a.line - 1 :
                  lines[given_up].kind = lines[a.line].kind /\ Abandoned(given_up)

\* Every line of a client is answered unless the client leaves, is sent away or
\* the program ends.
Answered(line) == \E i \in DOMAIN answers : answers[i].line = line
Settled(line) == Answered(line) \/ client # lines[line].client \/ hung
EveryLineAnswered ==
  \A n \in 1 .. MaxLines : (n \in Line) ~> (n \in Line /\ Settled(n))
=============================================================================
