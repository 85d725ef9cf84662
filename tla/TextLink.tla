------------------------------ MODULE TextLink ------------------------------
(***************************************************************************)
(* Log lines over the UART link: the queue of src/pico/lib/log, the text   *)
(* and text ack messages of src/common/comm, the main loop of the Pico as   *)
(* far as it decides when the link is read, and the Zero's on_text.         *)
(*                                                                         *)
(* Each handler is an operator on the record of the process that runs it,  *)
(* so a handler that calls another is written as it is in the code.  A line *)
(* is the number of its place among all lines the Pico has queued; the text *)
(* itself is abstracted to that number and a length.                        *)
(***************************************************************************)
EXTENDS Comm, Integers, Sequences

CONSTANTS
  QueueLimit,    \* CONF_PICO_LOG_QUEUE
  LineLengths,   \* lengths a line may have
  MaxLines,      \* bound: lines logged by callers
  MaxLosses,     \* bound: frames lost on the wire
  MaxInTransit   \* bound: frames on the wire when a resend timer may expire

ASSUME TextLinkAssumption ==
  /\ QueueLimit \in Nat
  /\ LineLengths \subseteq Nat
  /\ LineLengths # {}
  /\ MaxLines \in Nat
  /\ MaxLosses \in Nat
  /\ MaxInTransit \in Nat

VARIABLES
  pico,    \* RAM of the Pico, and the bytes it has sent that are not yet read
  zero,    \* the same of the Zero
  phase,   \* where the Pico's main is: "setup", "steps" or "read"
  losses   \* frames lost so far

vars == <<pico, zero, phase, losses>>

NoLine == 0
Entry == [id : Nat, len : Nat]
TextFrame == [counter : Counter, id : Nat]
AckFrame == [counter : Counter, of : Counter]

PicoState ==
  [queue : Seq(Entry), queued_bytes : Int,
   in_flight : BOOLEAN, in_flight_counter : Counter,
   tx_text : Counter, rx_ack : RxSlot, logged : Nat, out : Seq(TextFrame)]

ZeroState ==
  [rx_text : RxSlot, tx_ack : Counter, writing : Nat,
   log : Seq(Nat), out : Seq(AckFrame)]

\* What the environment decides inside a call of the log: whether the malloc of
\* the entry and the one of the frame succeed, and whether the resend timer of
\* the line in flight has expired.
Outcome == [entry : BOOLEAN, frame : BOOLEAN, expired : BOOLEAN]

-----------------------------------------------------------------------------
(* The Pico's log.                                                          *)

Pop(p) ==
  [p EXCEPT !.queue = Tail(@), !.queued_bytes = @ - Head(p.queue).len]

SendText(p, counter) ==
  [p EXCEPT !.out = Append(@, [counter |-> counter, id |-> Head(p.queue).id])]

\* comm_send_text counts only a text that was sent; without memory the line
\* stays for the next log_poll.
SendHead(p, sent) ==
  IF sent
  THEN [SendText(p, p.tx_text) EXCEPT
          !.in_flight = TRUE,
          !.in_flight_counter = p.tx_text,
          !.tx_text = Inc(@)]
  ELSE p

\* Mutant: a late ack of an earlier line is taken for the line in flight.
OnAck_AnyCounter(p, counter, sent) ==
  IF p.queue = <<>> \/ ~p.in_flight
  THEN p
  ELSE LET rest == [Pop(p) EXCEPT !.in_flight = FALSE]
       IN  IF rest.queue = <<>> THEN rest ELSE SendHead(rest, sent)

\* Mutant: an ack counts although the line now at the head was never sent.
OnAck_NotInFlight(p, counter, sent) ==
  IF p.queue = <<>> \/ counter # p.in_flight_counter
  THEN p
  ELSE LET rest == [Pop(p) EXCEPT !.in_flight = FALSE]
       IN  IF rest.queue = <<>> THEN rest ELSE SendHead(rest, sent)

OnAck(p, counter, sent) ==
  IF p.queue = <<>> \/ ~p.in_flight \/ counter # p.in_flight_counter
  THEN p
  ELSE LET rest == [Pop(p) EXCEPT !.in_flight = FALSE]
       IN  IF rest.queue = <<>> THEN rest ELSE SendHead(rest, sent)

\* Mutant: a line is sent once only.
LogPoll_NoResend(p, o) ==
  IF p.queue # <<>> /\ ~p.in_flight THEN SendHead(p, o.frame) ELSE p

\* Mutant: the line is sent again as a new text, with a counter of its own.
LogPoll_NewCounter(p, o) ==
  IF p.queue = <<>> THEN p
  ELSE IF ~p.in_flight \/ o.expired THEN SendHead(p, o.frame)
  ELSE p

LogPoll(p, o) ==
  IF p.queue = <<>> THEN p
  ELSE IF ~p.in_flight THEN SendHead(p, o.frame)
  ELSE IF o.expired /\ o.frame THEN SendText(p, p.in_flight_counter)
  ELSE p

\* vlog: always queues, even past the limit, and polls.
Vlog(p, len, o) ==
  IF o.entry
  THEN LogPoll([p EXCEPT !.queue = Append(@, [id |-> p.logged + 1, len |-> len]),
                         !.queued_bytes = @ + len,
                         !.logged = @ + 1], o)
  ELSE p

\* Mutant: the pause has no end.
LogFull_Always(p) == TRUE

LogFull(p) == p.queued_bytes >= QueueLimit

-----------------------------------------------------------------------------
(* Receiving: handle_frame for the two types, and the handlers it calls.     *)

\* Confirms the text with this counter; the ack has a counter of its own.
SendTextAck(z, counter, sent) ==
  IF sent
  THEN [z EXCEPT !.out = Append(@, [counter |-> z.tx_ack, of |-> counter]),
                 !.tx_ack = Inc(@)]
  ELSE z

\* Mutant: a resent text is taken as a new one.
ReceiveText_NoDuplicates(z, f, sent) ==
  SendTextAck([z EXCEPT !.rx_text = Taken(f.counter), !.writing = f.id],
              f.counter, sent)

\* A resent text is confirmed again and not delivered.  A new one is confirmed
\* before its handler runs: "writing" is the line on_text has yet to log.
ReceiveText(z, f, sent) ==
  IF Resent(z.rx_text, f.counter)
  THEN SendTextAck(z, f.counter, sent)
  ELSE SendTextAck([z EXCEPT !.rx_text = Taken(f.counter), !.writing = f.id],
                   f.counter, sent)

\* A gap in the ack counters queues a warning before the ack is handled.
ReceiveAck(p, f, len, o, sent) ==
  LET warned == IF Lost(p.rx_ack, f.counter) THEN Vlog(p, len, o) ELSE p
  IN  OnAck([warned EXCEPT !.rx_ack = Taken(f.counter)], f.of, sent)

-----------------------------------------------------------------------------
(* The system.                                                              *)

\* The bound on the wire: a timer expires only while there is room.
TimerBound(o) == o.expired => Len(pico.out) + Len(zero.out) < MaxInTransit

\* uart_open logs one line, the n-th, before log_open connects the log to the
\* link.
PicoBoot(n, len) ==
  [queue |-> <<[id |-> n, len |-> len]>>, queued_bytes |-> len,
   in_flight |-> FALSE, in_flight_counter |-> 0,
   tx_text |-> 0, rx_ack |-> RxOpen, logged |-> n, out |-> <<>>]

ZeroStart ==
  [rx_text |-> RxOpen, tx_ack |-> 0, writing |-> NoLine,
   log |-> <<>>, out |-> <<>>]

Init ==
  /\ \E len \in LineLengths : pico = PicoBoot(1, len)
  /\ zero = ZeroStart
  /\ phase = "setup"
  /\ losses = 0

\* Drivers and handlers log at any place of the main.
LogLine(len, o) ==
  /\ pico.logged < MaxLines
  /\ TimerBound(o)
  /\ pico' = Vlog(pico, len, o)
  /\ UNCHANGED <<zero, phase, losses>>

\* The head of the loop: pause while the queue is full.
LoopHead(p) == IF LogFull(p) THEN "read" ELSE "steps"

SetupDone ==
  /\ phase = "setup"
  /\ phase' = LoopHead(pico)
  /\ UNCHANGED <<pico, zero, losses>>

\* imu_step, gps_step and can_step are done, read_link is next.
StepsDone ==
  /\ phase = "steps"
  /\ phase' = "read"
  /\ UNCHANGED <<pico, zero, losses>>

\* read_link takes a text ack.
PicoReceive(len, o, sent) ==
  /\ phase = "read"
  /\ zero.out # <<>>
  /\ TimerBound(o)
  /\ pico' = ReceiveAck(pico, Head(zero.out), len, o, sent)
  /\ zero' = [zero EXCEPT !.out = Tail(@)]
  /\ UNCHANGED <<phase, losses>>

\* read_link found no more bytes: log_poll, then the head of the loop.
PicoPoll(o) ==
  /\ phase = "read"
  /\ TimerBound(o)
  /\ pico' = LogPoll(pico, o)
  /\ phase' = LoopHead(pico')
  /\ UNCHANGED <<zero, losses>>

ZeroReceive(sent) ==
  /\ zero.writing = NoLine
  /\ pico.out # <<>>
  /\ zero' = ReceiveText(zero, Head(pico.out), sent)
  /\ pico' = [pico EXCEPT !.out = Tail(@)]
  /\ UNCHANGED <<phase, losses>>

\* on_text gives the line to the Zero's log, which takes it here.  It does not ask:
\* TextLinkRestarts has writes that fail.
ZeroWrite ==
  /\ zero.writing # NoLine
  /\ zero' = [zero EXCEPT !.log = Append(@, zero.writing), !.writing = NoLine]
  /\ UNCHANGED <<pico, phase, losses>>

\* A frame is lost without a trace, or its bytes are damaged and fail the CRC.
\* The Zero reports that to its own log, the Pico queues a line about it.
LoseText ==
  /\ losses < MaxLosses
  /\ pico.out # <<>>
  /\ pico' = [pico EXCEPT !.out = Tail(@)]
  /\ losses' = losses + 1
  /\ UNCHANGED <<zero, phase>>

LoseAck ==
  /\ losses < MaxLosses
  /\ zero.out # <<>>
  /\ zero' = [zero EXCEPT !.out = Tail(@)]
  /\ losses' = losses + 1
  /\ UNCHANGED <<pico, phase>>

DamageAck(len, o) ==
  /\ phase = "read"
  /\ losses < MaxLosses
  /\ zero.out # <<>>
  /\ TimerBound(o)
  /\ pico' = Vlog(pico, len, o)
  /\ zero' = [zero EXCEPT !.out = Tail(@)]
  /\ losses' = losses + 1
  /\ UNCHANGED phase

Next ==
  \/ \E len \in LineLengths, o \in Outcome : LogLine(len, o)
  \/ SetupDone
  \/ StepsDone
  \/ \E len \in LineLengths, o \in Outcome, sent \in BOOLEAN :
       PicoReceive(len, o, sent)
  \/ \E o \in Outcome : PicoPoll(o)
  \/ \E sent \in BOOLEAN : ZeroReceive(sent)
  \/ ZeroWrite
  \/ LoseText
  \/ LoseAck
  \/ \E len \in LineLengths, o \in Outcome : DamageAck(len, o)

Spec == Init /\ [][Next]_vars

Good == [entry |-> TRUE, frame |-> TRUE, expired |-> TRUE]

\* Both loops run for ever; malloc does not fail for ever, time passes, and the
\* line is not damaged for ever (MaxLosses).
Fairness ==
  /\ WF_vars(SetupDone)
  /\ WF_vars(StepsDone)
  /\ SF_vars(\E len \in LineLengths, o \in Outcome, sent \in BOOLEAN :
               PicoReceive(len, o, sent))
  /\ SF_vars(PicoPoll(Good))
  /\ SF_vars(ZeroReceive(TRUE))
  /\ WF_vars(ZeroWrite)

FairSpec == Spec /\ Fairness

-----------------------------------------------------------------------------
(* Properties.                                                              *)

\* Lines the Pico has dropped from its queue, and lines the Zero has taken.
Released == pico.logged - Len(pico.queue)
Accepted == Len(zero.log) + (IF zero.writing = NoLine THEN 0 ELSE 1)

\* Every variable keeps its type; the counters of comm.c stay in a byte.
TypeOK ==
  /\ pico \in PicoState
  /\ zero \in ZeroState
  /\ phase \in {"setup", "steps", "read"}
  /\ losses \in 0 .. MaxLosses

\* The Zero's log holds the Pico's lines in the order they were queued, each one
\* once and without a gap, whatever the wire loses and however often log_poll
\* resends (comm.c handle_frame, log.c on_ack).
FileInOrder == \A i \in 1 .. Len(zero.log) : zero.log[i] = i

\* The Pico drops no line the Zero has not taken: neither a late ack of an
\* earlier line nor one for a line that was never sent releases the head.
ReleasedIsAccepted == Released <= Accepted

\* A text never reaches the Zero with a gap in its counter: frames lost on the
\* way are resends, so the Zero reports no lost text.
TextNeverJumps ==
  pico.out # <<>> => LET c == Head(pico.out).counter
                     IN  Resent(zero.rx_text, c) \/ ~Lost(zero.rx_text, c)

\* The text link implements the relay of README 10.2.
Relay ==
  INSTANCE LogRelay WITH
    logged <- pico.logged, released <- Released,
    taken <- Accepted, file <- zero.log
ImplementsRelay == Relay!Spec

\* Every line the Pico has queued reaches the Zero's log.
EveryLineArrives ==
  \A n \in 1 .. MaxLines + 2 * MaxLosses :
    pico.logged >= n ~> Len(zero.log) >= n

\* A pause for a full queue ends: the Pico comes back to its sensors.
PauseEnds == []<>(phase = "steps")
=============================================================================
