--------------------------- MODULE TextLinkProofs ---------------------------
(***************************************************************************)
(* The inductive invariants of TextLink and of TextLinkRestarts, and the    *)
(* proofs that rest on them.                                                *)
(***************************************************************************)
EXTENDS TextLinkRestarts, FiniteSetTheorems, TLAPS

\* The invariant is stated on the two records, so that it can be carried
\* through the operators a handler is composed of.
Dropped(p) == p.logged - Len(p.queue)
TakenBy(z) == Len(z.log) + (IF z.writing = NoLine THEN 0 ELSE 1)

\* The counter of the line in flight, or else the next one to be used.
Base(p) == IF p.in_flight THEN p.in_flight_counter ELSE p.tx_text

\* The queue holds the last lines logged, and the head is the one in flight.
QueueOK(p) ==
  /\ Len(p.queue) <= p.logged
  /\ \A i \in 1 .. Len(p.queue) : p.queue[i].id = Dropped(p) + i
  /\ p.in_flight => p.queue # <<>> /\ p.tx_text = Inc(p.in_flight_counter)

LogOK(z) ==
  /\ \A i \in 1 .. Len(z.log) : z.log[i] = i
  /\ z.writing \in {NoLine, Len(z.log) + 1}
  /\ z.rx_text.seen <=> TakenBy(z) > 0

\* The Zero is level with the Pico, or one line ahead: the line in flight.
LevelOK(p, z) ==
  \/ /\ TakenBy(z) = Dropped(p)
     /\ z.rx_text.seen => Inc(z.rx_text.counter) = Base(p)
  \/ /\ TakenBy(z) = Dropped(p) + 1
     /\ p.in_flight
     /\ z.rx_text.counter = Base(p)

\* A text on the wire is the line in flight, or the one before it.
CurrentText(p, f) == p.in_flight /\ f.id = Dropped(p) + 1 /\ f.counter = Base(p)
OldText(p, f) == f.id = Dropped(p) /\ Inc(f.counter) = Base(p)

TextsOK(p, z) ==
  /\ \A i \in 1 .. Len(p.out) :
       /\ CurrentText(p, p.out[i]) \/ OldText(p, p.out[i])
       /\ p.out[i].id >= TakenBy(z)
       /\ p.out[i].id # NoLine
  /\ \A i, j \in 1 .. Len(p.out) : i < j => p.out[i].id <= p.out[j].id

\* An ack on the wire is for the line before the one in flight, or for that one
\* and then the Zero has taken it; no old ack follows a current one.
OldAck(p, of) == Inc(of) = Base(p)
CurrentAck(p, z, of) ==
  p.in_flight /\ TakenBy(z) = Dropped(p) + 1 /\ of = Base(p)

AcksOK(p, z) ==
  /\ \A i \in 1 .. Len(z.out) :
       OldAck(p, z.out[i].of) \/ CurrentAck(p, z, z.out[i].of)
  /\ \A i, j \in 1 .. Len(z.out) :
       i < j /\ z.out[i].of = Base(p) => z.out[j].of = Base(p)

LinkOK(p, z) ==
  /\ p \in PicoState
  /\ z \in ZeroState
  /\ QueueOK(p)
  /\ LogOK(z)
  /\ LevelOK(p, z)
  /\ TextsOK(p, z)
  /\ AcksOK(p, z)

\* The same of an ack the Pico has just taken off the wire.
AckOK(p, z, of) ==
  /\ of \in Counter
  /\ \/ OldAck(p, of)
     \/ /\ CurrentAck(p, z, of)
        /\ \A i \in 1 .. Len(z.out) : z.out[i].of = Base(p)

IInv == TypeOK /\ LinkOK(pico, zero)

\* q is p after steps that drop no line and settle no other line in flight.
Steady(p, q) ==
  /\ Dropped(q) = Dropped(p)
  /\ Base(q) = Base(p)
  /\ p.in_flight => q.in_flight

-----------------------------------------------------------------------------
(* Counters.                                                                *)

\* The next counter, without the modulus.
LEMMA IncValue ==
  ASSUME NEW c \in Counter
  PROVE  /\ c \in Nat /\ c <= CounterMod - 1 /\ CounterMod \in Nat
         /\ CounterMod >= 2
         /\ c = CounterMod - 1 => Inc(c) = 0
         /\ c # CounterMod - 1 => Inc(c) = c + 1
<1>1. CounterMod \in Nat /\ CounterMod >= 2 /\ c \in Nat /\ c + 1 <= CounterMod
  BY CounterModAssumption DEF Counter
<1>2. ASSUME c = CounterMod - 1
      PROVE  Inc(c) = 0
  <2>1. c + 1 = CounterMod
    BY <1>1, <1>2
  <2>2. CounterMod % CounterMod = 0
    BY <1>1
  <2> QED BY <2>1, <2>2 DEF Inc
<1>3. ASSUME c # CounterMod - 1
      PROVE  Inc(c) = c + 1
  <2>1. c + 1 < CounterMod
    BY <1>1, <1>3
  <2>2. (c + 1) % CounterMod = c + 1
    BY <1>1, <2>1
  <2> QED BY <2>2 DEF Inc
<1> QED BY <1>1, <1>2, <1>3

\* A counter differs from the one that follows it, and two counters that are
\* followed by the same one are equal: this is what tells a resent text from a
\* new one, and what needs at least two counters.
LEMMA IncFacts ==
  /\ \A c \in Counter : Inc(c) \in Counter /\ Inc(c) # c
  /\ \A c, d \in Counter : Inc(c) = Inc(d) => c = d
<1>1. ASSUME NEW c \in Counter
      PROVE  Inc(c) \in Counter /\ Inc(c) # c
  BY IncValue DEF Counter
<1>2. ASSUME NEW c \in Counter, NEW d \in Counter, c # d
      PROVE  Inc(c) # Inc(d)
  <2>1. /\ c \in Nat /\ c <= CounterMod - 1 /\ CounterMod \in Nat
        /\ c = CounterMod - 1 => Inc(c) = 0
        /\ c # CounterMod - 1 => Inc(c) = c + 1
    BY IncValue
  <2>2. /\ d \in Nat /\ d <= CounterMod - 1
        /\ d = CounterMod - 1 => Inc(d) = 0
        /\ d # CounterMod - 1 => Inc(d) = d + 1
    BY IncValue
  <2> QED BY <1>2, <2>1, <2>2
<1> QED BY <1>1, <1>2

-----------------------------------------------------------------------------
(* Sequences.                                                               *)

LEMMA AppendFacts ==
  ASSUME NEW S, NEW s \in Seq(S), NEW e \in S
  PROVE  /\ Append(s, e) \in Seq(S)
         /\ Len(s) \in Nat
         /\ Len(Append(s, e)) = Len(s) + 1
         /\ \A i \in 1 .. Len(s) : Append(s, e)[i] = s[i] /\ s[i] \in S
         /\ Append(s, e)[Len(s) + 1] = e
  OBVIOUS

LEMMA TailFacts ==
  ASSUME NEW S, NEW s \in Seq(S), s # <<>>
  PROVE  /\ Tail(s) \in Seq(S)
         /\ Len(s) \in Nat /\ Len(s) >= 1
         /\ Head(s) = s[1] /\ Head(s) \in S
         /\ Len(Tail(s)) = Len(s) - 1
         /\ \A i \in 1 .. Len(s) - 1 : Tail(s)[i] = s[i + 1]
  OBVIOUS

-----------------------------------------------------------------------------
(* The operators of the Pico.                                               *)

\* The head of the queue is the oldest line that is not dropped.
LEMMA HeadId ==
  ASSUME NEW p \in PicoState, QueueOK(p), p.queue # <<>>
  PROVE  /\ Head(p.queue) \in Entry
         /\ Head(p.queue).id = Dropped(p) + 1
         /\ Dropped(p) \in Nat
<1>1. p.queue \in Seq(Entry) /\ Len(p.queue) \in Nat /\ Len(p.queue) # 0
  BY DEF PicoState
<1>2. Head(p.queue) = p.queue[1] /\ 1 \in 1 .. Len(p.queue)
  BY <1>1
<1> QED BY <1>1, <1>2 DEF QueueOK, Dropped, PicoState

\* The line in flight may be put on the wire, behind the texts already there.
LEMMA AppendTextOK ==
  ASSUME NEW p \in PicoState, NEW q \in PicoState, NEW z, NEW f \in TextFrame,
         LevelOK(p, z), TextsOK(p, z), CurrentText(q, f),
         q.out = Append(p.out, f), p.in_flight => q.in_flight,
         Dropped(p) \in Nat, Dropped(q) = Dropped(p), Base(q) = Base(p)
  PROVE  TextsOK(q, z)
<1>1. /\ Len(p.out) \in Nat
      /\ Len(q.out) = Len(p.out) + 1
      /\ \A i \in 1 .. Len(p.out) : q.out[i] = p.out[i] /\ p.out[i] \in TextFrame
      /\ q.out[Len(p.out) + 1] = f
  <2>1. p.out \in Seq(TextFrame)
    BY DEF PicoState
  <2> QED BY <2>1, AppendFacts
<1>2. TakenBy(z) = Dropped(p) \/ TakenBy(z) = Dropped(p) + 1
  BY DEF LevelOK
<1>3. f.id = Dropped(p) + 1 /\ f.id >= TakenBy(z) /\ f.id # NoLine
  BY <1>2 DEF CurrentText, NoLine
<1>4. \A i \in 1 .. Len(p.out) :
        /\ CurrentText(q, p.out[i]) \/ OldText(q, p.out[i])
        /\ p.out[i].id >= TakenBy(z)
        /\ p.out[i].id # NoLine
        /\ p.out[i].id <= f.id
  BY <1>1, <1>3 DEF TextsOK, CurrentText, OldText
<1>5. \A i, j \in 1 .. Len(p.out) : i < j => p.out[i].id <= p.out[j].id
  BY DEF TextsOK
<1> QED BY <1>1, <1>3, <1>4, <1>5 DEF TextsOK

\* Sending the line in flight once more.
LEMMA ResendFacts ==
  ASSUME NEW p \in PicoState, QueueOK(p), p.in_flight
  PROVE  LET f == [counter |-> p.in_flight_counter, id |-> Head(p.queue).id]
             q == SendText(p, p.in_flight_counter)
         IN  /\ f \in TextFrame /\ f.counter = p.in_flight_counter
             /\ f.id = Dropped(p) + 1 /\ Dropped(p) \in Nat
             /\ q \in PicoState /\ QueueOK(q) /\ q.out = Append(p.out, f)
             /\ q.queue = p.queue /\ q.logged = p.logged
             /\ q.in_flight /\ q.in_flight_counter = p.in_flight_counter
             /\ Dropped(q) = Dropped(p)
             /\ Base(q) = Base(p) /\ Base(p) = p.in_flight_counter
<1> DEFINE f == [counter |-> p.in_flight_counter, id |-> Head(p.queue).id]
           q == SendText(p, p.in_flight_counter)
<1>1. Head(p.queue).id = Dropped(p) + 1 /\ Dropped(p) \in Nat
  BY HeadId DEF QueueOK
<1>2. f \in TextFrame /\ f.counter = p.in_flight_counter /\ f.id = Dropped(p) + 1
  BY <1>1 DEF PicoState, TextFrame
<1>3. q = [p EXCEPT !.out = Append(p.out, f)]
  BY DEF SendText
<1> HIDE DEF f, q
<1>4. Append(p.out, f) \in Seq(TextFrame)
  BY <1>2, AppendFacts DEF PicoState
<1>5. /\ q \in PicoState
      /\ q.queue = p.queue /\ q.logged = p.logged /\ q.in_flight = p.in_flight
      /\ q.in_flight_counter = p.in_flight_counter /\ q.tx_text = p.tx_text
      /\ q.out = Append(p.out, f)
  BY <1>3, <1>4 DEF PicoState
<1>6. /\ Dropped(q) = Dropped(p) /\ QueueOK(q)
      /\ Base(q) = Base(p) /\ Base(p) = p.in_flight_counter
  BY <1>5 DEF Dropped, QueueOK, Base
<1> QED BY <1>1, <1>2, <1>5, <1>6 DEF f, q

LEMMA ResendOK ==
  ASSUME NEW p, NEW z, LinkOK(p, z), p.in_flight
  PROVE  LET q == SendText(p, p.in_flight_counter)
         IN  /\ LinkOK(q, z)
             /\ q.logged = p.logged /\ Steady(p, q)
<1> DEFINE f == [counter |-> p.in_flight_counter, id |-> Head(p.queue).id]
           q == SendText(p, p.in_flight_counter)
<1>1. /\ p \in PicoState /\ z \in ZeroState
      /\ QueueOK(p) /\ LogOK(z) /\ LevelOK(p, z) /\ TextsOK(p, z) /\ AcksOK(p, z)
  BY DEF LinkOK
<1>2. /\ f \in TextFrame /\ f.counter = p.in_flight_counter
      /\ f.id = Dropped(p) + 1 /\ Dropped(p) \in Nat
      /\ q \in PicoState /\ QueueOK(q) /\ q.out = Append(p.out, f)
      /\ q.logged = p.logged /\ q.in_flight
      /\ Dropped(q) = Dropped(p)
      /\ Base(q) = Base(p) /\ Base(p) = p.in_flight_counter
  BY <1>1, ResendFacts
<1> HIDE DEF f, q
<1>3. LevelOK(q, z) /\ AcksOK(q, z)
  BY <1>1, <1>2 DEF LevelOK, AcksOK, OldAck, CurrentAck
<1>4. TextsOK(q, z)
  <2>1. CurrentText(q, f)
    BY <1>2 DEF CurrentText
  <2> QED BY <1>1, <1>2, <2>1, AppendTextOK
<1> QED BY <1>1, <1>2, <1>3, <1>4 DEF LinkOK, Steady, q

\* Sending the head for the first time puts it in flight.
LEMMA SendHeadFacts ==
  ASSUME NEW p \in PicoState, QueueOK(p), p.queue # <<>>
  PROVE  LET f == [counter |-> p.tx_text, id |-> Head(p.queue).id]
             q == SendHead(p, TRUE)
         IN  /\ f \in TextFrame /\ f.counter = p.tx_text
             /\ f.id = Dropped(p) + 1 /\ Dropped(p) \in Nat
             /\ q \in PicoState /\ QueueOK(q) /\ q.out = Append(p.out, f)
             /\ q.queue = p.queue /\ q.logged = p.logged
             /\ q.in_flight /\ q.in_flight_counter = p.tx_text
             /\ Dropped(q) = Dropped(p) /\ Base(q) = p.tx_text
<1> DEFINE f == [counter |-> p.tx_text, id |-> Head(p.queue).id]
           q == SendHead(p, TRUE)
<1>1. Head(p.queue).id = Dropped(p) + 1 /\ Dropped(p) \in Nat
  BY HeadId
<1>2. f \in TextFrame /\ f.counter = p.tx_text /\ f.id = Dropped(p) + 1
  BY <1>1 DEF PicoState, TextFrame
<1>3. q = [p EXCEPT !.out = Append(p.out, f), !.in_flight = TRUE,
                    !.in_flight_counter = p.tx_text, !.tx_text = Inc(p.tx_text)]
  BY DEF SendText, SendHead, PicoState
<1> HIDE DEF f, q
<1>4. Append(p.out, f) \in Seq(TextFrame) /\ Inc(p.tx_text) \in Counter
  BY <1>2, AppendFacts, IncFacts DEF PicoState
<1>5. /\ q \in PicoState
      /\ q.queue = p.queue /\ q.logged = p.logged /\ q.in_flight
      /\ q.in_flight_counter = p.tx_text /\ q.tx_text = Inc(p.tx_text)
      /\ q.out = Append(p.out, f)
  BY <1>3, <1>4 DEF PicoState
<1>6. Dropped(q) = Dropped(p) /\ QueueOK(q) /\ Base(q) = p.tx_text
  BY <1>5 DEF Dropped, QueueOK, Base
<1> QED BY <1>1, <1>2, <1>5, <1>6 DEF f, q

LEMMA SendHeadOK ==
  ASSUME NEW p, NEW z, NEW sent \in BOOLEAN,
         LinkOK(p, z), p.queue # <<>>, ~p.in_flight
  PROVE  LET q == SendHead(p, sent)
         IN  /\ LinkOK(q, z)
             /\ q.logged = p.logged /\ Steady(p, q)
<1>0. CASE ~sent
  BY <1>0 DEF SendHead, Steady
<1>s. CASE sent
  <2> DEFINE f == [counter |-> p.tx_text, id |-> Head(p.queue).id]
             q == SendHead(p, TRUE)
  <2>1. /\ p \in PicoState /\ z \in ZeroState
        /\ QueueOK(p) /\ LogOK(z) /\ LevelOK(p, z) /\ TextsOK(p, z) /\ AcksOK(p, z)
    BY DEF LinkOK
  <2>2. /\ f \in TextFrame /\ f.counter = p.tx_text
        /\ f.id = Dropped(p) + 1 /\ Dropped(p) \in Nat
        /\ q \in PicoState /\ QueueOK(q) /\ q.out = Append(p.out, f)
        /\ q.logged = p.logged /\ q.in_flight
        /\ Dropped(q) = Dropped(p) /\ Base(q) = p.tx_text /\ Base(p) = p.tx_text
    BY <2>1, SendHeadFacts DEF Base
  <2>3. SendHead(p, sent) = q
    BY <1>s DEF SendHead
  <2> HIDE DEF f, q
  <2>4. LevelOK(q, z) /\ AcksOK(q, z)
    BY <2>1, <2>2 DEF LevelOK, AcksOK, OldAck, CurrentAck
  <2>5. TextsOK(q, z)
    <3>1. CurrentText(q, f)
      BY <2>2 DEF CurrentText
    <3> QED BY <2>1, <2>2, <3>1, AppendTextOK
  <2> QED BY <2>1, <2>2, <2>3, <2>4, <2>5 DEF LinkOK, Steady
<1> QED BY <1>0, <1>s

LEMMA LogPollOK ==
  ASSUME NEW p, NEW z, NEW o \in Outcome, LinkOK(p, z)
  PROVE  LET q == LogPoll(p, o)
         IN  LinkOK(q, z) /\ q.logged = p.logged /\ Steady(p, q)
<1>1. o.frame \in BOOLEAN /\ o.expired \in BOOLEAN
  BY DEF Outcome
<1>2. CASE p.queue # <<>> /\ ~p.in_flight
  BY <1>1, <1>2, SendHeadOK DEF LogPoll
<1>3. CASE p.queue # <<>> /\ p.in_flight /\ o.expired /\ o.frame
  BY <1>3, ResendOK DEF LogPoll
<1>4. CASE ~(p.queue # <<>> /\ ~p.in_flight)
           /\ ~(p.queue # <<>> /\ p.in_flight /\ o.expired /\ o.frame)
  BY <1>4 DEF LogPoll, Steady
<1> QED BY <1>2, <1>3, <1>4

\* A new line at the end of the queue.
LEMMA QueueLineFacts ==
  ASSUME NEW p \in PicoState, NEW len \in Nat, QueueOK(p)
  PROVE  LET q == [p EXCEPT !.queue = Append(@, [id |-> p.logged + 1, len |-> len]),
                            !.queued_bytes = @ + len, !.logged = @ + 1]
         IN  /\ q \in PicoState /\ QueueOK(q) /\ q.out = p.out
             /\ q.logged = p.logged + 1 /\ q.in_flight = p.in_flight
             /\ q.in_flight_counter = p.in_flight_counter
             /\ Dropped(q) = Dropped(p) /\ Base(q) = Base(p)
<1> DEFINE e == [id |-> p.logged + 1, len |-> len]
           q == [p EXCEPT !.queue = Append(p.queue, e),
                          !.queued_bytes = p.queued_bytes + len,
                          !.logged = p.logged + 1]
<1>1. e \in Entry /\ e.id = p.logged + 1
  BY DEF PicoState, Entry
<1>e. q = [p EXCEPT !.queue = Append(@, [id |-> p.logged + 1, len |-> len]),
                    !.queued_bytes = @ + len, !.logged = @ + 1]
  BY DEF PicoState
<1> HIDE DEF e
<1>2. /\ Append(p.queue, e) \in Seq(Entry)
      /\ Len(p.queue) \in Nat
      /\ Len(Append(p.queue, e)) = Len(p.queue) + 1
      /\ \A i \in 1 .. Len(p.queue) : Append(p.queue, e)[i] = p.queue[i]
      /\ Append(p.queue, e)[Len(p.queue) + 1] = e
  <2>1. p.queue \in Seq(Entry)
    BY DEF PicoState
  <2> QED BY <1>1, <2>1, AppendFacts
<1>n. p.logged \in Nat /\ p.logged + 1 \in Nat /\ p.queued_bytes + len \in Int
  BY DEF PicoState
<1>3. /\ q \in PicoState
      /\ q.queue = Append(p.queue, e) /\ q.logged = p.logged + 1
      /\ q.in_flight = p.in_flight /\ q.in_flight_counter = p.in_flight_counter
      /\ q.tx_text = p.tx_text /\ q.out = p.out
  BY <1>2, <1>n, Zenon DEF PicoState
<1> HIDE DEF q
<1>4. Dropped(q) = Dropped(p) /\ Base(q) = Base(p)
  <2>1. Len(q.queue) = Len(p.queue) + 1
    BY <1>2, <1>3
  <2>2. Dropped(q) = Dropped(p)
    <3>1. q.logged - Len(q.queue) = (p.logged + 1) - (Len(p.queue) + 1)
      BY <1>3, <2>1
    <3>2. p.logged \in Nat /\ Len(p.queue) \in Nat
      BY <1>2, <1>n
    <3>3. (p.logged + 1) - (Len(p.queue) + 1) = p.logged - Len(p.queue)
      BY <3>2
    <3> QED BY <3>1, <3>3 DEF Dropped
  <2>3. Base(q) = Base(p)
    BY <1>3 DEF Base
  <2> QED BY <2>2, <2>3
<1>5. QueueOK(q)
  <2>1. Len(q.queue) <= q.logged /\ q.queue # <<>>
    BY <1>2, <1>3, <1>n DEF QueueOK
  <2>2. ASSUME NEW i \in 1 .. Len(q.queue)
        PROVE  q.queue[i].id = Dropped(q) + i
    <3>1. CASE i = Len(p.queue) + 1
      <4>1. q.queue[i].id = p.logged + 1
        BY <1>1, <1>2, <1>3, <3>1
      <4>2. Dropped(p) + i = p.logged + 1
        BY <1>2, <1>n, <3>1 DEF Dropped
      <4> QED BY <1>4, <4>1, <4>2
    <3>2. CASE i # Len(p.queue) + 1
      <4>1. i \in 1 .. Len(p.queue)
        BY <1>2, <1>3, <2>2, <3>2
      <4> QED BY <1>2, <1>3, <1>4, <4>1 DEF QueueOK
    <3> QED BY <3>1, <3>2
  <2> QED BY <1>3, <2>1, <2>2 DEF QueueOK
<1>6. /\ q \in PicoState /\ QueueOK(q) /\ q.out = p.out
      /\ q.logged = p.logged + 1 /\ q.in_flight = p.in_flight
      /\ q.in_flight_counter = p.in_flight_counter
      /\ Dropped(q) = Dropped(p) /\ Base(q) = Base(p)
  BY <1>3, <1>4, <1>5
<1> QED BY <1>6, <1>e

LEMMA QueueLineOK ==
  ASSUME NEW p, NEW z, NEW len \in Nat, LinkOK(p, z)
  PROVE  LET q == [p EXCEPT !.queue = Append(@, [id |-> p.logged + 1, len |-> len]),
                            !.queued_bytes = @ + len, !.logged = @ + 1]
         IN  LinkOK(q, z) /\ q.logged = p.logged + 1 /\ Steady(p, q)
<1> DEFINE q == [p EXCEPT !.queue = Append(@, [id |-> p.logged + 1, len |-> len]),
                          !.queued_bytes = @ + len, !.logged = @ + 1]
<1>1. /\ p \in PicoState /\ z \in ZeroState
      /\ QueueOK(p) /\ LogOK(z) /\ LevelOK(p, z) /\ TextsOK(p, z) /\ AcksOK(p, z)
  BY DEF LinkOK
<1>2. /\ q \in PicoState /\ QueueOK(q) /\ q.out = p.out
      /\ q.logged = p.logged + 1 /\ q.in_flight = p.in_flight
      /\ Dropped(q) = Dropped(p) /\ Base(q) = Base(p)
  BY <1>1, QueueLineFacts
<1> HIDE DEF q
<1>3. LevelOK(q, z) /\ AcksOK(q, z)
  BY <1>1, <1>2 DEF LevelOK, AcksOK, OldAck, CurrentAck
<1>4. TextsOK(q, z)
  BY <1>1, <1>2 DEF TextsOK, CurrentText, OldText
<1> QED BY <1>1, <1>2, <1>3, <1>4 DEF LinkOK, Steady, q

LEMMA VlogOK ==
  ASSUME NEW p, NEW z, NEW len \in Nat, NEW o \in Outcome, LinkOK(p, z)
  PROVE  LET q == Vlog(p, len, o)
         IN  /\ LinkOK(q, z) /\ Steady(p, q)
             /\ q.logged = p.logged \/ q.logged = p.logged + 1
<1> DEFINE r == [p EXCEPT !.queue = Append(@, [id |-> p.logged + 1, len |-> len]),
                          !.queued_bytes = @ + len, !.logged = @ + 1]
<1>1. LinkOK(r, z) /\ r.logged = p.logged + 1 /\ Steady(p, r)
  BY QueueLineOK
<1> HIDE DEF r
<1>2. /\ LinkOK(LogPoll(r, o), z) /\ LogPoll(r, o).logged = r.logged
      /\ Steady(r, LogPoll(r, o))
  BY <1>1, LogPollOK
<1>3. CASE o.entry
  <2>1. Vlog(p, len, o) = LogPoll(r, o)
    BY <1>3 DEF Vlog, r
  <2> QED BY <1>1, <1>2, <2>1 DEF Steady
<1>4. CASE ~o.entry
  BY <1>4 DEF Vlog, Steady
<1> QED BY <1>3, <1>4

\* The head of the queue is dropped.
LEMMA ReleaseFacts ==
  ASSUME NEW p \in PicoState, QueueOK(p), p.in_flight
  PROVE  LET q == [Pop(p) EXCEPT !.in_flight = FALSE]
         IN  /\ q \in PicoState /\ QueueOK(q) /\ q.out = p.out
             /\ q.logged = p.logged /\ ~q.in_flight /\ q.tx_text = p.tx_text
             /\ Dropped(q) = Dropped(p) + 1 /\ Dropped(p) \in Nat
<1> DEFINE b == p.queued_bytes - Head(p.queue).len
           q == [Pop(p) EXCEPT !.in_flight = FALSE]
<1>1. /\ p.queue \in Seq(Entry) /\ p.logged \in Nat /\ p.queued_bytes \in Int
      /\ p.queue # <<>>
  BY DEF PicoState, QueueOK
<1>2. /\ Tail(p.queue) \in Seq(Entry) /\ Len(p.queue) \in Nat /\ Len(p.queue) >= 1
      /\ Len(Tail(p.queue)) = Len(p.queue) - 1
      /\ \A i \in 1 .. Len(p.queue) - 1 : Tail(p.queue)[i] = p.queue[i + 1]
      /\ Head(p.queue) \in Entry
  BY <1>1, TailFacts
<1>3. b \in Int
  BY <1>1, <1>2 DEF Entry
<1>4. q = [p EXCEPT !.queue = Tail(p.queue), !.queued_bytes = b, !.in_flight = FALSE]
  BY DEF Pop, PicoState
<1> HIDE DEF b, q
<1>5. /\ q \in PicoState
      /\ q.queue = Tail(p.queue) /\ q.logged = p.logged /\ ~q.in_flight
      /\ q.tx_text = p.tx_text /\ q.out = p.out
  BY <1>2, <1>3, <1>4, Zenon DEF PicoState
<1>6. Dropped(q) = Dropped(p) + 1 /\ Dropped(p) \in Nat
  BY <1>1, <1>2, <1>5 DEF Dropped, QueueOK
<1>7. QueueOK(q)
  <2>1. Len(q.queue) <= q.logged
    BY <1>1, <1>2, <1>5 DEF QueueOK
  <2>2. ASSUME NEW i \in 1 .. Len(q.queue)
        PROVE  q.queue[i].id = Dropped(q) + i
    <3>1. i + 1 \in 1 .. Len(p.queue) /\ q.queue[i] = p.queue[i + 1]
      BY <1>2, <1>5
    <3>2. p.queue[i + 1].id = Dropped(p) + (i + 1) /\ i \in Nat
      BY <1>2, <1>5, <3>1 DEF QueueOK
    <3> QED BY <1>6, <3>1, <3>2
  <2> QED BY <1>5, <2>1, <2>2 DEF QueueOK
<1> QED BY <1>5, <1>6, <1>7 DEF q

\* The head is dropped only by its own ack, when the Zero has taken the line.
LEMMA ReleaseOK ==
  ASSUME NEW p, NEW z, NEW of, LinkOK(p, z), AckOK(p, z, of),
         p.in_flight, of = p.in_flight_counter
  PROVE  LET q == [Pop(p) EXCEPT !.in_flight = FALSE]
         IN  /\ LinkOK(q, z)
             /\ q.logged = p.logged /\ Dropped(q) = Dropped(p) + 1
             /\ TakenBy(z) = Dropped(p) + 1
             /\ ~q.in_flight
<1> DEFINE q == [Pop(p) EXCEPT !.in_flight = FALSE]
<1>1. /\ p \in PicoState /\ z \in ZeroState
      /\ QueueOK(p) /\ LogOK(z) /\ LevelOK(p, z) /\ TextsOK(p, z) /\ AcksOK(p, z)
  BY DEF LinkOK
<1>2. /\ q \in PicoState /\ QueueOK(q) /\ q.out = p.out
      /\ q.logged = p.logged /\ ~q.in_flight /\ q.tx_text = p.tx_text
      /\ Dropped(q) = Dropped(p) + 1 /\ Dropped(p) \in Nat
  BY <1>1, ReleaseFacts
<1> HIDE DEF q
<1>3. Base(p) = of /\ Base(q) = Inc(of)
  BY <1>1, <1>2 DEF Base, QueueOK
<1>4. Inc(of) # of
  BY <1>1, IncFacts DEF PicoState
<1>5. CurrentAck(p, z, of) /\ \A i \in 1 .. Len(z.out) : z.out[i].of = of
  BY <1>3, <1>4 DEF AckOK, OldAck
<1>6. TakenBy(z) = Dropped(p) + 1 /\ z.rx_text.counter = of
  BY <1>1, <1>2, <1>3, <1>5 DEF CurrentAck, LevelOK
<1>7. LevelOK(q, z)
  BY <1>2, <1>3, <1>6 DEF LevelOK
<1>8. TextsOK(q, z)
  <2>1. ASSUME NEW i \in 1 .. Len(p.out)
        PROVE  OldText(q, p.out[i])
    BY <1>1, <1>2, <1>3, <1>6 DEF TextsOK, CurrentText, OldText
  <2> QED BY <1>1, <1>2, <2>1 DEF TextsOK
<1>9. AcksOK(q, z)
  BY <1>3, <1>4, <1>5 DEF AcksOK, OldAck
<1> QED BY <1>1, <1>2, <1>6, <1>7, <1>8, <1>9 DEF LinkOK, q

LEMMA OnAckOK ==
  ASSUME NEW p, NEW z, NEW of, NEW sent \in BOOLEAN, LinkOK(p, z), AckOK(p, z, of)
  PROVE  LET q == OnAck(p, of, sent)
         IN  /\ LinkOK(q, z)
             /\ q.logged = p.logged
             /\ \/ Dropped(q) = Dropped(p)
                \/ Dropped(q) = Dropped(p) + 1 /\ TakenBy(z) = Dropped(p) + 1
<1> DEFINE rest == [Pop(p) EXCEPT !.in_flight = FALSE]
<1>1. CASE p.queue = <<>> \/ ~p.in_flight \/ of # p.in_flight_counter
  BY <1>1 DEF OnAck
<1>2. CASE p.queue # <<>> /\ p.in_flight /\ of = p.in_flight_counter
  <2>1. /\ LinkOK(rest, z) /\ rest.logged = p.logged /\ ~rest.in_flight
        /\ Dropped(rest) = Dropped(p) + 1 /\ TakenBy(z) = Dropped(p) + 1
    BY <1>2, ReleaseOK
  <2>2. OnAck(p, of, sent) = IF rest.queue = <<>> THEN rest ELSE SendHead(rest, sent)
    BY <1>2 DEF OnAck
  <2> HIDE DEF rest
  <2>3. CASE rest.queue = <<>>
    BY <2>1, <2>2, <2>3
  <2>4. CASE rest.queue # <<>>
    BY <2>1, <2>2, <2>4, SendHeadOK DEF Steady
  <2> QED BY <2>3, <2>4
<1> QED BY <1>1, <1>2

-----------------------------------------------------------------------------
(* The wire.                                                                *)

\* A text leaves the wire, lost or received.
LEMMA DropTextOK ==
  ASSUME NEW p, NEW z, LinkOK(p, z), p.out # <<>>
  PROVE  LET q == [p EXCEPT !.out = Tail(@)]
         IN  LinkOK(q, z) /\ q.logged = p.logged /\ Steady(p, q) /\ q.queue = p.queue
<1> DEFINE q == [p EXCEPT !.out = Tail(p.out)]
<1>1. /\ p \in PicoState /\ z \in ZeroState
      /\ QueueOK(p) /\ LogOK(z) /\ LevelOK(p, z) /\ TextsOK(p, z) /\ AcksOK(p, z)
  BY DEF LinkOK
<1>e. q = [p EXCEPT !.out = Tail(@)]
  BY <1>1 DEF PicoState
<1>2. /\ Tail(p.out) \in Seq(TextFrame) /\ Len(p.out) \in Nat
      /\ Len(Tail(p.out)) = Len(p.out) - 1
      /\ \A i \in 1 .. Len(p.out) - 1 : Tail(p.out)[i] = p.out[i + 1]
  BY <1>1, TailFacts DEF PicoState
<1>3. /\ q \in PicoState
      /\ q.queue = p.queue /\ q.logged = p.logged /\ q.in_flight = p.in_flight
      /\ q.in_flight_counter = p.in_flight_counter
      /\ q.tx_text = p.tx_text /\ q.out = Tail(p.out)
  BY <1>1, <1>2, Zenon DEF PicoState
<1> HIDE DEF q
<1>4. Dropped(q) = Dropped(p) /\ Base(q) = Base(p)
  BY <1>3 DEF Dropped, Base
<1>5. QueueOK(q) /\ LevelOK(q, z) /\ AcksOK(q, z)
  BY <1>1, <1>3, <1>4 DEF QueueOK, LevelOK, AcksOK, OldAck, CurrentAck
<1>6. TextsOK(q, z)
  <2>1. ASSUME NEW i \in 1 .. Len(q.out)
        PROVE  i + 1 \in 1 .. Len(p.out) /\ q.out[i] = p.out[i + 1]
    BY <1>2, <1>3
  <2>2. \A i \in 1 .. Len(q.out) :
          /\ CurrentText(q, q.out[i]) \/ OldText(q, q.out[i])
          /\ q.out[i].id >= TakenBy(z)
          /\ q.out[i].id # NoLine
    BY <1>1, <1>3, <1>4, <2>1 DEF TextsOK, CurrentText, OldText
  <2>3. ASSUME NEW i \in 1 .. Len(q.out), NEW j \in 1 .. Len(q.out), i < j
        PROVE  q.out[i].id <= q.out[j].id
    <3>1. i + 1 < j + 1
      BY <2>3
    <3> QED BY <1>1, <2>1, <3>1 DEF TextsOK
  <2> QED BY <2>2, <2>3 DEF TextsOK
<1> QED BY <1>1, <1>e, <1>3, <1>4, <1>5, <1>6 DEF LinkOK, Steady

\* An ack leaves the wire, lost or received.
LEMMA DropAckOK ==
  ASSUME NEW p, NEW z, LinkOK(p, z), z.out # <<>>
  PROVE  LET y == [z EXCEPT !.out = Tail(@)]
         IN  /\ LinkOK(p, y) /\ AckOK(p, y, Head(z.out).of)
             /\ Head(z.out) \in AckFrame
             /\ y.log = z.log /\ y.writing = z.writing
<1> DEFINE y == [z EXCEPT !.out = Tail(z.out)]
<1>1. /\ p \in PicoState /\ z \in ZeroState
      /\ QueueOK(p) /\ LogOK(z) /\ LevelOK(p, z) /\ TextsOK(p, z) /\ AcksOK(p, z)
  BY DEF LinkOK
<1>e. y = [z EXCEPT !.out = Tail(@)]
  BY <1>1 DEF ZeroState
<1>2. /\ Tail(z.out) \in Seq(AckFrame) /\ Len(z.out) \in Nat /\ Len(z.out) >= 1
      /\ Head(z.out) = z.out[1] /\ Head(z.out) \in AckFrame
      /\ Len(Tail(z.out)) = Len(z.out) - 1
      /\ \A i \in 1 .. Len(z.out) - 1 : Tail(z.out)[i] = z.out[i + 1]
  BY <1>1, TailFacts DEF ZeroState
<1>3. /\ y \in ZeroState
      /\ y.rx_text = z.rx_text /\ y.log = z.log /\ y.writing = z.writing
      /\ y.out = Tail(z.out)
  BY <1>1, <1>2, Zenon DEF ZeroState
<1> HIDE DEF y
<1>4. TakenBy(y) = TakenBy(z)
  BY <1>3 DEF TakenBy
<1>5. LogOK(y) /\ LevelOK(p, y) /\ TextsOK(p, y)
  BY <1>1, <1>3, <1>4 DEF LogOK, LevelOK, TextsOK
<1>6. \A i \in 1 .. Len(y.out) : i + 1 \in 1 .. Len(z.out) /\ y.out[i] = z.out[i + 1]
  BY <1>2, <1>3
<1>7. AcksOK(p, y)
  <2>1. \A i \in 1 .. Len(y.out) :
          OldAck(p, y.out[i].of) \/ CurrentAck(p, y, y.out[i].of)
    BY <1>1, <1>4, <1>6 DEF AcksOK, CurrentAck
  <2>2. ASSUME NEW i \in 1 .. Len(y.out), NEW j \in 1 .. Len(y.out),
               i < j, y.out[i].of = Base(p)
        PROVE  y.out[j].of = Base(p)
    <3>1. i + 1 < j + 1
      BY <2>2
    <3> QED BY <1>1, <1>6, <2>2, <3>1 DEF AcksOK
  <2> QED BY <2>1, <2>2 DEF AcksOK
<1>8. AckOK(p, y, Head(z.out).of)
  <2>1. 1 \in 1 .. Len(z.out) /\ Head(z.out).of \in Counter
    BY <1>2 DEF AckFrame
  <2>2. CASE OldAck(p, Head(z.out).of)
    BY <2>1, <2>2 DEF AckOK
  <2>3. CASE CurrentAck(p, z, Head(z.out).of)
    <3>1. ASSUME NEW i \in 1 .. Len(y.out)
          PROVE  y.out[i].of = Base(p)
      <4>1. i + 1 \in 1 .. Len(z.out) /\ 1 < i + 1 /\ y.out[i] = z.out[i + 1]
        BY <1>6
      <4>2. z.out[1].of = Base(p)
        BY <1>2, <2>3 DEF CurrentAck
      <4> QED BY <1>1, <2>1, <4>1, <4>2 DEF AcksOK
    <3>2. CurrentAck(p, y, Head(z.out).of)
      BY <1>4, <2>3 DEF CurrentAck
    <3> QED BY <2>1, <3>1, <3>2 DEF AckOK
  <2>4. OldAck(p, Head(z.out).of) \/ CurrentAck(p, z, Head(z.out).of)
    BY <1>1, <1>2, <2>1 DEF AcksOK
  <2> QED BY <2>2, <2>3, <2>4
<1> QED BY <1>1, <1>e, <1>2, <1>3, <1>5, <1>7, <1>8 DEF LinkOK

-----------------------------------------------------------------------------
(* The handlers.                                                            *)

LEMMA ReceiveAckOK ==
  ASSUME NEW p, NEW z, NEW f \in AckFrame, NEW len \in Nat, NEW o \in Outcome,
         NEW sent \in BOOLEAN, LinkOK(p, z), AckOK(p, z, f.of)
  PROVE  LET q == ReceiveAck(p, f, len, o, sent)
         IN  /\ LinkOK(q, z)
             /\ q.logged = p.logged \/ q.logged = p.logged + 1
             /\ \/ Dropped(q) = Dropped(p)
                \/ Dropped(q) = Dropped(p) + 1 /\ TakenBy(z) = Dropped(p) + 1
<1> DEFINE warned == IF Lost(p.rx_ack, f.counter) THEN Vlog(p, len, o) ELSE p
           q == [warned EXCEPT !.rx_ack = Taken(f.counter)]
<1>1. /\ LinkOK(warned, z) /\ Steady(p, warned)
      /\ warned.logged = p.logged \/ warned.logged = p.logged + 1
  BY VlogOK DEF Steady
<1>2. ReceiveAck(p, f, len, o, sent) = OnAck(q, f.of, sent)
  BY DEF ReceiveAck
<1> HIDE DEF warned
<1>3. Taken(f.counter) \in RxSlot
  BY DEF Taken, RxSlot, AckFrame
<1>4. /\ q \in PicoState
      /\ q.queue = warned.queue /\ q.logged = warned.logged
      /\ q.in_flight = warned.in_flight
      /\ q.in_flight_counter = warned.in_flight_counter
      /\ q.tx_text = warned.tx_text /\ q.out = warned.out
  BY <1>1, <1>3, Zenon DEF PicoState, LinkOK
<1> HIDE DEF q
<1>5. Dropped(q) = Dropped(warned) /\ Base(q) = Base(warned)
  BY <1>4 DEF Dropped, Base
<1>6. LinkOK(q, z)
  BY <1>1, <1>4, <1>5 DEF LinkOK, QueueOK, LevelOK, TextsOK, AcksOK, OldAck,
                          CurrentAck, CurrentText, OldText
<1>7. AckOK(q, z, f.of)
  BY <1>1, <1>4, <1>5 DEF Steady, AckOK, OldAck, CurrentAck
<1>8. LET a == OnAck(q, f.of, sent)
      IN  /\ LinkOK(a, z) /\ a.logged = q.logged
          /\ \/ Dropped(a) = Dropped(q)
             \/ Dropped(a) = Dropped(q) + 1 /\ TakenBy(z) = Dropped(q) + 1
  BY <1>6, <1>7, OnAckOK
<1> QED BY <1>1, <1>2, <1>4, <1>5, <1>8 DEF Steady

\* An ack the Zero may send: for the line it has just taken, or once more for
\* the one before while the next has not come.
LEMMA SendTextAckOK ==
  ASSUME NEW p, NEW z, NEW c \in Counter, NEW sent \in BOOLEAN, LinkOK(p, z),
         CurrentAck(p, z, c) \/ (OldAck(p, c) /\ TakenBy(z) = Dropped(p))
  PROVE  LET y == SendTextAck(z, c, sent)
         IN  LinkOK(p, y) /\ y.log = z.log /\ y.writing = z.writing
<1>0. CASE ~sent
  BY <1>0 DEF SendTextAck
<1>s. CASE sent
  <2> DEFINE f == [counter |-> z.tx_ack, of |-> c]
             y == [z EXCEPT !.out = Append(z.out, f), !.tx_ack = Inc(z.tx_ack)]
  <2>1. /\ p \in PicoState /\ z \in ZeroState
        /\ QueueOK(p) /\ LogOK(z) /\ LevelOK(p, z) /\ TextsOK(p, z) /\ AcksOK(p, z)
    BY DEF LinkOK
  <2>2. y = SendTextAck(z, c, sent)
    BY <1>s, <2>1 DEF SendTextAck, ZeroState
  <2>3. f \in AckFrame /\ f.of = c /\ Inc(z.tx_ack) \in Counter
    BY <2>1, IncFacts DEF AckFrame, ZeroState
  <2>4. z.out \in Seq(AckFrame)
    BY <2>1 DEF ZeroState
  <2> HIDE DEF f
  <2>5. /\ Append(z.out, f) \in Seq(AckFrame) /\ Len(z.out) \in Nat
        /\ Len(Append(z.out, f)) = Len(z.out) + 1
        /\ \A i \in 1 .. Len(z.out) :
              Append(z.out, f)[i] = z.out[i] /\ z.out[i] \in AckFrame
        /\ Append(z.out, f)[Len(z.out) + 1] = f
    BY <2>3, <2>4, AppendFacts
  <2>6. /\ y \in ZeroState
        /\ y.rx_text = z.rx_text /\ y.log = z.log /\ y.writing = z.writing
        /\ y.out = Append(z.out, f)
    BY <2>1, <2>3, <2>5, Zenon DEF ZeroState
  <2> HIDE DEF y
  <2>7. TakenBy(y) = TakenBy(z)
    BY <2>6 DEF TakenBy
  <2>8. LogOK(y) /\ LevelOK(p, y) /\ TextsOK(p, y)
    BY <2>1, <2>6, <2>7 DEF LogOK, LevelOK, TextsOK
  <2>9. Base(p) \in Counter
    BY <2>1 DEF Base, PicoState
  <2>10. ASSUME NEW i \in 1 .. Len(z.out), z.out[i].of = Base(p)
         PROVE  c = Base(p)
    <3>1. ~OldAck(p, z.out[i].of)
      BY <2>9, <2>10, IncFacts DEF OldAck
    <3>2. CurrentAck(p, z, z.out[i].of)
      BY <2>1, <3>1 DEF AcksOK
    <3>3. Dropped(p) \in Int
      BY <2>1 DEF Dropped, PicoState
    <3> QED BY <3>2, <3>3 DEF CurrentAck
  <2>11. AcksOK(p, y)
    <3>1. ASSUME NEW i \in 1 .. Len(y.out)
          PROVE  OldAck(p, y.out[i].of) \/ CurrentAck(p, y, y.out[i].of)
      <4>1. CASE i \in 1 .. Len(z.out)
        BY <2>1, <2>5, <2>6, <2>7, <4>1 DEF AcksOK, CurrentAck
      <4>2. CASE i = Len(z.out) + 1
        BY <2>3, <2>5, <2>6, <2>7, <4>2 DEF CurrentAck
      <4> QED BY <2>5, <2>6, <4>1, <4>2
    <3>2. ASSUME NEW i \in 1 .. Len(y.out), NEW j \in 1 .. Len(y.out),
                 i < j, y.out[i].of = Base(p)
          PROVE  y.out[j].of = Base(p)
      <4>1. i \in 1 .. Len(z.out) /\ y.out[i] = z.out[i]
        BY <2>5, <2>6, <3>2
      <4>2. CASE j \in 1 .. Len(z.out)
        BY <2>1, <2>5, <2>6, <3>2, <4>1, <4>2 DEF AcksOK
      <4>3. CASE j = Len(z.out) + 1
        BY <2>3, <2>5, <2>6, <2>10, <3>2, <4>1, <4>3
      <4> QED BY <2>5, <2>6, <4>2, <4>3
    <3> QED BY <3>1, <3>2 DEF AcksOK
  <2> QED BY <2>1, <2>2, <2>6, <2>8, <2>11 DEF LinkOK
<1> QED BY <1>0, <1>s

\* What the Zero makes of the first text on the wire: a resent one belongs to
\* the last line it took, any other one is the next line.
LEMMA FirstText ==
  ASSUME NEW p, NEW z, LinkOK(p, z), p.out # <<>>
  PROVE  LET f == Head(p.out)
         IN  /\ f \in TextFrame /\ f = p.out[1] /\ 1 \in 1 .. Len(p.out)
             /\ Dropped(p) \in Nat
             /\ Resent(z.rx_text, f.counter) =>
                   \/ OldText(p, f) /\ TakenBy(z) = Dropped(p)
                   \/ CurrentText(p, f) /\ TakenBy(z) = Dropped(p) + 1
             /\ ~Resent(z.rx_text, f.counter) =>
                   CurrentText(p, f) /\ TakenBy(z) = Dropped(p)
<1> DEFINE f == Head(p.out)
<1>1. /\ p \in PicoState /\ z \in ZeroState
      /\ QueueOK(p) /\ LogOK(z) /\ LevelOK(p, z) /\ TextsOK(p, z)
  BY DEF LinkOK
<1>2. /\ Len(p.out) \in Nat /\ Len(p.out) >= 1
      /\ f = p.out[1] /\ f \in TextFrame /\ 1 \in 1 .. Len(p.out)
  BY <1>1, TailFacts DEF PicoState
<1>3. Dropped(p) \in Nat /\ Base(p) \in Counter
  BY <1>1 DEF Dropped, Base, QueueOK, PicoState
<1>4. /\ CurrentText(p, f) \/ OldText(p, f)
      /\ f.id >= TakenBy(z) /\ f.id # NoLine
  BY <1>1, <1>2 DEF TextsOK
<1>5. /\ f.counter \in Counter /\ z.rx_text.counter \in Counter
      /\ z.rx_text.seen \in BOOLEAN
  BY <1>1, <1>2 DEF TextFrame, ZeroState, RxSlot
<1> HIDE DEF f
<1>6. /\ z.rx_text.seen <=> TakenBy(z) > 0
      /\ TakenBy(z) = Dropped(p) \/ TakenBy(z) = Dropped(p) + 1
  BY <1>1 DEF LogOK, LevelOK
<1>7. CASE OldText(p, f)
  <2>1. TakenBy(z) = Dropped(p) /\ TakenBy(z) > 0
    BY <1>3, <1>4, <1>6, <1>7 DEF OldText, NoLine
  <2>2. Inc(z.rx_text.counter) = Base(p)
    BY <1>1, <1>3, <1>6, <2>1 DEF LevelOK
  <2>3. z.rx_text.counter = f.counter
    BY <1>5, <1>7, <2>2, IncFacts DEF OldText
  <2> QED BY <1>2, <1>3, <1>6, <1>7, <2>1, <2>3 DEF Resent, f
<1>8. CASE CurrentText(p, f)
  <2>1. CASE TakenBy(z) = Dropped(p) + 1
    <3>1. z.rx_text.counter = f.counter /\ z.rx_text.seen
      BY <1>1, <1>3, <1>6, <1>8, <2>1 DEF LevelOK, CurrentText
    <3> QED BY <1>2, <1>3, <1>8, <2>1, <3>1 DEF Resent, f
  <2>2. CASE TakenBy(z) = Dropped(p)
    <3>1. z.rx_text.seen => Inc(z.rx_text.counter) = f.counter
      BY <1>1, <1>3, <1>8, <2>2 DEF LevelOK, CurrentText
    <3>2. ~Resent(z.rx_text, f.counter)
      BY <1>5, <3>1, IncFacts DEF Resent
    <3> QED BY <1>2, <1>3, <1>8, <2>2, <3>2 DEF f
  <2> QED BY <1>6, <2>1, <2>2
<1> QED BY <1>4, <1>7, <1>8

\* A new text is taken off the wire and becomes the line to write.
LEMMA TakeTextOK ==
  ASSUME NEW p, NEW z, LinkOK(p, z), p.out # <<>>, z.writing = NoLine,
         ~Resent(z.rx_text, Head(p.out).counter)
  PROVE  LET q == [p EXCEPT !.out = Tail(@)]
             y == [z EXCEPT !.rx_text = Taken(Head(p.out).counter),
                            !.writing = Head(p.out).id]
         IN  /\ LinkOK(q, y)
             /\ CurrentAck(q, y, Head(p.out).counter)
             /\ y.log = z.log /\ TakenBy(y) = TakenBy(z) + 1
             /\ TakenBy(z) = Dropped(p) /\ p.in_flight
<1> DEFINE f == Head(p.out)
           q == [p EXCEPT !.out = Tail(@)]
           y == [z EXCEPT !.rx_text = Taken(f.counter), !.writing = f.id]
<1>1. /\ p \in PicoState /\ z \in ZeroState
      /\ LogOK(z) /\ TextsOK(p, z)
  BY DEF LinkOK
<1>2. /\ f \in TextFrame /\ f = p.out[1] /\ 1 \in 1 .. Len(p.out)
      /\ CurrentText(p, f) /\ TakenBy(z) = Dropped(p) /\ Dropped(p) \in Nat
  BY FirstText
<1>3. LinkOK(q, z) /\ Steady(p, q) /\ q.out = Tail(p.out)
  BY <1>1, DropTextOK DEF PicoState
<1>4. \A i \in 1 .. Len(q.out) : i + 1 \in 1 .. Len(p.out) /\ q.out[i] = p.out[i + 1]
  <2>1. /\ Len(p.out) \in Nat /\ Len(Tail(p.out)) = Len(p.out) - 1
        /\ \A i \in 1 .. Len(p.out) - 1 : Tail(p.out)[i] = p.out[i + 1]
    BY <1>1, TailFacts DEF PicoState
  <2> QED BY <1>3, <2>1
<1>5. f.id = Dropped(p) + 1 /\ f.id \in Nat /\ f.counter = Base(p) /\ f.counter \in Counter
  BY <1>2 DEF CurrentText, TextFrame
<1> HIDE DEF f, q
<1>6. Taken(f.counter) \in RxSlot /\ Taken(f.counter).counter = f.counter
      /\ Taken(f.counter).seen = TRUE
  BY <1>5 DEF Taken, RxSlot
<1>7. /\ y \in ZeroState
      /\ y.rx_text = Taken(f.counter) /\ y.writing = f.id
      /\ y.log = z.log /\ y.out = z.out
  BY <1>1, <1>5, <1>6, Zenon DEF ZeroState
<1> HIDE DEF y
<1>8. Len(z.log) \in Nat /\ TakenBy(z) = Len(z.log)
  BY <1>1 DEF TakenBy, ZeroState
<1>9. TakenBy(y) = Len(z.log) + 1 /\ f.id = Len(z.log) + 1
  <2>1. f.id = Len(z.log) + 1
    BY <1>2, <1>5, <1>8
  <2>2. y.writing # NoLine /\ Len(y.log) = Len(z.log)
    BY <1>7, <1>8, <2>1 DEF NoLine
  <2> QED BY <2>1, <2>2 DEF TakenBy
<1>10. /\ Dropped(q) = Dropped(p) /\ Base(q) = Base(p) /\ q.in_flight
       /\ q \in PicoState /\ QueueOK(q) /\ TextsOK(q, z) /\ AcksOK(q, z)
  BY <1>2, <1>3 DEF Steady, LinkOK, CurrentText
<1>11. LogOK(y)
  BY <1>1, <1>6, <1>7, <1>8, <1>9 DEF LogOK
<1>12. LevelOK(q, y)
  BY <1>2, <1>5, <1>6, <1>7, <1>8, <1>9, <1>10 DEF LevelOK
<1>13. TextsOK(q, y)
  <2>1. ASSUME NEW i \in 1 .. Len(q.out)
        PROVE  q.out[i].id >= TakenBy(y)
    <3>1. i + 1 \in 1 .. Len(p.out) /\ q.out[i] = p.out[i + 1] /\ 1 < i + 1
      BY <1>4
    <3>2. f.id <= p.out[i + 1].id
      BY <1>1, <1>2, <3>1 DEF TextsOK
    <3>3. p.out[i + 1].id \in Nat
      <4>1. p.out \in Seq(TextFrame)
        BY <1>1 DEF PicoState
      <4>2. p.out[i + 1] \in TextFrame
        BY <3>1, <4>1
      <4> QED BY <4>2 DEF TextFrame
    <3> QED BY <1>5, <1>8, <1>9, <3>1, <3>2, <3>3
  <2> QED BY <1>10, <2>1 DEF TextsOK
<1>14. \A i \in 1 .. Len(z.out) : OldAck(q, z.out[i].of) /\ z.out[i].of # Base(q)
  <2>1. ASSUME NEW i \in 1 .. Len(z.out)
        PROVE  OldAck(q, z.out[i].of)
    BY <1>2, <1>10 DEF AcksOK, CurrentAck
  <2> QED BY <1>5, <1>10, <2>1, IncFacts DEF OldAck
<1>15. AcksOK(q, y)
  BY <1>7, <1>14 DEF AcksOK
<1>16. CurrentAck(q, y, f.counter)
  BY <1>2, <1>5, <1>8, <1>9, <1>10 DEF CurrentAck
<1>17. LinkOK(q, y)
  BY <1>7, <1>10, <1>11, <1>12, <1>13, <1>15 DEF LinkOK
<1> QED BY <1>2, <1>7, <1>8, <1>9, <1>16, <1>17 DEF CurrentText, f, q, y

LEMMA ReceiveTextOK ==
  ASSUME NEW p, NEW z, NEW sent \in BOOLEAN, LinkOK(p, z), p.out # <<>>,
         z.writing = NoLine
  PROVE  LET q == [p EXCEPT !.out = Tail(@)]
             y == ReceiveText(z, Head(p.out), sent)
         IN  /\ LinkOK(q, y)
             /\ y.log = z.log
             /\ \/ TakenBy(y) = TakenBy(z)
                \/ /\ TakenBy(y) = TakenBy(z) + 1
                   /\ TakenBy(z) = Dropped(p) /\ p.in_flight
<1> DEFINE f == Head(p.out)
           q == [p EXCEPT !.out = Tail(@)]
           y == [z EXCEPT !.rx_text = Taken(f.counter), !.writing = f.id]
<1>1. f.counter \in Counter
  BY FirstText DEF TextFrame
<1>2. LinkOK(q, z) /\ Steady(p, q)
  BY DropTextOK
<1>3. CASE Resent(z.rx_text, f.counter)
  <2>1. \/ OldText(p, f) /\ TakenBy(z) = Dropped(p)
        \/ CurrentText(p, f) /\ TakenBy(z) = Dropped(p) + 1
    BY <1>3, FirstText
  <2>2. CurrentAck(q, z, f.counter) \/ (OldAck(q, f.counter) /\ TakenBy(z) = Dropped(q))
    BY <1>2, <2>1 DEF Steady, OldText, CurrentText, OldAck, CurrentAck
  <2>3. ReceiveText(z, f, sent) = SendTextAck(z, f.counter, sent)
    BY <1>3 DEF ReceiveText
  <2> HIDE DEF f, q, y
  <2> DEFINE a == SendTextAck(z, f.counter, sent)
  <2>4. LinkOK(q, a) /\ a.log = z.log /\ a.writing = z.writing
    <3>1. LinkOK(q, z)
      BY <1>2
    <3>2. sent \in BOOLEAN
      OBVIOUS
    <3> QED BY ONLY <1>1, <2>2, <3>1, <3>2, SendTextAckOK
  <2> QED BY <2>3, <2>4 DEF TakenBy, f, q
<1>4. CASE ~Resent(z.rx_text, f.counter)
  <2>1. /\ LinkOK(q, y) /\ CurrentAck(q, y, f.counter)
        /\ y.log = z.log /\ TakenBy(y) = TakenBy(z) + 1
        /\ TakenBy(z) = Dropped(p) /\ p.in_flight
    BY <1>4, TakeTextOK
  <2>2. ReceiveText(z, f, sent) = SendTextAck(y, f.counter, sent)
    BY <1>4 DEF ReceiveText
  <2> HIDE DEF f, q, y
  <2>3. LET a == SendTextAck(y, f.counter, sent)
        IN  LinkOK(q, a) /\ a.log = y.log /\ a.writing = y.writing
    BY <1>1, <2>1, SendTextAckOK
  <2> QED BY <2>1, <2>2, <2>3 DEF TakenBy, f, q
<1> QED BY <1>3, <1>4

LEMMA ZeroWriteOK ==
  ASSUME NEW p, NEW z, LinkOK(p, z), z.writing # NoLine
  PROVE  LET y == [z EXCEPT !.log = Append(@, z.writing), !.writing = NoLine]
         IN  /\ LinkOK(p, y) /\ TakenBy(y) = TakenBy(z)
             /\ y.log = Append(z.log, Len(z.log) + 1)
<1> DEFINE y == [z EXCEPT !.log = Append(z.log, z.writing), !.writing = NoLine]
<1>1. /\ p \in PicoState /\ z \in ZeroState
      /\ QueueOK(p) /\ LogOK(z) /\ LevelOK(p, z) /\ TextsOK(p, z) /\ AcksOK(p, z)
  BY DEF LinkOK
<1>2. z.writing = Len(z.log) + 1 /\ z.writing \in Nat /\ z.log \in Seq(Nat)
  BY <1>1 DEF LogOK, ZeroState
<1>3. /\ Append(z.log, z.writing) \in Seq(Nat)
      /\ Len(z.log) \in Nat
      /\ Len(Append(z.log, z.writing)) = Len(z.log) + 1
      /\ \A i \in 1 .. Len(z.log) : Append(z.log, z.writing)[i] = z.log[i]
      /\ Append(z.log, z.writing)[Len(z.log) + 1] = z.writing
  BY <1>2, AppendFacts
<1>4. /\ y \in ZeroState
      /\ y.rx_text = z.rx_text /\ y.writing = NoLine
      /\ y.log = Append(z.log, z.writing) /\ y.out = z.out
      /\ y = [z EXCEPT !.log = Append(@, z.writing), !.writing = NoLine]
  <2>1. NoLine \in Nat
    BY DEF NoLine
  <2> QED BY <1>1, <1>3, <2>1, Zenon DEF ZeroState
<1> HIDE DEF y
<1>5. TakenBy(y) = TakenBy(z)
  BY <1>3, <1>4 DEF TakenBy
<1>6. LogOK(y)
  BY <1>1, <1>2, <1>3, <1>4, <1>5 DEF LogOK
<1>7. LevelOK(p, y) /\ TextsOK(p, y) /\ AcksOK(p, y)
  BY <1>1, <1>4, <1>5 DEF LevelOK, TextsOK, AcksOK, CurrentAck
<1> QED BY <1>1, <1>2, <1>4, <1>5, <1>6, <1>7 DEF LinkOK

-----------------------------------------------------------------------------
(* The specification.                                                       *)

LEMMA InitOK == Init => IInv
<1> SUFFICES ASSUME Init PROVE IInv
  OBVIOUS
<1>1. PICK len \in LineLengths :
        pico = [queue |-> <<[id |-> 1, len |-> len]>>, queued_bytes |-> len,
                in_flight |-> FALSE, in_flight_counter |-> 0,
                tx_text |-> 0, rx_ack |-> RxOpen, logged |-> 1, out |-> <<>>]
  BY DEF Init, PicoBoot
<1>2. len \in Nat /\ 0 \in Counter /\ RxOpen \in RxSlot
  BY TextLinkAssumption, CounterModAssumption DEF Counter, RxOpen, RxSlot
<1>3. [id |-> 1, len |-> len] \in Entry
  BY <1>2 DEF Entry
<1>4. pico \in PicoState
  BY <1>1, <1>2, <1>3 DEF PicoState
<1>5. zero = [rx_text |-> RxOpen, tx_ack |-> 0, writing |-> NoLine,
              log |-> <<>>, out |-> <<>>]
  BY DEF Init, ZeroStart
<1>6. zero \in ZeroState
  BY <1>2, <1>5 DEF ZeroState, NoLine
<1>7. TypeOK
  BY <1>4, <1>6, TextLinkAssumption DEF Init, TypeOK
<1>8. Dropped(pico) = 0 /\ TakenBy(zero) = 0
  BY <1>1, <1>5 DEF Dropped, TakenBy
<1>9. QueueOK(pico)
  BY <1>1, <1>8 DEF QueueOK
<1>10. LogOK(zero) /\ LevelOK(pico, zero)
  BY <1>5, <1>8 DEF LogOK, LevelOK, RxOpen
<1>11. TextsOK(pico, zero) /\ AcksOK(pico, zero)
  BY <1>1, <1>5 DEF TextsOK, AcksOK
<1> QED BY <1>4, <1>6, <1>7, <1>9, <1>10, <1>11 DEF IInv, LinkOK

\* What a step does to the four variables of the relay.
RelayStep ==
  \/ /\ zero.log' = zero.log /\ TakenBy(zero') = TakenBy(zero)
     /\ pico.logged' = pico.logged \/ pico.logged' = pico.logged + 1
     /\ \/ Dropped(pico') = Dropped(pico)
        \/ /\ Dropped(pico') = Dropped(pico) + 1
           /\ TakenBy(zero) = Dropped(pico) + 1
  \/ /\ zero.log' = zero.log /\ TakenBy(zero') = TakenBy(zero) + 1
     /\ TakenBy(zero) = Dropped(pico) /\ TakenBy(zero) < pico.logged
     /\ Len(zero.log) = TakenBy(zero)
     /\ pico.logged' = pico.logged /\ Dropped(pico') = Dropped(pico)
  \/ /\ zero.log' = Append(zero.log, Len(zero.log) + 1)
     /\ TakenBy(zero') = TakenBy(zero) /\ Len(zero.log) < TakenBy(zero)
     /\ pico.logged' = pico.logged /\ Dropped(pico') = Dropped(pico)

LEMMA StepOK == IInv /\ [Next]_vars => IInv' /\ RelayStep
<1> SUFFICES ASSUME IInv, [Next]_vars PROVE IInv' /\ RelayStep
  OBVIOUS
<1> USE DEF IInv
<1>t. /\ LinkOK(pico, zero) /\ TypeOK
      /\ pico \in PicoState /\ zero \in ZeroState
      /\ phase \in {"setup", "steps", "read"} /\ losses \in 0 .. MaxLosses
      /\ LineLengths \subseteq Nat /\ MaxLosses \in Nat
  BY TextLinkAssumption DEF TypeOK
<1>u. ASSUME LinkOK(pico', zero'), phase' \in {"setup", "steps", "read"},
             losses' \in 0 .. MaxLosses
      PROVE  IInv'
  BY <1>u DEF TypeOK, LinkOK
<1>h. \A p : LoopHead(p) \in {"setup", "steps", "read"}
  BY DEF LoopHead
<1>1. ASSUME NEW len \in LineLengths, NEW o \in Outcome, LogLine(len, o)
      PROVE  IInv' /\ RelayStep
  <2>1. pico' = Vlog(pico, len, o) /\ zero' = zero /\ phase' = phase /\ losses' = losses
    BY <1>1 DEF LogLine
  <2> QED BY <1>t, <1>u, <2>1, VlogOK DEF RelayStep, Steady
<1>2. CASE SetupDone
  BY <1>2, <1>t, <1>u, <1>h DEF SetupDone, RelayStep
<1>3. CASE StepsDone
  BY <1>3, <1>t, <1>u DEF StepsDone, RelayStep
<1>4. ASSUME NEW len \in LineLengths, NEW o \in Outcome, NEW sent \in BOOLEAN,
             PicoReceive(len, o, sent)
      PROVE  IInv' /\ RelayStep
  <2> DEFINE y == [zero EXCEPT !.out = Tail(@)]
  <2>1. /\ zero.out # <<>> /\ zero' = y /\ phase' = phase /\ losses' = losses
        /\ pico' = ReceiveAck(pico, Head(zero.out), len, o, sent)
    BY <1>4 DEF PicoReceive
  <2>2. /\ LinkOK(pico, y) /\ AckOK(pico, y, Head(zero.out).of)
        /\ Head(zero.out) \in AckFrame
        /\ y.log = zero.log /\ y.writing = zero.writing
    BY <1>t, <2>1, DropAckOK
  <2> HIDE DEF y
  <2>3. /\ LinkOK(pico', y)
        /\ pico'.logged = pico.logged \/ pico'.logged = pico.logged + 1
        /\ \/ Dropped(pico') = Dropped(pico)
           \/ Dropped(pico') = Dropped(pico) + 1 /\ TakenBy(y) = Dropped(pico) + 1
    BY <1>t, <2>1, <2>2, ReceiveAckOK
  <2>4. TakenBy(y) = TakenBy(zero)
    BY <2>2 DEF TakenBy
  <2> QED BY <1>t, <1>u, <2>1, <2>2, <2>3, <2>4 DEF RelayStep
<1>5. ASSUME NEW o \in Outcome, PicoPoll(o)
      PROVE  IInv' /\ RelayStep
  <2>1. /\ pico' = LogPoll(pico, o) /\ zero' = zero /\ losses' = losses
        /\ phase' = LoopHead(pico')
    BY <1>5 DEF PicoPoll
  <2> QED BY <1>t, <1>u, <1>h, <2>1, LogPollOK DEF RelayStep, Steady
<1>6. ASSUME NEW sent \in BOOLEAN, ZeroReceive(sent)
      PROVE  IInv' /\ RelayStep
  <2>1. /\ zero.writing = NoLine /\ pico.out # <<>> /\ phase' = phase /\ losses' = losses
        /\ zero' = ReceiveText(zero, Head(pico.out), sent)
        /\ pico' = [pico EXCEPT !.out = Tail(@)]
    BY <1>6 DEF ZeroReceive
  <2>2. /\ LinkOK(pico', zero') /\ zero'.log = zero.log
        /\ \/ TakenBy(zero') = TakenBy(zero)
           \/ /\ TakenBy(zero') = TakenBy(zero) + 1
              /\ TakenBy(zero) = Dropped(pico) /\ pico.in_flight
    BY <1>t, <2>1, ReceiveTextOK
  <2>3. pico'.logged = pico.logged /\ Dropped(pico') = Dropped(pico)
    BY <1>t, <2>1, DropTextOK DEF Steady
  <2>4. Len(zero.log) = TakenBy(zero)
    BY <1>t, <2>1 DEF TakenBy, ZeroState
  <2>5. pico.in_flight => Dropped(pico) < pico.logged
    <3>1. pico.queue \in Seq(Entry) /\ pico.logged \in Nat
      BY <1>t DEF PicoState
    <3>2. pico.in_flight => Len(pico.queue) \in Nat /\ Len(pico.queue) # 0
      BY <1>t, <3>1 DEF LinkOK, QueueOK
    <3> QED BY <3>1, <3>2 DEF Dropped
  <2> QED BY <1>t, <1>u, <2>1, <2>2, <2>3, <2>4, <2>5 DEF RelayStep
<1>7. CASE ZeroWrite
  <2>1. /\ zero.writing # NoLine /\ phase' = phase /\ losses' = losses /\ pico' = pico
        /\ zero' = [zero EXCEPT !.log = Append(@, zero.writing), !.writing = NoLine]
    BY <1>7 DEF ZeroWrite
  <2>2. /\ LinkOK(pico, zero') /\ TakenBy(zero') = TakenBy(zero)
        /\ zero'.log = Append(zero.log, Len(zero.log) + 1)
    BY <1>t, <2>1, ZeroWriteOK
  <2>3. Len(zero.log) < TakenBy(zero)
    BY <1>t, <2>1 DEF TakenBy, ZeroState
  <2> QED BY <1>t, <1>u, <2>1, <2>2, <2>3 DEF RelayStep
<1>8. CASE LoseText
  <2>1. /\ pico.out # <<>> /\ zero' = zero /\ phase' = phase
        /\ losses < MaxLosses /\ losses' = losses + 1
        /\ pico' = [pico EXCEPT !.out = Tail(@)]
    BY <1>8 DEF LoseText
  <2>2. losses' \in 0 .. MaxLosses
    BY <1>t, <2>1
  <2> QED BY <1>t, <1>u, <2>1, <2>2, DropTextOK DEF RelayStep, Steady
<1>9. CASE LoseAck
  <2>1. /\ zero.out # <<>> /\ pico' = pico /\ phase' = phase
        /\ losses < MaxLosses /\ losses' = losses + 1
        /\ zero' = [zero EXCEPT !.out = Tail(@)]
    BY <1>9 DEF LoseAck
  <2>2. losses' \in 0 .. MaxLosses
    BY <1>t, <2>1
  <2> QED BY <1>t, <1>u, <2>1, <2>2, DropAckOK DEF RelayStep, TakenBy
<1>10. ASSUME NEW len \in LineLengths, NEW o \in Outcome, DamageAck(len, o)
       PROVE  IInv' /\ RelayStep
  <2> DEFINE y == [zero EXCEPT !.out = Tail(@)]
  <2>1. /\ zero.out # <<>> /\ zero' = y /\ phase' = phase
        /\ losses < MaxLosses /\ losses' = losses + 1
        /\ pico' = Vlog(pico, len, o)
    BY <1>10 DEF DamageAck
  <2>2. losses' \in 0 .. MaxLosses
    BY <1>t, <2>1
  <2>3. LinkOK(pico, y) /\ y.log = zero.log /\ y.writing = zero.writing
    BY <1>t, <2>1, DropAckOK
  <2> HIDE DEF y
  <2>4. /\ LinkOK(pico', y) /\ Steady(pico, pico')
        /\ pico'.logged = pico.logged \/ pico'.logged = pico.logged + 1
    BY <1>t, <2>1, <2>3, VlogOK
  <2> QED BY <1>t, <1>u, <2>1, <2>2, <2>3, <2>4 DEF RelayStep, Steady, TakenBy
<1>11. CASE UNCHANGED vars
  BY <1>11, <1>t, <1>u DEF vars, RelayStep
<1> QED BY <1>1, <1>2, <1>3, <1>4, <1>5, <1>6, <1>7, <1>8, <1>9, <1>10, <1>11 DEF Next

LEMMA Inductive == Spec => []IInv
<1>1. IInv /\ [Next]_vars => IInv'
  BY StepOK
<1> QED BY InitOK, <1>1, PTL DEF Spec

\* Every variable keeps its type, and every counter stays in a byte, whatever is
\* logged, lost or resent.
THEOREM TypeCorrect == Spec => []TypeOK
<1>1. IInv => TypeOK
  BY DEF IInv
<1> QED BY Inductive, <1>1, PTL

\* The Zero's log holds the lines of the Pico in order, each one once, without a
\* gap, for queues, losses and resends of any number.
THEOREM FileIsInOrder == Spec => []FileInOrder
<1>1. IInv => FileInOrder
  BY DEF IInv, LinkOK, LogOK, FileInOrder
<1> QED BY Inductive, <1>1, PTL

\* The Pico drops only lines the Zero has taken.
THEOREM ReleasedLinesAreAccepted == Spec => []ReleasedIsAccepted
<1>1. IInv => ReleasedIsAccepted
  <2> SUFFICES ASSUME IInv PROVE ReleasedIsAccepted
    OBVIOUS
  <2>1. Dropped(pico) \in Int /\ LevelOK(pico, zero)
    BY DEF IInv, LinkOK, PicoState, Dropped
  <2>2. Released = Dropped(pico) /\ Accepted = TakenBy(zero)
    BY DEF Released, Accepted, Dropped, TakenBy
  <2> QED BY <2>1, <2>2 DEF LevelOK, ReleasedIsAccepted
<1> QED BY Inductive, <1>1, PTL

\* The Zero never reports a lost text: what the wire loses is sent again with
\* the counter it had.
THEOREM TextsNeverJump == Spec => []TextNeverJumps
<1>1. IInv => TextNeverJumps
  <2> SUFFICES ASSUME IInv, pico.out # <<>>,
                      ~Resent(zero.rx_text, Head(pico.out).counter)
               PROVE  ~Lost(zero.rx_text, Head(pico.out).counter)
    BY DEF TextNeverJumps
  <2>1. /\ CurrentText(pico, Head(pico.out)) /\ TakenBy(zero) = Dropped(pico)
        /\ Dropped(pico) \in Nat /\ LevelOK(pico, zero)
    BY FirstText DEF IInv, LinkOK
  <2> QED BY <2>1 DEF CurrentText, LevelOK, Lost
<1> QED BY Inductive, <1>1, PTL

\* The queue, the counters, the resends and the lossy wire together implement
\* the relay: take a line, write it once, drop it after that it was taken.
THEOREM RelayImplemented == Spec => ImplementsRelay
<1>1. Init => Relay!Init
  <2> SUFFICES ASSUME Init PROVE Relay!Init
    OBVIOUS
  <2>1. PICK len \in LineLengths : pico = PicoBoot(1, len)
    BY DEF Init
  <2>2. pico.logged = 1 /\ Len(pico.queue) = 1
    BY <2>1 DEF PicoBoot
  <2>3. zero.log = <<>> /\ zero.writing = NoLine
    BY DEF Init, ZeroStart
  <2> QED BY <2>2, <2>3 DEF Relay!Init, Released, Accepted
<1>2. IInv /\ [Next]_vars => [Relay!Next]_(Relay!vars)
  <2> SUFFICES ASSUME IInv, RelayStep PROVE [Relay!Next]_(Relay!vars)
    BY StepOK
  <2>1. /\ Released = Dropped(pico) /\ Released' = Dropped(pico')
        /\ Accepted = TakenBy(zero) /\ Accepted' = TakenBy(zero')
    BY DEF Released, Accepted, Dropped, TakenBy
  <2>2. /\ pico.logged \in Nat /\ Dropped(pico) \in Int
    BY DEF IInv, LinkOK, PicoState, Dropped
  <2> QED BY <2>1, <2>2 DEF RelayStep, Relay!Next, Relay!vars, Relay!Log,
                            Relay!Take, Relay!Write, Relay!Release
<1> QED BY <1>1, <1>2, Inductive, PTL DEF Spec, ImplementsRelay, Relay!Spec

-----------------------------------------------------------------------------
(* Restarts.  A line is taken twice only across a restart of the Zero: what   *)
(* reaches it comes in the order of the lines, each with one counter, so its  *)
(* slot knows the last one.  This does not need LinkOK, which a reboot breaks. *)

\* The last line the Pico has sent.
SentUpTo(p) == Dropped(p) + (IF p.in_flight THEN 1 ELSE 0)

\* The lines taken so far, the one being written included, and the last of them.
TakenLines(z) == IF z.writing = NoLine THEN z.log ELSE Append(z.log, z.writing)
LastOf(s) == IF s = <<>> THEN NoLine ELSE s[Len(s)]

Elements(s) == {s[i] : i \in DOMAIN s}
Repeats(s) == Len(s) - Cardinality(Elements(s))

\* Texts on the wire are lines that were sent, in order, and a line has one
\* counter, also when it is sent again.
WireOK(p) ==
  /\ \A i \in 1 .. Len(p.out) :
       /\ p.out[i].id # NoLine
       /\ p.out[i].id <= SentUpTo(p)
       /\ p.in_flight /\ p.out[i].id = SentUpTo(p) =>
            p.out[i].counter = p.in_flight_counter
  /\ \A i, j \in 1 .. Len(p.out) :
       i < j => /\ p.out[i].id <= p.out[j].id
                /\ p.out[i].id = p.out[j].id => p.out[i].counter = p.out[j].counter

\* Nothing older than the line last taken is to come, and the slot, rx, has the
\* counter of that line.
SlotOK(p, last, rx) ==
  /\ last <= SentUpTo(p)
  /\ \A i \in 1 .. Len(p.out) : p.out[i].id >= last
  /\ rx.seen =>
       /\ \A i \in 1 .. Len(p.out) :
            p.out[i].id = last => p.out[i].counter = rx.counter
       /\ p.in_flight /\ last = SentUpTo(p) => p.in_flight_counter = rx.counter

SentOK(p, last, rx) ==
  p \in PicoState /\ QueueOK(p) /\ WireOK(p) /\ SlotOK(p, last, rx)

Sorted(s) == \A i, j \in 1 .. Len(s) : i <= j => s[i] <= s[j]

\* The lines taken came in order.  A line repeated needs a restart of its own:
\* one restart is to spare until the slot is in use again.
TakenOK(z, n) ==
  /\ Sorted(TakenLines(z))
  /\ z.writing # NoLine => z.rx_text.seen
  /\ Repeats(TakenLines(z)) <= n
  /\ ~z.rx_text.seen /\ z.log # <<>> => Repeats(TakenLines(z)) + 1 <= n

\* The slot may know a line past those that are left in the log.
SlotAhead(p, z) ==
  \E last \in Nat : LastOf(TakenLines(z)) <= last /\ SentOK(p, last, z.rx_text)

RepeatInv ==
  /\ zero \in ZeroState
  /\ zero_restarts \in Nat
  /\ flushed \in Nat
  /\ SlotAhead(pico, zero)
  /\ TakenOK(zero, zero_restarts)

LEMMA ElementsAppend ==
  ASSUME NEW s \in Seq(Nat), NEW e \in Nat
  PROVE  Elements(Append(s, e)) = Elements(s) \cup {e}
<1>1. /\ Len(s) \in Nat /\ DOMAIN s = 1 .. Len(s)
      /\ DOMAIN Append(s, e) = 1 .. Len(s) + 1
      /\ \A i \in 1 .. Len(s) : Append(s, e)[i] = s[i]
      /\ Append(s, e)[Len(s) + 1] = e
  BY AppendFacts
<1>2. ASSUME NEW x \in Elements(Append(s, e))
      PROVE  x \in Elements(s) \cup {e}
  BY <1>1 DEF Elements
<1>3. ASSUME NEW x \in Elements(s)
      PROVE  x \in Elements(Append(s, e))
  BY <1>1 DEF Elements
<1>4. e \in Elements(Append(s, e))
  BY <1>1 DEF Elements
<1> QED BY <1>2, <1>3, <1>4

\* A sequence with one more element has one more repetition if it has the
\* element already.
LEMMA RepeatsFacts ==
  ASSUME NEW s \in Seq(Nat), NEW b \in Nat, \A i \in 1 .. Len(s) : s[i] <= b,
         NEW e \in Nat
  PROVE  /\ Repeats(s) \in Int
         /\ e \in Elements(s) => Repeats(Append(s, e)) = Repeats(s) + 1
         /\ e \notin Elements(s) => Repeats(Append(s, e)) = Repeats(s)
<1>1. Elements(s) \subseteq 0 .. b
  <2>1. ASSUME NEW i \in DOMAIN s
        PROVE  s[i] \in 0 .. b
    <3>1. i \in 1 .. Len(s) /\ s[i] \in Nat
      OBVIOUS
    <3> QED BY <3>1
  <2> QED BY <2>1 DEF Elements
<1>2. IsFiniteSet(0 .. b)
  BY FS_Interval
<1>3. IsFiniteSet(Elements(s))
  BY <1>1, <1>2, FS_Subset
<1>4. Cardinality(Elements(s)) \in Nat
  BY <1>3, FS_CardinalityType
<1>5. Elements(Append(s, e)) = Elements(s) \cup {e}
  BY ElementsAppend
<1>6. Cardinality(Elements(s) \cup {e}) =
        IF e \in Elements(s) THEN Cardinality(Elements(s)) ELSE Cardinality(Elements(s)) + 1
  BY <1>3, FS_AddElement
<1>7. Len(s) \in Nat /\ Len(Append(s, e)) = Len(s) + 1
  BY AppendFacts
<1> QED BY <1>4, <1>5, <1>6, <1>7 DEF Repeats

\* What the proofs read off a state of the Pico.
LEMMA PicoFacts ==
  ASSUME NEW p \in PicoState, QueueOK(p)
  PROVE  /\ p.queue \in Seq(Entry) /\ Len(p.queue) \in Nat
         /\ p.logged \in Nat /\ Dropped(p) \in Nat /\ SentUpTo(p) \in Nat
         /\ p.in_flight \in BOOLEAN
         /\ p.in_flight => SentUpTo(p) = Dropped(p) + 1
         /\ ~p.in_flight => SentUpTo(p) = Dropped(p)
         /\ SentUpTo(p) <= p.logged
         /\ p.out \in Seq(TextFrame) /\ Len(p.out) \in Nat
         /\ \A i \in 1 .. Len(p.out) : p.out[i].id \in Nat
<1>1. /\ p.queue \in Seq(Entry) /\ p.logged \in Nat /\ p.in_flight \in BOOLEAN
      /\ p.out \in Seq(TextFrame)
  BY DEF PicoState
<1>2. Len(p.queue) \in Nat /\ Len(p.queue) <= p.logged
  BY <1>1 DEF QueueOK
<1>3. p.in_flight => Len(p.queue) >= 1
  BY <1>1, <1>2 DEF QueueOK
<1>4. ASSUME NEW i \in 1 .. Len(p.out)
      PROVE  p.out[i].id \in Nat
  <2>1. p.out[i] \in TextFrame
    BY <1>1
  <2> QED BY <2>1 DEF TextFrame
<1>5. Len(p.out) \in Nat
  BY <1>1
<1> QED BY <1>1, <1>2, <1>3, <1>4, <1>5 DEF Dropped, SentUpTo

\* Nothing is sent: only the queue, the acks or the last line may change.
LEMMA NothingSentOK ==
  ASSUME NEW p, NEW q, NEW last, NEW rx, SentOK(p, last, rx),
         q \in PicoState, QueueOK(q), q.out = p.out, SentUpTo(q) = SentUpTo(p),
         q.in_flight => p.in_flight /\ q.in_flight_counter = p.in_flight_counter
  PROVE  SentOK(q, last, rx)
  BY DEF SentOK, WireOK, SlotOK

\* The line in flight is sent, or the head of the queue is put in flight.
LEMMA LineSentOK ==
  ASSUME NEW p, NEW q \in PicoState, NEW f \in TextFrame, NEW last \in Nat, NEW rx,
         SentOK(p, last, rx), QueueOK(q), q.out = Append(p.out, f),
         q.in_flight, Dropped(q) = Dropped(p),
         p.in_flight => q.in_flight_counter = p.in_flight_counter,
         f.id = Dropped(q) + 1, f.counter = q.in_flight_counter
  PROVE  SentOK(q, last, rx)
<1>1. /\ p \in PicoState /\ QueueOK(p) /\ WireOK(p) /\ SlotOK(p, last, rx)
  BY DEF SentOK
<1>2. /\ Dropped(p) \in Nat /\ SentUpTo(p) \in Nat /\ p.in_flight \in BOOLEAN
      /\ p.in_flight => SentUpTo(p) = Dropped(p) + 1
      /\ ~p.in_flight => SentUpTo(p) = Dropped(p)
      /\ p.out \in Seq(TextFrame) /\ \A i \in 1 .. Len(p.out) : p.out[i].id \in Nat
  BY <1>1, PicoFacts
<1>3. SentUpTo(q) = Dropped(p) + 1 /\ f.id = SentUpTo(q) /\ f.id # NoLine
  BY <1>2 DEF SentUpTo, NoLine
<1>4. /\ Len(p.out) \in Nat /\ Len(q.out) = Len(p.out) + 1
      /\ \A i \in 1 .. Len(p.out) : q.out[i] = p.out[i]
      /\ q.out[Len(p.out) + 1] = f
  BY <1>2, AppendFacts
<1>5. \A i \in 1 .. Len(p.out) :
        /\ p.out[i].id # NoLine /\ p.out[i].id <= f.id
        /\ p.out[i].id = f.id => p.out[i].counter = f.counter
  BY <1>1, <1>2, <1>3 DEF WireOK
<1>6. WireOK(q)
  <2>1. ASSUME NEW i \in 1 .. Len(q.out)
        PROVE  /\ q.out[i].id # NoLine
               /\ q.out[i].id <= SentUpTo(q)
               /\ q.out[i].id = SentUpTo(q) => q.out[i].counter = q.in_flight_counter
    BY <1>2, <1>3, <1>4, <1>5
  <2>2. ASSUME NEW i \in 1 .. Len(q.out), NEW j \in 1 .. Len(q.out), i < j
        PROVE  /\ q.out[i].id <= q.out[j].id
               /\ q.out[i].id = q.out[j].id => q.out[i].counter = q.out[j].counter
    <3>1. i \in 1 .. Len(p.out)
      BY <1>4, <2>2
    <3>2. CASE j = Len(p.out) + 1
      BY <1>4, <1>5, <3>1, <3>2
    <3>3. CASE j # Len(p.out) + 1
      <4>1. j \in 1 .. Len(p.out)
        BY <1>4, <3>3
      <4> QED BY <1>1, <1>4, <2>2, <3>1, <4>1 DEF WireOK
    <3> QED BY <3>2, <3>3
  <2> QED BY <2>1, <2>2 DEF WireOK
<1>7. SlotOK(q, last, rx)
  <2>1. last <= SentUpTo(q) /\ (last = SentUpTo(q) => p.in_flight /\ last = SentUpTo(p))
    BY <1>1, <1>2, <1>3 DEF SlotOK
  <2>2. rx.seen /\ last = SentUpTo(q) => f.counter = rx.counter
    BY <1>1, <2>1 DEF SlotOK
  <2>3. ASSUME NEW i \in 1 .. Len(q.out)
        PROVE  /\ q.out[i].id >= last
               /\ rx.seen /\ q.out[i].id = last => q.out[i].counter = rx.counter
    <3>1. CASE i = Len(p.out) + 1
      BY <1>3, <1>4, <2>1, <2>2, <3>1
    <3>2. CASE i # Len(p.out) + 1
      <4>1. i \in 1 .. Len(p.out)
        BY <1>4, <3>2
      <4> QED BY <1>1, <1>4, <4>1 DEF SlotOK
    <3> QED BY <3>1, <3>2
  <2> QED BY <2>1, <2>2, <2>3 DEF SlotOK
<1> QED BY <1>6, <1>7 DEF SentOK

\* Resending keeps it, and so does sending the head.
LEMMA ResendSent ==
  ASSUME NEW p, NEW last \in Nat, NEW rx, SentOK(p, last, rx), p.in_flight
  PROVE  SentOK(SendText(p, p.in_flight_counter), last, rx)
<1> DEFINE f == [counter |-> p.in_flight_counter, id |-> Head(p.queue).id]
           q == SendText(p, p.in_flight_counter)
<1>1. p \in PicoState /\ QueueOK(p)
  BY DEF SentOK
<1>2. /\ f \in TextFrame /\ f.counter = p.in_flight_counter /\ f.id = Dropped(p) + 1
      /\ q \in PicoState /\ QueueOK(q) /\ q.out = Append(p.out, f)
      /\ q.in_flight /\ q.in_flight_counter = p.in_flight_counter
      /\ Dropped(q) = Dropped(p)
  BY <1>1, ResendFacts
<1> HIDE DEF f, q
<1>3. SentOK(q, last, rx)
  BY <1>2, LineSentOK
<1> QED BY <1>3 DEF q

LEMMA SendHeadSent ==
  ASSUME NEW p, NEW last \in Nat, NEW rx, NEW sent \in BOOLEAN, SentOK(p, last, rx),
         p.queue # <<>>, ~p.in_flight
  PROVE  SentOK(SendHead(p, sent), last, rx)
<1> DEFINE f == [counter |-> p.tx_text, id |-> Head(p.queue).id]
           q == SendHead(p, TRUE)
<1>1. p \in PicoState /\ QueueOK(p)
  BY DEF SentOK
<1>2. /\ f \in TextFrame /\ f.counter = p.tx_text /\ f.id = Dropped(p) + 1
      /\ q \in PicoState /\ QueueOK(q) /\ q.out = Append(p.out, f)
      /\ q.in_flight /\ q.in_flight_counter = p.tx_text /\ Dropped(q) = Dropped(p)
  BY <1>1, SendHeadFacts
<1>3. SendHead(p, sent) = IF sent THEN q ELSE p
  BY DEF SendHead
<1> HIDE DEF f, q
<1>4. SentOK(q, last, rx)
  BY <1>2, LineSentOK
<1> QED BY <1>3, <1>4

LEMMA LogPollSent ==
  ASSUME NEW p, NEW last \in Nat, NEW rx, NEW o \in Outcome, SentOK(p, last, rx)
  PROVE  SentOK(LogPoll(p, o), last, rx)
<1>1. o.frame \in BOOLEAN /\ o.expired \in BOOLEAN
  BY DEF Outcome
<1>2. CASE p.queue # <<>> /\ ~p.in_flight
  BY <1>1, <1>2, SendHeadSent DEF LogPoll
<1>3. CASE p.queue # <<>> /\ p.in_flight /\ o.expired /\ o.frame
  BY <1>3, ResendSent DEF LogPoll
<1>4. CASE ~(p.queue # <<>> /\ ~p.in_flight)
           /\ ~(p.queue # <<>> /\ p.in_flight /\ o.expired /\ o.frame)
  BY <1>4 DEF LogPoll
<1> QED BY <1>2, <1>3, <1>4

LEMMA VlogSent ==
  ASSUME NEW p, NEW last \in Nat, NEW rx, NEW len \in Nat, NEW o \in Outcome,
         SentOK(p, last, rx)
  PROVE  SentOK(Vlog(p, len, o), last, rx)
<1> DEFINE r == [p EXCEPT !.queue = Append(@, [id |-> p.logged + 1, len |-> len]),
                          !.queued_bytes = @ + len, !.logged = @ + 1]
<1>1. p \in PicoState /\ QueueOK(p)
  BY DEF SentOK
<1>2. /\ r \in PicoState /\ QueueOK(r) /\ r.out = p.out
      /\ r.in_flight = p.in_flight /\ r.in_flight_counter = p.in_flight_counter
      /\ Dropped(r) = Dropped(p)
  BY <1>1, QueueLineFacts
<1>3. Vlog(p, len, o) = IF o.entry THEN LogPoll(r, o) ELSE p
  BY DEF Vlog
<1> HIDE DEF r
<1>4. SentUpTo(r) = SentUpTo(p)
  BY <1>2 DEF SentUpTo
<1>5. SentOK(r, last, rx)
  BY <1>2, <1>4, NothingSentOK
<1>6. SentOK(LogPoll(r, o), last, rx)
  BY <1>5, LogPollSent
<1> QED BY <1>3, <1>6

LEMMA OnAckSent ==
  ASSUME NEW p, NEW last \in Nat, NEW rx, NEW of, NEW sent \in BOOLEAN,
         SentOK(p, last, rx)
  PROVE  SentOK(OnAck(p, of, sent), last, rx)
<1> DEFINE rest == [Pop(p) EXCEPT !.in_flight = FALSE]
<1>1. CASE p.queue = <<>> \/ ~p.in_flight \/ of # p.in_flight_counter
  BY <1>1 DEF OnAck
<1>2. CASE p.queue # <<>> /\ p.in_flight /\ of = p.in_flight_counter
  <2>1. p \in PicoState /\ QueueOK(p)
    BY DEF SentOK
  <2>2. /\ rest \in PicoState /\ QueueOK(rest) /\ rest.out = p.out
        /\ ~rest.in_flight /\ Dropped(rest) = Dropped(p) + 1 /\ Dropped(p) \in Nat
    BY <1>2, <2>1, ReleaseFacts
  <2>3. OnAck(p, of, sent) = IF rest.queue = <<>> THEN rest ELSE SendHead(rest, sent)
    BY <1>2 DEF OnAck
  <2> HIDE DEF rest
  <2>4. SentUpTo(rest) = SentUpTo(p)
    BY <1>2, <2>2 DEF SentUpTo
  <2>5. SentOK(rest, last, rx)
    BY <2>2, <2>4, NothingSentOK
  <2>6. rest.queue # <<>> => SentOK(SendHead(rest, sent), last, rx)
    BY <2>2, <2>5, SendHeadSent
  <2> QED BY <2>3, <2>5, <2>6
<1> QED BY <1>1, <1>2

LEMMA ReceiveAckSent ==
  ASSUME NEW p, NEW last \in Nat, NEW rx, NEW f \in AckFrame, NEW len \in Nat,
         NEW o \in Outcome, NEW sent \in BOOLEAN, SentOK(p, last, rx)
  PROVE  SentOK(ReceiveAck(p, f, len, o, sent), last, rx)
<1> DEFINE warned == IF Lost(p.rx_ack, f.counter) THEN Vlog(p, len, o) ELSE p
           q == [warned EXCEPT !.rx_ack = Taken(f.counter)]
<1>1. SentOK(warned, last, rx)
  BY VlogSent
<1>2. ReceiveAck(p, f, len, o, sent) = OnAck(q, f.of, sent)
  BY DEF ReceiveAck
<1> HIDE DEF warned
<1>3. Taken(f.counter) \in RxSlot
  BY DEF Taken, RxSlot, AckFrame
<1>4. /\ q \in PicoState
      /\ q.queue = warned.queue /\ q.logged = warned.logged
      /\ q.in_flight = warned.in_flight
      /\ q.in_flight_counter = warned.in_flight_counter
      /\ q.tx_text = warned.tx_text /\ q.out = warned.out
  BY <1>1, <1>3, Zenon DEF PicoState, SentOK
<1> HIDE DEF q
<1>5. SentUpTo(q) = SentUpTo(warned) /\ QueueOK(q)
  BY <1>1, <1>4 DEF SentUpTo, Dropped, QueueOK, SentOK
<1>6. SentOK(q, last, rx)
  BY <1>1, <1>4, <1>5, NothingSentOK
<1> QED BY <1>2, <1>6, OnAckSent

\* Texts leave the wire at its front, received, lost or dropped by a restart of
\* the Zero, or at its back, dropped by a reboot.
LEMMA TextsGoneOK ==
  ASSUME NEW p, NEW q \in PicoState, NEW last \in Nat, NEW rx, NEW k \in Nat,
         SentOK(p, last, rx), QueueOK(q), Len(q.out) + k <= Len(p.out),
         \A i \in 1 .. Len(q.out) : q.out[i] = p.out[i + k],
         SentUpTo(p) <= SentUpTo(q),
         q.in_flight => /\ p.in_flight /\ SentUpTo(q) = SentUpTo(p)
                        /\ q.in_flight_counter = p.in_flight_counter
  PROVE  SentOK(q, last, rx)
<1>1. /\ p \in PicoState /\ QueueOK(p) /\ WireOK(p) /\ SlotOK(p, last, rx)
  BY DEF SentOK
<1>2. /\ SentUpTo(p) \in Nat /\ SentUpTo(q) \in Nat
      /\ Len(p.out) \in Nat /\ Len(q.out) \in Nat
      /\ \A i \in 1 .. Len(p.out) : p.out[i].id \in Nat
  BY <1>1, PicoFacts
<1>3. \A i \in 1 .. Len(q.out) : i + k \in 1 .. Len(p.out)
  BY <1>2
<1>4. ASSUME NEW i \in 1 .. Len(q.out)
      PROVE  /\ q.out[i].id # NoLine
             /\ q.out[i].id <= SentUpTo(q)
             /\ q.in_flight /\ q.out[i].id = SentUpTo(q) =>
                  q.out[i].counter = q.in_flight_counter
             /\ q.out[i].id >= last
             /\ rx.seen /\ q.out[i].id = last => q.out[i].counter = rx.counter
  <2>1. i + k \in 1 .. Len(p.out) /\ q.out[i] = p.out[i + k] /\ p.out[i + k].id \in Nat
    BY <1>2, <1>3
  <2>2. p.out[i + k].id <= SentUpTo(q)
    BY <1>1, <1>2, <2>1 DEF WireOK
  <2>3. p.out[i + k].id # NoLine /\ p.out[i + k].id >= last
    BY <1>1, <2>1 DEF WireOK, SlotOK
  <2>4. rx.seen /\ p.out[i + k].id = last => p.out[i + k].counter = rx.counter
    BY <1>1, <2>1 DEF SlotOK
  <2>5. q.in_flight /\ p.out[i + k].id = SentUpTo(q) =>
          p.out[i + k].counter = q.in_flight_counter
    BY <1>1, <2>1 DEF WireOK
  <2> QED BY <2>1, <2>2, <2>3, <2>4, <2>5
<1>5. ASSUME NEW i \in 1 .. Len(q.out), NEW j \in 1 .. Len(q.out), i < j
      PROVE  /\ q.out[i].id <= q.out[j].id
             /\ q.out[i].id = q.out[j].id => q.out[i].counter = q.out[j].counter
  <2>1. /\ i + k \in 1 .. Len(p.out) /\ q.out[i] = p.out[i + k]
        /\ j + k \in 1 .. Len(p.out) /\ q.out[j] = p.out[j + k]
    BY <1>3
  <2>2. i + k < j + k
    BY <1>2, <1>5
  <2> QED BY <1>1, <2>1, <2>2 DEF WireOK
<1>6. WireOK(q)
  BY <1>4, <1>5 DEF WireOK
<1>7. SlotOK(q, last, rx)
  <2>1. last <= SentUpTo(q)
    BY <1>1, <1>2 DEF SlotOK
  <2> QED BY <1>1, <1>4, <2>1 DEF SlotOK
<1> QED BY <1>6, <1>7 DEF SentOK

LEMMA DropTextSent ==
  ASSUME NEW p, NEW last \in Nat, NEW rx, SentOK(p, last, rx), p.out # <<>>
  PROVE  SentOK([p EXCEPT !.out = Tail(@)], last, rx)
<1> DEFINE q == [p EXCEPT !.out = Tail(p.out)]
<1>1. p \in PicoState /\ QueueOK(p) /\ SentUpTo(p) \in Nat
  BY PicoFacts DEF SentOK
<1>e. q = [p EXCEPT !.out = Tail(@)]
  BY <1>1 DEF PicoState
<1>2. /\ Tail(p.out) \in Seq(TextFrame) /\ Len(p.out) \in Nat
      /\ Len(Tail(p.out)) = Len(p.out) - 1
      /\ \A i \in 1 .. Len(p.out) - 1 : Tail(p.out)[i] = p.out[i + 1]
  BY <1>1, TailFacts DEF PicoState
<1>3. /\ q \in PicoState
      /\ q.queue = p.queue /\ q.logged = p.logged /\ q.in_flight = p.in_flight
      /\ q.in_flight_counter = p.in_flight_counter
      /\ q.tx_text = p.tx_text /\ q.out = Tail(p.out)
  BY <1>1, <1>2, Zenon DEF PicoState
<1> HIDE DEF q
<1>4. SentUpTo(q) = SentUpTo(p) /\ QueueOK(q)
  BY <1>1, <1>3 DEF SentUpTo, Dropped, QueueOK
<1>5. PICK k \in Nat : /\ Len(q.out) + k <= Len(p.out)
                       /\ \A i \in 1 .. Len(q.out) : q.out[i] = p.out[i + k]
  <2>1. Len(q.out) + 1 <= Len(p.out)
    BY <1>2, <1>3
  <2>2. \A i \in 1 .. Len(q.out) : q.out[i] = p.out[i + 1]
    BY <1>2, <1>3
  <2> QED BY <2>1, <2>2
<1>6. /\ SentUpTo(p) <= SentUpTo(q)
      /\ q.in_flight => /\ p.in_flight /\ SentUpTo(q) = SentUpTo(p)
                        /\ q.in_flight_counter = p.in_flight_counter
  BY <1>1, <1>3, <1>4
<1>7. SentOK(q, last, rx)
  BY <1>3, <1>4, <1>5, <1>6, TextsGoneOK
<1> QED BY <1>e, <1>7

\* What the Zero has taken, as a sequence.
LEMMA TakenFacts ==
  ASSUME NEW z \in ZeroState
  PROVE  /\ TakenLines(z) \in Seq(Nat) /\ LastOf(TakenLines(z)) \in Nat
         /\ z.log \in Seq(Nat) /\ z.writing \in Nat
         /\ z.rx_text.seen \in BOOLEAN /\ z.out \in Seq(AckFrame)
<1>1. /\ z.log \in Seq(Nat) /\ z.writing \in Nat /\ z.out \in Seq(AckFrame)
      /\ z.rx_text.seen \in BOOLEAN
  BY DEF ZeroState, RxSlot
<1>2. TakenLines(z) \in Seq(Nat)
  BY <1>1, AppendFacts DEF TakenLines
<1>3. ASSUME TakenLines(z) # <<>>
      PROVE  TakenLines(z)[Len(TakenLines(z))] \in Nat
  BY <1>2, <1>3
<1>4. LastOf(TakenLines(z)) \in Nat
  BY <1>3 DEF LastOf, NoLine
<1> QED BY <1>1, <1>2, <1>4

LEMMA LastAppended ==
  ASSUME NEW s \in Seq(Nat), NEW e \in Nat
  PROVE  LastOf(Append(s, e)) = e /\ Append(s, e) # <<>>
<1>1. Len(s) \in Nat /\ Len(Append(s, e)) = Len(s) + 1 /\ Append(s, e)[Len(s) + 1] = e
  BY AppendFacts
<1>2. Append(s, e) # <<>>
  BY <1>1
<1> QED BY <1>1, <1>2 DEF LastOf

LEMMA SendTextAckFacts ==
  ASSUME NEW z \in ZeroState, NEW c \in Counter, NEW sent \in BOOLEAN
  PROVE  LET y == SendTextAck(z, c, sent)
         IN  /\ y \in ZeroState /\ y.rx_text = z.rx_text
             /\ y.log = z.log /\ y.writing = z.writing
             /\ y.tx_ack = IF sent THEN Inc(z.tx_ack) ELSE z.tx_ack
             /\ y.out = IF sent THEN Append(z.out, [counter |-> z.tx_ack, of |-> c])
                                ELSE z.out
<1>0. CASE ~sent
  BY <1>0 DEF SendTextAck
<1>s. CASE sent
  <2> DEFINE f == [counter |-> z.tx_ack, of |-> c]
             y == [z EXCEPT !.out = Append(z.out, f), !.tx_ack = Inc(z.tx_ack)]
  <2>1. y = SendTextAck(z, c, sent)
    BY <1>s DEF SendTextAck, ZeroState
  <2>2. f \in AckFrame /\ Inc(z.tx_ack) \in Counter
    BY IncFacts DEF AckFrame, ZeroState
  <2> HIDE DEF f
  <2>3. Append(z.out, f) \in Seq(AckFrame)
    BY <2>2, AppendFacts DEF ZeroState
  <2>4. /\ y \in ZeroState /\ y.rx_text = z.rx_text /\ y.log = z.log
        /\ y.writing = z.writing /\ y.tx_ack = Inc(z.tx_ack) /\ y.out = Append(z.out, f)
    BY <2>2, <2>3, Zenon DEF ZeroState
  <2> HIDE DEF y
  <2> QED BY <1>s, <2>1, <2>4 DEF f
<1> QED BY <1>0, <1>s

\* Sequences in order, with one element more or less.
LEMMA SortedFacts ==
  ASSUME NEW s \in Seq(Nat), Sorted(s)
  PROVE  \A i \in 1 .. Len(s) : s[i] <= LastOf(s)
<1> SUFFICES ASSUME NEW i \in 1 .. Len(s) PROVE s[i] <= LastOf(s)
  OBVIOUS
<1>1. Len(s) \in 1 .. Len(s) /\ i <= Len(s) /\ s # <<>>
  OBVIOUS
<1>2. s[i] <= s[Len(s)]
  BY <1>1 DEF Sorted
<1> QED BY <1>1, <1>2 DEF LastOf

LEMMA SortedAppend ==
  ASSUME NEW s \in Seq(Nat), NEW e \in Nat, NEW t, t = Append(s, e)
  PROVE  /\ Sorted(s) /\ e >= LastOf(s) => Sorted(t)
         /\ Sorted(t) => Sorted(s) /\ LastOf(s) <= e
<1>1. /\ Len(s) \in Nat /\ Len(t) = Len(s) + 1
      /\ \A i \in 1 .. Len(s) : t[i] = s[i] /\ s[i] \in Nat
      /\ t[Len(s) + 1] = e
  BY AppendFacts
<1>2. \A i \in 1 .. Len(t) : i \in 1 .. Len(s) \/ i = Len(s) + 1
  BY <1>1
<1>3. ASSUME Sorted(s), e >= LastOf(s)
      PROVE  Sorted(t)
  <2>1. \A i \in 1 .. Len(s) : s[i] <= LastOf(s)
    BY <1>3, SortedFacts
  <2>2. LastOf(s) \in Nat
    BY <1>1 DEF LastOf, NoLine
  <2>3. \A i \in 1 .. Len(s) : s[i] <= e
    BY <1>1, <1>3, <2>1, <2>2
  <2>4. ASSUME NEW i \in 1 .. Len(t), NEW j \in 1 .. Len(t), i <= j
        PROVE  t[i] <= t[j]
    <3>1. CASE j \in 1 .. Len(s)
      <4>1. i \in 1 .. Len(s)
        BY <1>1, <2>4, <3>1
      <4> QED BY <1>1, <1>3, <2>4, <3>1, <4>1 DEF Sorted
    <3>2. CASE j = Len(s) + 1 /\ i \in 1 .. Len(s)
      BY <1>1, <2>3, <3>2
    <3>3. CASE j = Len(s) + 1 /\ i = Len(s) + 1
      BY <1>1, <3>3
    <3> QED BY <1>2, <3>1, <3>2, <3>3
  <2> QED BY <2>4 DEF Sorted
<1>4. ASSUME Sorted(t)
      PROVE  Sorted(s) /\ LastOf(s) <= e
  <2>1. \A i \in 1 .. Len(s) : i \in 1 .. Len(t)
    BY <1>1
  <2>2. Sorted(s)
    BY <1>1, <1>4, <2>1 DEF Sorted
  <2>3. CASE s = <<>>
    <3>1. LastOf(s) = 0
      BY <2>3 DEF LastOf, NoLine
    <3> QED BY <2>2, <3>1
  <2>4. CASE s # <<>>
    <3>1. Len(s) \in 1 .. Len(s) /\ Len(s) + 1 \in 1 .. Len(t) /\ Len(s) <= Len(s) + 1
      BY <1>1, <2>4
    <3>2. t[Len(s)] <= t[Len(s) + 1]
      BY <1>4, <2>1, <3>1 DEF Sorted
    <3>3. LastOf(s) = s[Len(s)]
      BY <2>4 DEF LastOf
    <3> QED BY <1>1, <2>2, <3>1, <3>2, <3>3
  <2> QED BY <2>2, <2>3, <2>4
<1> QED BY <1>3, <1>4

\* A text that the slot does not know is a later line than those taken, or the
\* slot is new.
LEMMA TakeOnce ==
  ASSUME NEW p, NEW z \in ZeroState, NEW y \in ZeroState, NEW n \in Nat,
         z.writing = NoLine, p.out # <<>>, NEW last \in Nat,
         LastOf(TakenLines(z)) <= last, SentOK(p, last, z.rx_text), TakenOK(z, n),
         ~Resent(z.rx_text, Head(p.out).counter),
         y.log = z.log, y.writing = Head(p.out).id,
         y.rx_text = Taken(Head(p.out).counter)
  PROVE  TakenOK(y, n) /\ LastOf(TakenLines(y)) = Head(p.out).id
<1> DEFINE e == Head(p.out).id
<1>1. /\ p \in PicoState /\ QueueOK(p) /\ WireOK(p) /\ SlotOK(p, last, z.rx_text)
  BY DEF SentOK
<1>2. /\ Head(p.out) = p.out[1] /\ 1 \in 1 .. Len(p.out) /\ e \in Nat
  <2>1. p.out \in Seq(TextFrame)
    BY <1>1 DEF PicoState
  <2>2. Head(p.out) = p.out[1] /\ Head(p.out) \in TextFrame /\ 1 \in 1 .. Len(p.out)
    BY <2>1, TailFacts
  <2> QED BY <2>2 DEF TextFrame
<1>3. e # NoLine /\ e >= last
  BY <1>1, <1>2 DEF WireOK, SlotOK
<1>4. /\ TakenLines(z) = z.log /\ z.log \in Seq(Nat) /\ LastOf(z.log) \in Nat
      /\ LastOf(z.log) <= last /\ z.rx_text.seen \in BOOLEAN
  BY TakenFacts DEF TakenLines
<1>5. TakenLines(y) = Append(z.log, e)
  BY <1>3 DEF TakenLines
<1>6. z.rx_text.seen => e > last
  <2>1. z.rx_text.seen /\ e = last => Head(p.out).counter = z.rx_text.counter
    BY <1>1, <1>2 DEF SlotOK
  <2>2. z.rx_text.seen => e # last
    BY <2>1 DEF Resent
  <2> QED BY <1>2, <1>3, <1>4, <2>2
<1> HIDE DEF e
<1>s. Sorted(z.log)
  BY <1>4 DEF TakenOK
<1>7. \A i \in 1 .. Len(z.log) : z.log[i] <= last
  <2>1. ASSUME NEW i \in 1 .. Len(z.log)
        PROVE  z.log[i] \in Nat /\ z.log[i] <= LastOf(z.log)
    BY <1>4, <1>s, SortedFacts
  <2> QED BY <1>4, <2>1
<1>8. /\ Repeats(z.log) \in Int
      /\ e \in Elements(z.log) => Repeats(Append(z.log, e)) = Repeats(z.log) + 1
      /\ e \notin Elements(z.log) => Repeats(Append(z.log, e)) = Repeats(z.log)
  BY <1>2, <1>4, <1>7, RepeatsFacts
<1>9. /\ Repeats(z.log) <= n
      /\ ~z.rx_text.seen /\ z.log # <<>> => Repeats(z.log) + 1 <= n
  BY <1>4 DEF TakenOK
<1>10. Repeats(Append(z.log, e)) <= n
  <2>1. CASE z.rx_text.seen
    <3>1. e \notin Elements(z.log)
      <4>1. ASSUME NEW i \in 1 .. Len(z.log)
            PROVE  z.log[i] # e
        <5>1. z.log[i] <= last /\ z.log[i] \in Nat
          BY <1>4, <1>7
        <5> QED BY <1>2, <1>4, <1>6, <2>1, <5>1
      <4>2. DOMAIN z.log = 1 .. Len(z.log)
        BY <1>4
      <4> QED BY <4>1, <4>2 DEF Elements
    <3> QED BY <1>8, <1>9, <3>1
  <2>2. CASE ~z.rx_text.seen /\ z.log # <<>>
    BY <1>8, <1>9, <2>2
  <2>3. CASE z.log = <<>>
    <3>1. e \notin Elements(z.log)
      BY <2>3 DEF Elements
    <3> QED BY <1>8, <1>9, <3>1
  <2> QED BY <1>4, <2>1, <2>2, <2>3
<1>11. LastOf(Append(z.log, e)) = e
  BY <1>2, <1>4, LastAppended
<1>12. Sorted(Append(z.log, e))
  <2>1. e >= LastOf(z.log)
    BY <1>2, <1>3, <1>4
  <2> QED BY <1>2, <1>4, <1>s, <2>1, SortedAppend
<1>13. y.rx_text.seen
  BY DEF Taken
<1>14. LastOf(TakenLines(y)) = e
  BY <1>5, <1>11
<1> QED BY <1>5, <1>10, <1>12, <1>13, <1>14 DEF TakenOK, e

\* The Zero takes a text off the wire and logs it, or knows it.
LEMMA ReceiveTextTaken ==
  ASSUME NEW p, NEW z \in ZeroState, NEW n \in Nat, NEW sent \in BOOLEAN,
         z.writing = NoLine, p.out # <<>>, SlotAhead(p, z), TakenOK(z, n)
  PROVE  LET q == [p EXCEPT !.out = Tail(@)]
             y == ReceiveText(z, Head(p.out), sent)
         IN  y \in ZeroState /\ TakenOK(y, n) /\ SlotAhead(q, y)
<1> DEFINE f == Head(p.out)
           q == [p EXCEPT !.out = Tail(@)]
           y == ReceiveText(z, Head(p.out), sent)
<1>0. PICK last \in Nat :
        LastOf(TakenLines(z)) <= last /\ SentOK(p, last, z.rx_text)
  BY DEF SlotAhead
<1>1. p \in PicoState /\ QueueOK(p) /\ WireOK(p) /\ SlotOK(p, last, z.rx_text)
  BY <1>0 DEF SentOK
<1>2. p.out \in Seq(TextFrame) /\ f \in TextFrame
  BY <1>1, TailFacts DEF PicoState
<1>3. f.counter \in Counter /\ f.id \in Nat
  BY <1>2 DEF TextFrame
<1>4. SentOK(q, last, z.rx_text)
  BY <1>0, DropTextSent
<1>5. CASE Resent(z.rx_text, f.counter)
  <2>1. y = SendTextAck(z, f.counter, sent)
    BY <1>5 DEF ReceiveText
  <2>2. y \in ZeroState /\ y.rx_text = z.rx_text /\ y.log = z.log /\ y.writing = z.writing
    <3> HIDE DEF f, y
    <3> QED BY <1>3, <2>1, SendTextAckFacts
  <2>3. TakenLines(y) = TakenLines(z)
    BY <2>2 DEF TakenLines
  <2> HIDE DEF y, q
  <2>4. TakenOK(y, n)
    BY <2>2, <2>3 DEF TakenOK
  <2>5. SlotAhead(q, y)
    BY <1>0, <1>4, <2>2, <2>3 DEF SlotAhead
  <2> QED BY <2>2, <2>4, <2>5 DEF y, q
<1>6. CASE ~Resent(z.rx_text, f.counter)
  <2> DEFINE x == [z EXCEPT !.rx_text = Taken(f.counter), !.writing = f.id]
  <2>1. y = SendTextAck(x, f.counter, sent)
    BY <1>6 DEF ReceiveText
  <2>2. Taken(f.counter) \in RxSlot
    BY <1>3 DEF Taken, RxSlot
  <2>3. /\ x \in ZeroState /\ x.rx_text = Taken(f.counter) /\ x.log = z.log
        /\ x.writing = f.id
    BY <1>3, <2>2, Zenon DEF ZeroState
  <2> HIDE DEF x, y, f
  <2>4. /\ y \in ZeroState /\ y.rx_text = Taken(f.counter) /\ y.log = z.log
        /\ y.writing = f.id
    BY <1>3, <2>1, <2>3, SendTextAckFacts
  <2>5. TakenOK(y, n) /\ LastOf(TakenLines(y)) = f.id
    BY <1>0, <1>6, <2>4, TakeOnce DEF f
  <2>6. SentOK(q, f.id, Taken(f.counter))
    <3>1. /\ Len(p.out) \in Nat /\ Len(p.out) >= 1 /\ f = p.out[1]
          /\ Len(Tail(p.out)) = Len(p.out) - 1
          /\ \A i \in 1 .. Len(p.out) - 1 : Tail(p.out)[i] = p.out[i + 1]
      BY <1>2, TailFacts DEF f
    <3>2. /\ q.out = Tail(p.out) /\ q.in_flight = p.in_flight
          /\ q.in_flight_counter = p.in_flight_counter
          /\ q.queue = p.queue /\ q.logged = p.logged
      BY <1>1 DEF PicoState
    <3>3. SentUpTo(q) = SentUpTo(p)
      BY <3>2 DEF SentUpTo, Dropped
    <3>4. q \in PicoState /\ QueueOK(q) /\ WireOK(q)
      BY <1>4 DEF SentOK
    <3> HIDE DEF q, f
    <3>5. ASSUME NEW i \in 1 .. Len(q.out)
          PROVE  q.out[i].id >= f.id /\ (q.out[i].id = f.id => q.out[i].counter = f.counter)
      <4>1. /\ q.out[i] = p.out[i + 1] /\ i + 1 \in 1 .. Len(p.out) /\ 1 < i + 1
            /\ 1 \in 1 .. Len(p.out)
        BY <3>1, <3>2
      <4>2. /\ p.out[1].id <= p.out[i + 1].id
            /\ p.out[1].id = p.out[i + 1].id => p.out[1].counter = p.out[i + 1].counter
        BY <1>1, <4>1 DEF WireOK
      <4>3. p.out[i + 1].id \in Nat
        BY <1>1, <4>1, PicoFacts
      <4> QED BY <1>3, <3>1, <4>1, <4>2, <4>3
    <3>6. /\ f.id <= SentUpTo(q)
          /\ q.in_flight /\ f.id = SentUpTo(q) => q.in_flight_counter = f.counter
      BY <1>1, <3>1, <3>2, <3>3 DEF WireOK
    <3>7. Taken(f.counter).counter = f.counter
      BY DEF Taken
    <3>8. SlotOK(q, f.id, Taken(f.counter))
      BY <3>5, <3>6, <3>7 DEF SlotOK
    <3> QED BY <3>4, <3>8 DEF SentOK
  <2> HIDE DEF q
  <2>7. SlotAhead(q, y)
    BY <1>3, <2>4, <2>5, <2>6 DEF SlotAhead, f
  <2> QED BY <2>4, <2>5, <2>7 DEF y, q
<1> QED BY <1>5, <1>6

LEMMA ZeroWriteTaken ==
  ASSUME NEW z \in ZeroState, NEW n \in Nat, z.writing # NoLine, TakenOK(z, n)
  PROVE  LET y == [z EXCEPT !.log = Append(@, z.writing), !.writing = NoLine]
         IN  /\ y \in ZeroState /\ TakenOK(y, n) /\ y.rx_text = z.rx_text
             /\ TakenLines(y) = TakenLines(z)
<1> DEFINE y == [z EXCEPT !.log = Append(@, z.writing), !.writing = NoLine]
<1>1. Append(z.log, z.writing) \in Seq(Nat) /\ NoLine \in Nat
  BY TakenFacts, AppendFacts DEF NoLine
<1>2. /\ y \in ZeroState /\ y.rx_text = z.rx_text /\ y.writing = NoLine
      /\ y.log = Append(z.log, z.writing)
  BY <1>1 DEF ZeroState
<1> HIDE DEF y
<1>3. TakenLines(y) = TakenLines(z)
  BY <1>2 DEF TakenLines
<1>4. TakenOK(y, n)
  BY <1>2, <1>3 DEF TakenOK
<1> QED BY <1>2, <1>3, <1>4 DEF y

LEMMA SubSeqFacts ==
  ASSUME NEW S, NEW s \in Seq(S), NEW n \in 0 .. Len(s)
  PROVE  /\ SubSeq(s, 1, n) \in Seq(S) /\ Len(SubSeq(s, 1, n)) = n
         /\ \A i \in 1 .. n : SubSeq(s, 1, n)[i] = s[i]
         /\ SubSeq(s, n + 1, Len(s)) \in Seq(S)
         /\ Len(SubSeq(s, n + 1, Len(s))) = Len(s) - n
         /\ \A i \in 1 .. Len(s) - n : SubSeq(s, n + 1, Len(s))[i] = s[i + n]
  OBVIOUS

\* A restart of the Zero drops the beginning of what is on the wire to it.
LEMMA CutTextsFacts ==
  ASSUME NEW p \in PicoState, NEW n \in 0 .. Len(p.out)
  PROVE  LET q == [p EXCEPT !.out = SubSeq(@, n + 1, Len(@))]
         IN  /\ q \in PicoState /\ q.queue = p.queue /\ q.logged = p.logged
             /\ q.in_flight = p.in_flight /\ q.tx_text = p.tx_text
             /\ q.in_flight_counter = p.in_flight_counter
             /\ Len(q.out) \in Nat /\ Len(q.out) + n <= Len(p.out)
             /\ \A i \in 1 .. Len(q.out) : q.out[i] = p.out[i + n]
<1> DEFINE q == [p EXCEPT !.out = SubSeq(@, n + 1, Len(@))]
<1>1. p.out \in Seq(TextFrame) /\ Len(p.out) \in Nat
  BY DEF PicoState
<1>2. /\ SubSeq(p.out, n + 1, Len(p.out)) \in Seq(TextFrame)
      /\ Len(SubSeq(p.out, n + 1, Len(p.out))) = Len(p.out) - n
      /\ \A i \in 1 .. Len(p.out) - n : SubSeq(p.out, n + 1, Len(p.out))[i] = p.out[i + n]
  BY <1>1, SubSeqFacts
<1>3. /\ q \in PicoState /\ q.queue = p.queue /\ q.logged = p.logged
      /\ q.in_flight = p.in_flight /\ q.tx_text = p.tx_text
      /\ q.in_flight_counter = p.in_flight_counter
      /\ q.out = SubSeq(p.out, n + 1, Len(p.out))
  BY <1>2, Zenon DEF PicoState
<1> HIDE DEF q
<1>4. Len(q.out) = Len(p.out) - n
  BY <1>2, <1>3
<1>5. \A i \in 1 .. Len(q.out) : q.out[i] = p.out[i + n]
  BY <1>2, <1>3
<1> QED BY <1>1, <1>3, <1>4, <1>5 DEF q

LEMMA CutTextsSent ==
  ASSUME NEW p, NEW last \in Nat, NEW rx, SentOK(p, last, rx), NEW n \in 0 .. Len(p.out)
  PROVE  SentOK([p EXCEPT !.out = SubSeq(@, n + 1, Len(@))], last, rx)
<1> DEFINE q == [p EXCEPT !.out = SubSeq(@, n + 1, Len(@))]
<1>1. p \in PicoState /\ QueueOK(p) /\ SentUpTo(p) \in Nat /\ Len(p.out) \in Nat
  BY PicoFacts DEF SentOK
<1>2. /\ q \in PicoState /\ q.queue = p.queue /\ q.logged = p.logged
      /\ q.in_flight = p.in_flight /\ q.tx_text = p.tx_text
      /\ q.in_flight_counter = p.in_flight_counter
      /\ Len(q.out) + n <= Len(p.out)
      /\ \A i \in 1 .. Len(q.out) : q.out[i] = p.out[i + n]
  BY <1>1, CutTextsFacts
<1> HIDE DEF q
<1>3. SentUpTo(q) = SentUpTo(p) /\ QueueOK(q) /\ n \in Nat
  BY <1>1, <1>2 DEF SentUpTo, Dropped, QueueOK
<1>4. /\ SentUpTo(p) <= SentUpTo(q)
      /\ q.in_flight => /\ p.in_flight /\ SentUpTo(q) = SentUpTo(p)
                        /\ q.in_flight_counter = p.in_flight_counter
  BY <1>1, <1>2, <1>3
<1>5. SentOK(q, last, rx)
  BY <1>2, <1>3, <1>4, TextsGoneOK
<1> QED BY <1>5 DEF q

\* The log is what was taken, or has the line being written still to come.
LEMMA LogInOrder ==
  ASSUME NEW z \in ZeroState, NEW n \in Nat, TakenOK(z, n)
  PROVE  /\ Sorted(z.log) /\ LastOf(z.log) <= LastOf(TakenLines(z))
         /\ Repeats(z.log) \in Int /\ Repeats(z.log) <= n
<1>0. /\ TakenLines(z) \in Seq(Nat) /\ LastOf(TakenLines(z)) \in Nat
      /\ z.log \in Seq(Nat) /\ z.writing \in Nat
  BY TakenFacts
<1>1. Sorted(TakenLines(z)) /\ Repeats(TakenLines(z)) <= n
  BY DEF TakenOK
<1>2. CASE z.writing = NoLine
  <2>1. TakenLines(z) = z.log
    BY <1>2 DEF TakenLines
  <2>2. \A i \in 1 .. Len(z.log) : z.log[i] <= LastOf(z.log)
    BY <1>0, <1>1, <2>1, SortedFacts
  <2>3. Repeats(z.log) \in Int
    BY <1>0, <2>1, <2>2, RepeatsFacts
  <2> QED BY <1>0, <1>1, <2>1, <2>3
<1>3. CASE z.writing # NoLine
  <2>1. TakenLines(z) = Append(z.log, z.writing)
    BY <1>3 DEF TakenLines
  <2>2. /\ LastOf(TakenLines(z)) = z.writing
        /\ Sorted(z.log) /\ LastOf(z.log) <= z.writing
    BY <1>0, <1>1, <2>1, LastAppended, SortedAppend
  <2>3. LastOf(z.log) \in Nat /\ \A i \in 1 .. Len(z.log) : z.log[i] <= LastOf(z.log)
    <3>1. z.log # <<>> => z.log[Len(z.log)] \in Nat
      BY <1>0
    <3>2. LastOf(z.log) \in Nat
      BY <3>1 DEF LastOf, NoLine
    <3> QED BY <1>0, <2>2, <3>2, SortedFacts
  <2>4. /\ Repeats(z.log) \in Int
        /\ \/ Repeats(TakenLines(z)) = Repeats(z.log) + 1
           \/ Repeats(TakenLines(z)) = Repeats(z.log)
    <3>1. /\ Repeats(z.log) \in Int
          /\ z.writing \in Elements(z.log) =>
               Repeats(Append(z.log, z.writing)) = Repeats(z.log) + 1
          /\ z.writing \notin Elements(z.log) =>
               Repeats(Append(z.log, z.writing)) = Repeats(z.log)
      BY <1>0, <2>3, RepeatsFacts
    <3> QED BY <2>1, <3>1
  <2> QED BY <1>1, <2>2, <2>4
<1> QED BY <1>2, <1>3

\* What is left of a log that loses its tail.
LEMMA PrefixFacts ==
  ASSUME NEW s \in Seq(Nat), Sorted(s), NEW k \in 0 .. Len(s), NEW t,
         t = SubSeq(s, 1, k)
  PROVE  /\ t \in Seq(Nat) /\ Sorted(t) /\ LastOf(t) \in Nat /\ LastOf(t) <= LastOf(s)
         /\ Elements(s) = Elements(t) \cup {s[i] : i \in k + 1 .. Len(s)}
         /\ Repeats(t) \in Int /\ Repeats(t) <= Repeats(s)
<1> DEFINE gone == {s[i] : i \in k + 1 .. Len(s)}
<1>1. /\ Len(s) \in Nat /\ k \in Nat /\ k <= Len(s) /\ DOMAIN s = 1 .. Len(s)
      /\ \A i \in 1 .. Len(s) : s[i] \in Nat
  OBVIOUS
<1>2. /\ t \in Seq(Nat) /\ Len(t) = k /\ DOMAIN t = 1 .. k
      /\ \A i \in 1 .. k : t[i] = s[i] /\ i \in 1 .. Len(s)
  BY <1>1, SubSeqFacts
<1>3. Sorted(t)
  BY <1>2 DEF Sorted
<1>4. \A i \in 1 .. Len(s) : s[i] <= LastOf(s)
  BY SortedFacts
<1>5. LastOf(s) \in Nat /\ LastOf(t) \in Nat
  BY <1>1, <1>2 DEF LastOf, NoLine
<1>6. LastOf(t) <= LastOf(s)
  <2>1. CASE t = <<>>
    BY <1>5, <2>1 DEF LastOf, NoLine
  <2>2. CASE t # <<>>
    <3>1. k \in 1 .. k /\ LastOf(t) = t[k]
      BY <1>1, <1>2, <2>2 DEF LastOf
    <3> QED BY <1>2, <1>4, <3>1
  <2> QED BY <2>1, <2>2
<1>7. Elements(s) = Elements(t) \cup gone
  <2>1. \A i \in 1 .. Len(s) : i \in 1 .. k \/ i \in k + 1 .. Len(s)
    BY <1>1
  <2>2. \A i \in k + 1 .. Len(s) : i \in 1 .. Len(s)
    BY <1>1
  <2>3. ASSUME NEW x \in Elements(s)
        PROVE  x \in Elements(t) \cup gone
    BY <1>1, <1>2, <2>1 DEF Elements
  <2>4. ASSUME NEW x \in Elements(t)
        PROVE  x \in Elements(s)
    BY <1>1, <1>2 DEF Elements
  <2>5. ASSUME NEW x \in gone
        PROVE  x \in Elements(s)
    BY <1>1, <2>2 DEF Elements
  <2> QED BY <2>3, <2>4, <2>5
<1>8. IsFiniteSet(gone) /\ Cardinality(gone) <= Len(s) - k /\ Cardinality(gone) \in Nat
  <2> DEFINE image == [i \in k + 1 .. Len(s) |-> s[i]]
  <2>1. image \in Surjection(k + 1 .. Len(s), gone)
    BY DEF Surjection
  <2>2. /\ IsFiniteSet(k + 1 .. Len(s))
        /\ Cardinality(k + 1 .. Len(s)) = IF k + 1 > Len(s) THEN 0 ELSE Len(s) - (k + 1) + 1
    <3>1. k + 1 \in Int /\ Len(s) \in Int
      BY <1>1
    <3> QED BY <3>1, FS_Interval
  <2> HIDE DEF image, gone
  <2>3. IsFiniteSet(gone) /\ Cardinality(gone) <= Cardinality(k + 1 .. Len(s))
    BY <2>1, <2>2, FS_Surjection
  <2>4. Cardinality(gone) \in Nat
    BY <2>3, FS_CardinalityType
  <2> QED BY <1>1, <2>2, <2>3, <2>4
<1>9. IsFiniteSet(Elements(t)) /\ Cardinality(Elements(t)) \in Nat
  <2>1. Elements(t) \subseteq 0 .. LastOf(s)
    BY <1>1, <1>2, <1>4, <1>5 DEF Elements
  <2>2. IsFiniteSet(0 .. LastOf(s))
    BY <1>5, FS_Interval
  <2> QED BY <2>1, <2>2, FS_Subset, FS_CardinalityType
<1> HIDE DEF gone
<1>10. Cardinality(Elements(s)) <= Cardinality(Elements(t)) + (Len(s) - k)
  <2>1. /\ Cardinality(Elements(s)) = Cardinality(Elements(t)) + Cardinality(gone)
                                      - Cardinality(Elements(t) \cap gone)
        /\ IsFiniteSet(Elements(t) \cap gone)
    <3>1. (Elements(t) \cap gone) \in SUBSET gone
      OBVIOUS
    <3> QED BY <1>7, <1>8, <1>9, <3>1, FS_Union, FS_Subset
  <2>2. Cardinality(Elements(t) \cap gone) \in Nat
    BY <2>1, FS_CardinalityType
  <2> QED BY <1>1, <1>8, <1>9, <2>1, <2>2
<1>11. Cardinality(Elements(s)) \in Int
  <2>1. IsFiniteSet(Elements(s))
    BY <1>7, <1>8, <1>9, FS_Union
  <2> QED BY <2>1, FS_CardinalityType
<1>12. Repeats(t) \in Int /\ Repeats(t) <= Repeats(s)
  BY <1>1, <1>2, <1>9, <1>10, <1>11 DEF Repeats
<1> QED BY <1>2, <1>3, <1>5, <1>6, <1>7, <1>12 DEF gone

\* A write fails: a part of the log is left.
LEMMA WriteFailsTaken ==
  ASSUME NEW z \in ZeroState, NEW n \in Nat, NEW kept \in 0 .. Len(z.log), TakenOK(z, n)
  PROVE  LET y == [z EXCEPT !.log = SubSeq(@, 1, kept), !.writing = NoLine]
         IN  /\ y \in ZeroState /\ TakenOK(y, n) /\ y.rx_text = z.rx_text
             /\ LastOf(TakenLines(y)) \in Nat
             /\ LastOf(TakenLines(y)) <= LastOf(TakenLines(z))
<1> DEFINE t == SubSeq(z.log, 1, kept)
           y == [z EXCEPT !.log = SubSeq(@, 1, kept), !.writing = NoLine]
<1>1. /\ z.log \in Seq(Nat) /\ LastOf(TakenLines(z)) \in Nat /\ LastOf(z.log) \in Nat
      /\ NoLine \in Nat /\ z.rx_text.seen \in BOOLEAN
  <2>1. z.log \in Seq(Nat) /\ LastOf(TakenLines(z)) \in Nat /\ z.rx_text.seen \in BOOLEAN
    BY TakenFacts
  <2>2. z.log # <<>> => z.log[Len(z.log)] \in Nat
    BY <2>1
  <2> QED BY <2>1, <2>2 DEF LastOf, NoLine
<1>2. /\ Sorted(z.log) /\ LastOf(z.log) <= LastOf(TakenLines(z))
      /\ Repeats(z.log) \in Int /\ Repeats(z.log) <= n
  BY LogInOrder
<1>3. /\ t \in Seq(Nat) /\ Sorted(t) /\ LastOf(t) \in Nat /\ LastOf(t) <= LastOf(z.log)
      /\ Repeats(t) \in Int /\ Repeats(t) <= Repeats(z.log)
  BY <1>1, <1>2, PrefixFacts
<1>4. z.log = <<>> => t = <<>>
  BY <1>1
<1>5. y = [z EXCEPT !.log = t, !.writing = NoLine]
  OBVIOUS
<1> HIDE DEF t, y
<1>6. /\ y \in ZeroState /\ y.rx_text = z.rx_text /\ y.writing = NoLine /\ y.log = t
  BY <1>1, <1>3, <1>5, Zenon DEF ZeroState
<1>7. TakenLines(y) = t
  BY <1>6 DEF TakenLines
<1>8. ~z.rx_text.seen /\ t # <<>> => Repeats(t) + 1 <= n
  <2> SUFFICES ASSUME ~z.rx_text.seen, t # <<>> PROVE Repeats(t) + 1 <= n
    OBVIOUS
  <2>1. z.writing = NoLine /\ z.log # <<>>
    BY <1>4 DEF TakenOK
  <2>2. TakenLines(z) = z.log
    BY <2>1 DEF TakenLines
  <2>3. Repeats(z.log) + 1 <= n
    BY <2>1, <2>2 DEF TakenOK
  <2> QED BY <1>2, <1>3, <2>3
<1>9. Repeats(t) <= n
  BY <1>2, <1>3
<1>10. TakenOK(y, n)
  BY <1>3, <1>6, <1>7, <1>8, <1>9 DEF TakenOK
<1>11. LastOf(t) <= LastOf(TakenLines(z))
  BY <1>1, <1>2, <1>3
<1> QED BY <1>3, <1>6, <1>7, <1>10, <1>11 DEF y

\* The Zero starts again with a part of its log and nothing else.
LEMMA ZeroRestartTaken ==
  ASSUME NEW z \in ZeroState, NEW n \in Nat, NEW kept \in 0 .. Len(z.log),
         NEW k \in 0 .. Len(z.out), TakenOK(z, n)
  PROVE  LET y == [ZeroStart EXCEPT !.log = SubSeq(z.log, 1, kept),
                                    !.out = SubSeq(z.out, 1, k)]
         IN  /\ y \in ZeroState /\ y.rx_text = RxOpen /\ TakenOK(y, n + 1)
             /\ LastOf(TakenLines(y)) \in Nat
             /\ LastOf(TakenLines(y)) <= LastOf(TakenLines(z))
<1> DEFINE t == SubSeq(z.log, 1, kept)
           y == [ZeroStart EXCEPT !.log = t, !.out = SubSeq(z.out, 1, k)]
<1>1. z.log \in Seq(Nat) /\ z.out \in Seq(AckFrame) /\ LastOf(TakenLines(z)) \in Nat
  BY TakenFacts
<1>2. SubSeq(z.out, 1, k) \in Seq(AckFrame)
  BY <1>1, SubSeqFacts
<1>3. RxOpen \in RxSlot /\ 0 \in Counter /\ NoLine \in Nat
  BY CounterModAssumption DEF Counter, RxOpen, RxSlot, NoLine
<1>4. ZeroStart \in ZeroState /\ ZeroStart.rx_text = RxOpen /\ ZeroStart.writing = NoLine
  BY <1>3 DEF ZeroStart, ZeroState
<1>5. /\ Sorted(z.log) /\ LastOf(z.log) <= LastOf(TakenLines(z))
      /\ Repeats(z.log) \in Int /\ Repeats(z.log) <= n
  BY LogInOrder
<1>6. /\ t \in Seq(Nat) /\ Sorted(t) /\ LastOf(t) \in Nat /\ LastOf(t) <= LastOf(z.log)
      /\ Repeats(t) \in Int /\ Repeats(t) <= Repeats(z.log)
  BY <1>1, <1>5, PrefixFacts
<1> HIDE DEF t
<1>7. /\ y \in ZeroState /\ y.rx_text = RxOpen /\ y.writing = NoLine /\ y.log = t
  BY <1>2, <1>4, <1>6, Zenon DEF ZeroState
<1> HIDE DEF y
<1>8. TakenLines(y) = t /\ ~y.rx_text.seen
  BY <1>7 DEF TakenLines, RxOpen
<1>9. LastOf(z.log) \in Nat
  <2>1. z.log # <<>> => z.log[Len(z.log)] \in Nat
    BY <1>1
  <2> QED BY <2>1 DEF LastOf, NoLine
<1>10. LastOf(t) <= LastOf(TakenLines(z))
  BY <1>1, <1>5, <1>6, <1>9
<1>11. TakenOK(y, n + 1)
  <2>1. Repeats(t) <= n + 1 /\ Repeats(t) + 1 <= n + 1
    BY <1>5, <1>6
  <2> QED BY <1>6, <1>7, <1>8, <2>1 DEF TakenOK
<1> QED BY <1>6, <1>7, <1>8, <1>10, <1>11 DEF y, t

\* The Pico forgets its queue and its counters; its next line is a new one.
LEMMA RebootSent ==
  ASSUME NEW p, NEW last \in Nat, NEW rx, SentOK(p, last, rx), NEW len \in Nat,
         NEW n \in 0 .. Len(p.out)
  PROVE  SentOK([PicoBoot(p.logged + 1, len) EXCEPT !.out = SubSeq(p.out, 1, n)], last, rx)
<1> DEFINE q == [PicoBoot(p.logged + 1, len) EXCEPT !.out = SubSeq(p.out, 1, n)]
           e == [id |-> p.logged + 1, len |-> len]
<1>1. /\ p \in PicoState /\ QueueOK(p) /\ SentUpTo(p) \in Nat /\ Len(p.out) \in Nat
      /\ p.logged \in Nat /\ SentUpTo(p) <= p.logged /\ p.out \in Seq(TextFrame)
  BY PicoFacts DEF SentOK
<1>2. /\ SubSeq(p.out, 1, n) \in Seq(TextFrame) /\ Len(SubSeq(p.out, 1, n)) = n
      /\ \A i \in 1 .. n : SubSeq(p.out, 1, n)[i] = p.out[i]
  BY <1>1, SubSeqFacts
<1>3. /\ e \in Entry /\ e.id = p.logged + 1 /\ len \in Int /\ p.logged + 1 \in Nat
      /\ 0 \in Counter /\ RxOpen \in RxSlot
  BY <1>1, CounterModAssumption DEF Entry, Counter, RxOpen, RxSlot
<1>4. /\ PicoBoot(p.logged + 1, len) = [queue |-> <<e>>, queued_bytes |-> len,
           in_flight |-> FALSE, in_flight_counter |-> 0,
           tx_text |-> 0, rx_ack |-> RxOpen, logged |-> p.logged + 1, out |-> <<>>]
  BY DEF PicoBoot
<1> HIDE DEF e
<1>5. <<e>> \in Seq(Entry) /\ Len(<<e>>) = 1 /\ <<e>>[1] = e /\ <<>> \in Seq(TextFrame)
  BY <1>3
<1> DEFINE b == PicoBoot(p.logged + 1, len)
<1>b. /\ b \in PicoState /\ b.queue = <<e>> /\ b.logged = p.logged + 1 /\ ~b.in_flight
  <2>1. b = [queue |-> <<e>>, queued_bytes |-> len,
             in_flight |-> FALSE, in_flight_counter |-> 0,
             tx_text |-> 0, rx_ack |-> RxOpen, logged |-> p.logged + 1, out |-> <<>>]
    BY <1>4
  <2> HIDE DEF b
  <2> DEFINE s == <<e>>
  <2>2. s \in Seq(Entry)
    BY <1>5
  <2> HIDE DEF s
  <2>3. b = [queue |-> s, queued_bytes |-> len,
             in_flight |-> FALSE, in_flight_counter |-> 0,
             tx_text |-> 0, rx_ack |-> RxOpen, logged |-> p.logged + 1, out |-> <<>>]
    BY <2>1 DEF s
  <2>4. b \in PicoState
    BY <1>3, <1>5, <2>2, <2>3 DEF PicoState
  <2> QED BY <2>1, <2>4
<1> HIDE DEF b
<1>6. /\ q \in PicoState /\ ~q.in_flight /\ q.queue = <<e>> /\ q.logged = p.logged + 1
      /\ q.out = SubSeq(p.out, 1, n)
  <2>1. q = [b EXCEPT !.out = SubSeq(p.out, 1, n)]
    BY DEF b
  <2> HIDE DEF q
  <2> QED BY <1>2, <1>b, <2>1, Zenon DEF PicoState
<1> HIDE DEF q
<1>7. Dropped(q) = p.logged /\ SentUpTo(q) = p.logged
  BY <1>1, <1>5, <1>6 DEF Dropped, SentUpTo
<1>8. QueueOK(q)
  BY <1>1, <1>3, <1>5, <1>6, <1>7 DEF QueueOK
<1>9. PICK k \in Nat : /\ Len(q.out) + k <= Len(p.out)
                       /\ \A i \in 1 .. Len(q.out) : q.out[i] = p.out[i + k]
  <2>1. Len(q.out) + 0 <= Len(p.out)
    BY <1>1, <1>2, <1>6
  <2>2. \A i \in 1 .. Len(q.out) : q.out[i] = p.out[i + 0]
    BY <1>2, <1>6
  <2> QED BY <2>1, <2>2
<1>10. /\ SentUpTo(p) <= SentUpTo(q)
       /\ q.in_flight => /\ p.in_flight /\ SentUpTo(q) = SentUpTo(p)
                         /\ q.in_flight_counter = p.in_flight_counter
  BY <1>1, <1>6, <1>7
<1>11. SentOK(q, last, rx)
  BY <1>6, <1>8, <1>9, <1>10, TextsGoneOK
<1> QED BY <1>11 DEF q

\* A slot that is new knows nothing, and what was taken may be cut off.
LEMMA SlotForgotten ==
  ASSUME NEW p, NEW last \in Nat, NEW rx, SentOK(p, last, rx),
         NEW low \in Nat, low <= last
  PROVE  SentOK(p, low, RxOpen)
<1>1. /\ p \in PicoState /\ QueueOK(p) /\ WireOK(p) /\ SlotOK(p, last, rx)
  BY DEF SentOK
<1>2. SentUpTo(p) \in Nat /\ \A i \in 1 .. Len(p.out) : p.out[i].id \in Nat
  BY <1>1, PicoFacts
<1>3. low <= SentUpTo(p) /\ \A i \in 1 .. Len(p.out) : p.out[i].id >= low
  BY <1>1, <1>2 DEF SlotOK
<1>4. ~RxOpen.seen
  BY DEF RxOpen
<1> QED BY <1>1, <1>3, <1>4 DEF SentOK, SlotOK

LEMMA RepeatInit == RInit => RepeatInv
<1> SUFFICES ASSUME RInit PROVE RepeatInv
  OBVIOUS
<1>1. /\ pico \in PicoState /\ zero \in ZeroState /\ QueueOK(pico)
  BY InitOK DEF RInit, IInv, LinkOK
<1>2. /\ pico.out = <<>> /\ ~pico.in_flight
      /\ zero.log = <<>> /\ zero.writing = NoLine /\ ~zero.rx_text.seen
  BY DEF RInit, Init, PicoBoot, ZeroStart, RxOpen
<1>3. TakenLines(zero) = <<>> /\ LastOf(<<>>) = NoLine
  BY <1>2 DEF TakenLines, LastOf
<1>4. Elements(<<>>) = {} /\ Len(<<>>) = 0
  BY DEF Elements
<1>5. Repeats(<<>>) = 0
  BY <1>4, FS_EmptySet DEF Repeats
<1>6. TakenOK(zero, 0)
  BY <1>2, <1>3, <1>4, <1>5 DEF TakenOK, Sorted
<1>7. SentUpTo(pico) \in Nat
  BY <1>1, PicoFacts
<1>8. SentOK(pico, NoLine, zero.rx_text)
  BY <1>1, <1>2, <1>7 DEF SentOK, WireOK, SlotOK, NoLine
<1>9. SlotAhead(pico, zero)
  BY <1>3, <1>8 DEF SlotAhead, NoLine
<1> QED BY <1>1, <1>6, <1>9 DEF RepeatInv, RInit

\* A step of the Pico alone, and an ack that leaves the wire.
LEMMA RepeatPico ==
  ASSUME RepeatInv, zero' \in ZeroState, zero'.log = zero.log,
         zero'.writing = zero.writing, zero'.rx_text = zero.rx_text,
         zero_restarts' = zero_restarts, flushed' \in Nat,
         NEW last \in Nat, LastOf(TakenLines(zero)) <= last,
         SentOK(pico', last, zero.rx_text)
  PROVE  RepeatInv'
<1>1. TakenLines(zero') = TakenLines(zero)
  BY DEF TakenLines
<1>2. TakenOK(zero', zero_restarts)
  BY <1>1 DEF RepeatInv, TakenOK
<1>3. SlotAhead(pico', zero')
  BY <1>1 DEF SlotAhead
<1> QED BY <1>2, <1>3 DEF RepeatInv

LEMMA AckGone ==
  ASSUME NEW z \in ZeroState, z.out # <<>>
  PROVE  LET y == [z EXCEPT !.out = Tail(@)]
         IN  /\ y \in ZeroState /\ y.log = z.log /\ y.writing = z.writing
             /\ y.rx_text = z.rx_text /\ Head(z.out) \in AckFrame
<1>1. Tail(z.out) \in Seq(AckFrame) /\ Head(z.out) \in AckFrame
  BY TakenFacts, TailFacts
<1> QED BY <1>1, Zenon DEF ZeroState

LEMMA RepeatStep == RepeatInv /\ [RNext]_all_vars => RepeatInv'
<1> SUFFICES ASSUME RepeatInv, [RNext]_all_vars PROVE RepeatInv'
  OBVIOUS
<1>0. PICK last \in Nat :
        LastOf(TakenLines(zero)) <= last /\ SentOK(pico, last, zero.rx_text)
  BY DEF RepeatInv, SlotAhead
<1>t. /\ zero \in ZeroState /\ zero_restarts \in Nat /\ flushed \in Nat
      /\ LastOf(TakenLines(zero)) \in Nat /\ LastOf(TakenLines(zero)) <= last
      /\ SentOK(pico, last, zero.rx_text) /\ TakenOK(zero, zero_restarts)
      /\ pico \in PicoState /\ pico.logged \in Nat
      /\ LineLengths \subseteq Nat
  BY <1>0, TakenFacts, TextLinkAssumption DEF RepeatInv, SentOK, PicoState
<1>f. zero' \in ZeroState => Len(zero'.log) \in Nat
  BY DEF ZeroState
<1>p. ASSUME zero' = zero, zero_restarts' = zero_restarts, flushed' \in Nat,
             SentOK(pico', last, zero.rx_text)
      PROVE  RepeatInv'
  BY <1>t, <1>p, RepeatPico
<1>a. ASSUME zero.out # <<>>, zero' = [zero EXCEPT !.out = Tail(@)],
             zero_restarts' = zero_restarts, flushed' = flushed,
             SentOK(pico', last, zero.rx_text)
      PROVE  RepeatInv'
  <2>1. /\ zero' \in ZeroState /\ zero'.log = zero.log /\ zero'.writing = zero.writing
        /\ zero'.rx_text = zero.rx_text
    BY <1>t, <1>a, AckGone
  <2> QED BY <1>a, <1>t, <2>1, RepeatPico
<1>1. ASSUME NEW len \in LineLengths, NEW o \in Outcome, LogLine(len, o),
             UNCHANGED restart_vars
      PROVE  RepeatInv'
  <2>1. SentOK(pico', last, zero.rx_text)
    BY <1>1, <1>t, VlogSent DEF LogLine
  <2> QED BY <1>1, <1>p, <1>t, <2>1 DEF LogLine, restart_vars
<1>2. CASE (SetupDone \/ StepsDone) /\ UNCHANGED restart_vars
  BY <1>2, <1>t, <1>p DEF SetupDone, StepsDone, restart_vars
<1>3. ASSUME NEW len \in LineLengths, NEW o \in Outcome, NEW sent \in BOOLEAN,
             PicoReceive(len, o, sent), UNCHANGED restart_vars
      PROVE  RepeatInv'
  <2>1. Head(zero.out) \in AckFrame
    BY <1>3, <1>t, AckGone DEF PicoReceive
  <2>2. SentOK(pico', last, zero.rx_text)
    BY <1>3, <1>t, <2>1, ReceiveAckSent DEF PicoReceive
  <2> QED BY <1>3, <1>a, <2>2 DEF PicoReceive, restart_vars
<1>4. ASSUME NEW o \in Outcome, PicoPoll(o), UNCHANGED restart_vars
      PROVE  RepeatInv'
  <2>1. SentOK(pico', last, zero.rx_text)
    BY <1>4, <1>t, LogPollSent DEF PicoPoll
  <2> QED BY <1>4, <1>p, <1>t, <2>1 DEF PicoPoll, restart_vars
<1>5. ASSUME NEW sent \in BOOLEAN, ZeroReceive(sent), UNCHANGED restart_vars
      PROVE  RepeatInv'
  <2>1. /\ zero' \in ZeroState /\ TakenOK(zero', zero_restarts)
        /\ SlotAhead(pico', zero')
    BY <1>5, <1>t, ReceiveTextTaken DEF ZeroReceive, RepeatInv
  <2> QED BY <1>5, <1>t, <2>1 DEF RepeatInv, restart_vars
<1>6. ASSUME ZeroWrite, flushed' = flushed \/ FlushDue, zero_restarts' = zero_restarts
      PROVE  RepeatInv'
  <2>1. /\ zero' \in ZeroState /\ TakenOK(zero', zero_restarts)
        /\ zero'.rx_text = zero.rx_text /\ TakenLines(zero') = TakenLines(zero)
    BY <1>6, <1>t, ZeroWriteTaken DEF ZeroWrite
  <2>2. flushed' \in Nat /\ pico' = pico
    BY <1>6, <1>f, <1>t, <2>1 DEF FlushDue, ZeroWrite
  <2>3. SlotAhead(pico', zero')
    BY <1>t, <2>1, <2>2 DEF SlotAhead
  <2> QED BY <1>6, <1>t, <2>1, <2>2, <2>3 DEF RepeatInv
<1>7. CASE LoseText /\ UNCHANGED restart_vars
  <2>1. SentOK(pico', last, zero.rx_text)
    BY <1>7, <1>t, DropTextSent DEF LoseText
  <2> QED BY <1>7, <1>p, <1>t, <2>1 DEF LoseText, restart_vars
<1>8. CASE LoseAck /\ UNCHANGED restart_vars
  BY <1>8, <1>t, <1>a DEF LoseAck, restart_vars
<1>9. ASSUME NEW len \in LineLengths, NEW o \in Outcome, DamageAck(len, o),
             UNCHANGED restart_vars
      PROVE  RepeatInv'
  <2>1. SentOK(pico', last, zero.rx_text)
    BY <1>9, <1>t, VlogSent DEF DamageAck
  <2> QED BY <1>9, <1>a, <2>1 DEF DamageAck, restart_vars
<1>10. CASE ZeroRestart
  <2>1. PICK n \in 0 .. Len(pico.out) :
          pico' = [pico EXCEPT !.out = SubSeq(@, n + 1, Len(@))]
    BY <1>10 DEF ZeroRestart
  <2>2. PICK kept \in flushed .. Len(zero.log), k \in 0 .. Len(zero.out) :
          /\ zero' = [ZeroStart EXCEPT !.log = SubSeq(zero.log, 1, kept),
                                       !.out = SubSeq(zero.out, 1, k)]
          /\ flushed' = kept
    BY <1>10 DEF ZeroRestart
  <2>3. kept \in 0 .. Len(zero.log) /\ kept \in Nat
    BY <1>t, <2>2
  <2>4. /\ zero' \in ZeroState /\ zero'.rx_text = RxOpen
        /\ TakenOK(zero', zero_restarts + 1)
        /\ LastOf(TakenLines(zero')) \in Nat
        /\ LastOf(TakenLines(zero')) <= LastOf(TakenLines(zero))
    <3>1. zero \in ZeroState /\ zero_restarts \in Nat /\ TakenOK(zero, zero_restarts)
      BY <1>t
    <3> QED BY <2>2, <2>3, <3>1, ZeroRestartTaken
  <2>5. SentOK(pico', last, zero.rx_text)
    BY <1>t, <2>1, CutTextsSent
  <2>6. LastOf(TakenLines(zero')) <= last
    BY <1>t, <2>4
  <2>7. SentOK(pico', LastOf(TakenLines(zero')), RxOpen)
    BY <1>t, <2>4, <2>5, <2>6, SlotForgotten
  <2>8. SlotAhead(pico', zero')
    BY <2>4, <2>7 DEF SlotAhead
  <2>9. zero_restarts' = zero_restarts + 1
    BY <1>10 DEF ZeroRestart
  <2> QED BY <1>t, <2>2, <2>3, <2>4, <2>8, <2>9 DEF RepeatInv
<1>11. CASE PicoReboot
  <2>1. PICK len \in LineLengths, n \in 0 .. Len(pico.out) :
          pico' = [PicoBoot(pico.logged + 1, len) EXCEPT !.out = SubSeq(pico.out, 1, n)]
    BY <1>11 DEF PicoReboot
  <2>2. PICK k \in 0 .. Len(zero.out) :
          zero' = [zero EXCEPT !.out = SubSeq(@, k + 1, Len(@))]
    BY <1>11 DEF PicoReboot
  <2>3. SubSeq(zero.out, k + 1, Len(zero.out)) \in Seq(AckFrame)
    BY <1>t, TakenFacts, SubSeqFacts
  <2>4. /\ zero' \in ZeroState /\ zero'.log = zero.log /\ zero'.writing = zero.writing
        /\ zero'.rx_text = zero.rx_text
    BY <1>t, <2>2, <2>3, Zenon DEF ZeroState
  <2>5. SentOK(pico', last, zero.rx_text)
    BY <1>t, <2>1, RebootSent
  <2> QED BY <1>11, <1>t, <2>4, <2>5, RepeatPico DEF PicoReboot
<1>12. CASE OwnLineFlush
  BY <1>12, <1>f, <1>t, <1>p DEF OwnLineFlush, FlushDue, vars
<1>13. CASE ZeroWriteFails
  <2>1. PICK kept \in flushed .. Len(zero.log) :
          zero' = [zero EXCEPT !.log = SubSeq(@, 1, kept), !.writing = NoLine]
    BY <1>13 DEF ZeroWriteFails
  <2>2. kept \in 0 .. Len(zero.log)
    BY <1>t, <2>1
  <2>3. /\ zero' \in ZeroState /\ TakenOK(zero', zero_restarts)
        /\ zero'.rx_text = zero.rx_text
        /\ LastOf(TakenLines(zero')) \in Nat
        /\ LastOf(TakenLines(zero')) <= LastOf(TakenLines(zero))
    <3>1. zero \in ZeroState /\ zero_restarts \in Nat /\ TakenOK(zero, zero_restarts)
      BY <1>t
    <3> QED BY <2>1, <2>2, <3>1, WriteFailsTaken
  <2>4. LastOf(TakenLines(zero')) <= last
    BY <1>t, <2>3
  <2>5. pico' = pico /\ zero_restarts' = zero_restarts /\ flushed' = flushed
    BY <1>13 DEF ZeroWriteFails
  <2>6. SlotAhead(pico', zero')
    BY <1>t, <2>3, <2>4, <2>5 DEF SlotAhead
  <2> QED BY <1>t, <2>3, <2>5, <2>6 DEF RepeatInv
<1>14. CASE UNCHANGED all_vars
  BY <1>14, <1>t, <1>p DEF all_vars, vars, restart_vars
<1>15. CASE ZeroWriteFlush \/ (ZeroWrite /\ UNCHANGED restart_vars)
  BY <1>6, <1>15 DEF ZeroWriteFlush, restart_vars
<1> QED BY <1>1, <1>2, <1>3, <1>4, <1>5, <1>7, <1>8, <1>9, <1>10, <1>11, <1>12, <1>13,
           <1>14, <1>15 DEF RNext, Next

\* The Zero's log repeats at most one line for each restart of its program, for
\* any number of restarts, reboots, losses and resends: the slot that was
\* forgotten is the only reason to log a line again (handle_frame).
THEOREM RepeatsNeedRestarts == RSpec => []TwiceOnlyByRestart
<1>1. RepeatInv => TwiceOnlyByRestart
  <2> SUFFICES ASSUME RepeatInv PROVE TwiceOnlyByRestart
    OBVIOUS
  <2>1. zero \in ZeroState /\ zero_restarts \in Nat /\ TakenOK(zero, zero_restarts)
    BY DEF RepeatInv
  <2>2. Written = Elements(zero.log)
    BY DEF Written, Elements
  <2>3. Repeats(zero.log) <= zero_restarts
    BY <2>1, LogInOrder
  <2> QED BY <2>2, <2>3 DEF TwiceOnlyByRestart, Repeats
<1> QED BY <1>1, RepeatInit, RepeatStep, PTL DEF RSpec

-----------------------------------------------------------------------------
(* Confirmed lines and restarts of the Zero.  Until the Pico reboots it        *)
(* cannot tell a Zero that was restarted from one that never was: there is a   *)
(* Zero, g, whose acks are those on the wire and which is in step with the     *)
(* Pico as LinkOK says.  The real one knows what g knows or nothing, and each  *)
(* line g has taken is one that it has logged, is writing, or lost to a failed *)
(* write or when it ended.                                                     *)

Shadow(g, z) ==
  /\ g.writing = NoLine
  /\ g.tx_ack = z.tx_ack
  /\ g.out = z.out
  /\ z.rx_text.seen => z.rx_text = g.rx_text

Settled(z, c) == Elements(z.log) \cup ({z.writing} \ {NoLine}) \cup c

ShadowOK(g, p, z, c) ==
  /\ LinkOK(p, g)
  /\ Shadow(g, z)
  /\ 1 .. TakenBy(g) \subseteq Settled(z, c)

ShadowInv ==
  /\ pico_reboots \in Nat
  /\ pico_reboots = 0 => lost = {} /\ \E g : ShadowOK(g, pico, zero, cut)

\* A restart of the Zero drops texts from the front of the wire and acks from its
\* back.
LEMMA CutTextsOK ==
  ASSUME NEW p, NEW g, LinkOK(p, g), NEW n \in 0 .. Len(p.out)
  PROVE  LinkOK([p EXCEPT !.out = SubSeq(@, n + 1, Len(@))], g)
<1> DEFINE q == [p EXCEPT !.out = SubSeq(@, n + 1, Len(@))]
<1>1. /\ p \in PicoState /\ g \in ZeroState
      /\ QueueOK(p) /\ LogOK(g) /\ LevelOK(p, g) /\ TextsOK(p, g) /\ AcksOK(p, g)
  BY DEF LinkOK
<1>2. /\ q \in PicoState /\ q.queue = p.queue /\ q.logged = p.logged
      /\ q.in_flight = p.in_flight /\ q.tx_text = p.tx_text
      /\ q.in_flight_counter = p.in_flight_counter
      /\ Len(q.out) \in Nat /\ Len(q.out) + n <= Len(p.out)
      /\ \A i \in 1 .. Len(q.out) : q.out[i] = p.out[i + n]
  BY <1>1, CutTextsFacts
<1> HIDE DEF q
<1>3. Dropped(q) = Dropped(p) /\ Base(q) = Base(p)
  BY <1>2 DEF Dropped, Base
<1>4. QueueOK(q) /\ LevelOK(q, g) /\ AcksOK(q, g)
  BY <1>1, <1>2, <1>3 DEF QueueOK, LevelOK, AcksOK, OldAck, CurrentAck
<1>5. n \in Nat /\ Len(p.out) \in Nat
  BY <1>1 DEF PicoState
<1>6. \A i \in 1 .. Len(q.out) : i + n \in 1 .. Len(p.out)
  BY <1>2, <1>5
<1>7. ASSUME NEW i \in 1 .. Len(q.out)
      PROVE  /\ CurrentText(q, q.out[i]) \/ OldText(q, q.out[i])
             /\ q.out[i].id >= TakenBy(g)
             /\ q.out[i].id # NoLine
  <2>1. i + n \in 1 .. Len(p.out) /\ q.out[i] = p.out[i + n]
    BY <1>2, <1>6
  <2>2. /\ CurrentText(p, p.out[i + n]) \/ OldText(p, p.out[i + n])
        /\ p.out[i + n].id >= TakenBy(g)
        /\ p.out[i + n].id # NoLine
    BY <1>1, <2>1 DEF TextsOK
  <2> QED BY <1>2, <1>3, <2>1, <2>2 DEF CurrentText, OldText
<1>8. ASSUME NEW i \in 1 .. Len(q.out), NEW j \in 1 .. Len(q.out), i < j
      PROVE  q.out[i].id <= q.out[j].id
  <2>1. /\ i + n \in 1 .. Len(p.out) /\ q.out[i] = p.out[i + n]
        /\ j + n \in 1 .. Len(p.out) /\ q.out[j] = p.out[j + n]
    BY <1>2, <1>6
  <2>2. i + n < j + n
    BY <1>2, <1>5, <1>8
  <2> QED BY <1>1, <2>1, <2>2 DEF TextsOK
<1>9. TextsOK(q, g)
  BY <1>7, <1>8 DEF TextsOK
<1> QED BY <1>1, <1>2, <1>4, <1>9 DEF LinkOK, q

LEMMA CutAcksOK ==
  ASSUME NEW p, NEW g, LinkOK(p, g), NEW k \in 0 .. Len(g.out), NEW h \in ZeroState,
         h.rx_text = g.rx_text, h.log = g.log, h.writing = g.writing,
         h.out = SubSeq(g.out, 1, k)
  PROVE  LinkOK(p, h) /\ TakenBy(h) = TakenBy(g)
<1>1. /\ p \in PicoState /\ g \in ZeroState
      /\ QueueOK(p) /\ LogOK(g) /\ LevelOK(p, g) /\ TextsOK(p, g) /\ AcksOK(p, g)
  BY DEF LinkOK
<1>2. g.out \in Seq(AckFrame) /\ Len(g.out) \in Nat
  BY <1>1, TakenFacts
<1>3. /\ Len(SubSeq(g.out, 1, k)) = k
      /\ \A i \in 1 .. k : SubSeq(g.out, 1, k)[i] = g.out[i]
  BY <1>2, SubSeqFacts
<1>4. TakenBy(h) = TakenBy(g)
  BY DEF TakenBy
<1>5. LogOK(h) /\ LevelOK(p, h) /\ TextsOK(p, h)
  BY <1>1, <1>4 DEF LogOK, LevelOK, TextsOK
<1>6. \A i \in 1 .. Len(h.out) : i \in 1 .. Len(g.out) /\ h.out[i] = g.out[i]
  BY <1>2, <1>3
<1>7. AcksOK(p, h)
  BY <1>1, <1>4, <1>6 DEF AcksOK, CurrentAck
<1> QED BY <1>1, <1>4, <1>5, <1>7 DEF LinkOK

\* The Zero takes a text, and so does its shadow, which may know the text when
\* the Zero does not.
LEMMA ReceiveTextShadow ==
  ASSUME NEW p, NEW z \in ZeroState, NEW g, NEW c, NEW sent \in BOOLEAN,
         z.writing = NoLine, p.out # <<>>, ShadowOK(g, p, z, c)
  PROVE  \E h : ShadowOK(h, [p EXCEPT !.out = Tail(@)],
                         ReceiveText(z, Head(p.out), sent), c)
<1> DEFINE f == Head(p.out)
           q == [p EXCEPT !.out = Tail(@)]
           y == ReceiveText(z, Head(p.out), sent)
           r == ReceiveText(g, Head(p.out), sent)
           w == [z EXCEPT !.rx_text = Taken(f.counter), !.writing = f.id]
           v == [g EXCEPT !.rx_text = Taken(f.counter), !.writing = f.id]
<1>1. /\ LinkOK(p, g) /\ Shadow(g, z) /\ g \in ZeroState /\ p \in PicoState
      /\ 1 .. TakenBy(g) \subseteq Settled(z, c) /\ LogOK(g)
  BY DEF ShadowOK, LinkOK
<1>2. f \in TextFrame /\ f.counter \in Counter /\ f.id \in Nat
  <2>1. p.out \in Seq(TextFrame)
    BY <1>1 DEF PicoState
  <2>2. f \in TextFrame
    BY <2>1, TailFacts
  <2> QED BY <2>2 DEF TextFrame
<1>3. LinkOK(q, r)
  BY <1>1, ReceiveTextOK DEF Shadow
<1>4. /\ Taken(f.counter) \in RxSlot
      /\ Taken(f.counter).seen /\ Taken(f.counter).counter = f.counter
  BY <1>2 DEF Taken, RxSlot
<1>5. /\ w \in ZeroState /\ w.rx_text = Taken(f.counter) /\ w.log = z.log
      /\ w.writing = f.id /\ w.tx_ack = z.tx_ack /\ w.out = z.out
      /\ v \in ZeroState /\ v.rx_text = Taken(f.counter) /\ v.log = g.log
      /\ v.writing = f.id /\ v.tx_ack = g.tx_ack /\ v.out = g.out
  BY <1>1, <1>2, <1>4, Zenon DEF ZeroState
<1>6. /\ y = SendTextAck(IF Resent(z.rx_text, f.counter) THEN z ELSE w, f.counter, sent)
      /\ r = SendTextAck(IF Resent(g.rx_text, f.counter) THEN g ELSE v, f.counter, sent)
  BY DEF ReceiveText
<1> HIDE DEF f, q, y, r, w, v
<1>7. /\ y \in ZeroState /\ r \in ZeroState /\ y.out = r.out /\ y.tx_ack = r.tx_ack
      /\ y.log = z.log /\ r.log = g.log
      /\ Resent(z.rx_text, f.counter) => y.rx_text = z.rx_text /\ y.writing = z.writing
      /\ ~Resent(z.rx_text, f.counter) =>
           y.rx_text = Taken(f.counter) /\ y.writing = f.id
      /\ Resent(g.rx_text, f.counter) => r.rx_text = g.rx_text /\ r.writing = g.writing
      /\ ~Resent(g.rx_text, f.counter) =>
           r.rx_text = Taken(f.counter) /\ r.writing = f.id
  <2> DEFINE a == IF Resent(z.rx_text, f.counter) THEN z ELSE w
             b == IF Resent(g.rx_text, f.counter) THEN g ELSE v
  <2>1. /\ a \in ZeroState /\ b \in ZeroState /\ a.out = b.out /\ a.tx_ack = b.tx_ack
    BY <1>1, <1>5 DEF Shadow
  <2>2. /\ a.log = z.log /\ b.log = g.log
        /\ Resent(z.rx_text, f.counter) => a.rx_text = z.rx_text /\ a.writing = z.writing
        /\ ~Resent(z.rx_text, f.counter) => a.rx_text = Taken(f.counter) /\ a.writing = f.id
        /\ Resent(g.rx_text, f.counter) => b.rx_text = g.rx_text /\ b.writing = g.writing
        /\ ~Resent(g.rx_text, f.counter) => b.rx_text = Taken(f.counter) /\ b.writing = f.id
    BY <1>5
  <2>3. y = SendTextAck(a, f.counter, sent) /\ r = SendTextAck(b, f.counter, sent)
    BY <1>6
  <2> HIDE DEF a, b
  <2>4. /\ y \in ZeroState /\ y.rx_text = a.rx_text /\ y.log = a.log /\ y.writing = a.writing
        /\ y.tx_ack = IF sent THEN Inc(a.tx_ack) ELSE a.tx_ack
        /\ y.out = IF sent THEN Append(a.out, [counter |-> a.tx_ack, of |-> f.counter])
                           ELSE a.out
    BY <1>2, <2>1, <2>3, SendTextAckFacts
  <2>5. /\ r \in ZeroState /\ r.rx_text = b.rx_text /\ r.log = b.log /\ r.writing = b.writing
        /\ r.tx_ack = IF sent THEN Inc(b.tx_ack) ELSE b.tx_ack
        /\ r.out = IF sent THEN Append(b.out, [counter |-> b.tx_ack, of |-> f.counter])
                           ELSE b.out
    BY <1>2, <2>1, <2>3, SendTextAckFacts
  <2> QED BY <2>1, <2>2, <2>4, <2>5
<1>8. y.rx_text.seen => y.rx_text = r.rx_text
  <2>1. CASE Resent(z.rx_text, f.counter)
    BY <1>1, <1>7, <2>1 DEF Shadow, Resent
  <2>2. CASE ~Resent(z.rx_text, f.counter) /\ Resent(g.rx_text, f.counter)
    <3>1. g.rx_text \in RxSlot /\ g.rx_text.seen /\ g.rx_text.counter = f.counter
      BY <1>1, <2>2 DEF ZeroState, Resent
    <3>2. g.rx_text = Taken(f.counter)
      BY <3>1 DEF RxSlot, Taken
    <3> QED BY <1>7, <2>2, <3>2
  <2>3. CASE ~Resent(z.rx_text, f.counter) /\ ~Resent(g.rx_text, f.counter)
    BY <1>7, <2>3
  <2>4. Resent(z.rx_text, f.counter) \in BOOLEAN
    BY DEF Resent, ZeroState, RxSlot
  <2> QED BY <2>1, <2>2, <2>3
<1>9. Len(g.log) = TakenBy(g) /\ Len(g.log) \in Nat
  BY <1>1 DEF Shadow, TakenBy, ZeroState
<1>10. CASE Resent(g.rx_text, f.counter)
  <2>1. r.writing = NoLine /\ TakenBy(r) = TakenBy(g)
    BY <1>1, <1>7, <1>10 DEF Shadow, TakenBy
  <2>2. Shadow(r, y)
    BY <1>7, <1>8, <2>1 DEF Shadow
  <2>3. 1 .. TakenBy(r) \subseteq Settled(y, c)
    <3>1. ASSUME NEW i \in 1 .. TakenBy(g)
          PROVE  i \in Settled(y, c)
      <4>1. i \in Settled(z, c)
        BY <1>1
      <4> QED BY <1>7, <4>1 DEF Settled
    <3> QED BY <2>1, <3>1
  <2>4. ShadowOK(r, q, y, c)
    BY <1>3, <2>2, <2>3 DEF ShadowOK
  <2> QED BY <2>4 DEF q, y
<1>11. CASE ~Resent(g.rx_text, f.counter)
  <2> DEFINE h == [r EXCEPT !.log = Append(@, r.writing), !.writing = NoLine]
  <2>1. ~Resent(z.rx_text, f.counter)
    BY <1>1, <1>11 DEF Shadow, Resent
  <2>2. r.writing = f.id /\ y.writing = f.id
    BY <1>7, <1>11, <2>1
  <2>3. f.id # NoLine
    <3>1. p.out \in Seq(TextFrame) /\ f = p.out[1] /\ 1 \in 1 .. Len(p.out)
      <4>1. p.out \in Seq(TextFrame)
        BY <1>1 DEF PicoState
      <4> QED BY <4>1, TailFacts DEF f
    <3> QED BY <1>1, <3>1 DEF LinkOK, TextsOK
  <2>4. LinkOK(q, h) /\ TakenBy(h) = TakenBy(r)
    BY <1>3, <2>2, <2>3, ZeroWriteOK
  <2>5. /\ h.writing = NoLine /\ h.tx_ack = r.tx_ack /\ h.out = r.out
        /\ h.rx_text = r.rx_text
    BY <1>7 DEF ZeroState
  <2>6. TakenBy(r) = Len(g.log) + 1 /\ r.writing = Len(g.log) + 1
    BY <1>3, <1>7, <2>2, <2>3 DEF TakenBy, LinkOK, LogOK
  <2> HIDE DEF h
  <2>7. Shadow(h, y)
    BY <1>7, <1>8, <2>5 DEF Shadow
  <2>8. 1 .. TakenBy(h) \subseteq Settled(y, c)
    <3>1. ASSUME NEW i \in 1 .. TakenBy(g)
          PROVE  i \in Settled(y, c)
      <4>1. i \in Settled(z, c)
        BY <1>1
      <4> QED BY <1>7, <4>1 DEF Settled
    <3>2. TakenBy(g) + 1 \in Settled(y, c)
      BY <1>9, <2>2, <2>3, <2>6 DEF Settled
    <3>3. TakenBy(h) = TakenBy(g) + 1
      BY <1>9, <2>4, <2>6
    <3>4. \A i \in 1 .. TakenBy(h) : i \in 1 .. TakenBy(g) \/ i = TakenBy(g) + 1
      BY <1>9, <3>3
    <3> QED BY <3>1, <3>2, <3>4
  <2>9. ShadowOK(h, q, y, c)
    BY <2>4, <2>7, <2>8 DEF ShadowOK
  <2> QED BY <2>9 DEF q, y
<1> QED BY <1>10, <1>11

LEMMA ShadowInit == RInit => ShadowInv
<1> SUFFICES ASSUME RInit PROVE ShadowInv
  OBVIOUS
<1>1. LinkOK(pico, zero)
  BY InitOK DEF RInit, IInv
<1>2. zero.writing = NoLine /\ TakenBy(zero) = 0
  BY DEF RInit, Init, ZeroStart, TakenBy
<1>3. ShadowOK(zero, pico, zero, cut)
  BY <1>1, <1>2 DEF ShadowOK, Shadow
<1> QED BY <1>3 DEF ShadowInv, RInit

\* A step of the Pico alone, and an ack that leaves the wire.
LEMMA ShadowPico ==
  ASSUME NEW g, ShadowOK(g, pico, zero, cut), LinkOK(pico', g), zero' = zero, cut' = cut
  PROVE  ShadowOK(g, pico', zero', cut')
  BY DEF ShadowOK, Shadow, Settled

LEMMA ShadowAck ==
  ASSUME NEW g, NEW h, NEW p, NEW z \in ZeroState, NEW c, ShadowOK(g, p, z, c),
         h = [g EXCEPT !.out = Tail(@)], NEW q, LinkOK(q, h)
  PROVE  ShadowOK(h, q, [z EXCEPT !.out = Tail(@)], c)
<1> DEFINE y == [z EXCEPT !.out = Tail(@)]
<1>1. g \in ZeroState /\ Shadow(g, z)
  BY DEF ShadowOK, LinkOK
<1>2. /\ h.writing = g.writing /\ h.log = g.log /\ h.tx_ack = g.tx_ack
      /\ h.rx_text = g.rx_text /\ h.out = Tail(g.out)
      /\ y.writing = z.writing /\ y.log = z.log /\ y.tx_ack = z.tx_ack
      /\ y.rx_text = z.rx_text /\ y.out = Tail(z.out)
  BY <1>1 DEF ZeroState
<1> HIDE DEF y
<1>3. Shadow(h, y)
  BY <1>1, <1>2 DEF Shadow
<1>4. TakenBy(h) = TakenBy(g) /\ Settled(y, c) = Settled(z, c)
  BY <1>2 DEF TakenBy, Settled
<1> QED BY <1>3, <1>4 DEF ShadowOK, y

LEMMA ShadowRestart ==
  ASSUME NEW g, NEW p, NEW z \in ZeroState, NEW c, ShadowOK(g, p, z, c),
         NEW n \in 0 .. Len(p.out), NEW k \in 0 .. Len(z.out), NEW t, NEW d,
         Settled(z, c) \subseteq Elements(t) \cup d
  PROVE  \E h : ShadowOK(h, [p EXCEPT !.out = SubSeq(@, n + 1, Len(@))],
                         [ZeroStart EXCEPT !.log = t, !.out = SubSeq(z.out, 1, k)], d)
<1> DEFINE q == [p EXCEPT !.out = SubSeq(@, n + 1, Len(@))]
           y == [ZeroStart EXCEPT !.log = t, !.out = SubSeq(z.out, 1, k)]
           h == [g EXCEPT !.tx_ack = 0, !.out = SubSeq(g.out, 1, k)]
<1>1. /\ LinkOK(p, g) /\ Shadow(g, z) /\ g \in ZeroState
      /\ 1 .. TakenBy(g) \subseteq Settled(z, c)
  BY DEF ShadowOK, LinkOK
<1>2. LinkOK(q, g)
  BY <1>1, CutTextsOK
<1>3. 0 \in Counter /\ k \in 0 .. Len(g.out)
  BY <1>1, CounterModAssumption DEF Counter, Shadow
<1>4. /\ y.rx_text = RxOpen /\ y.tx_ack = 0 /\ y.writing = NoLine /\ y.log = t
      /\ y.out = SubSeq(z.out, 1, k)
  BY DEF ZeroStart
<1> HIDE DEF q
<1>5. /\ h \in ZeroState /\ h.rx_text = g.rx_text /\ h.log = g.log
      /\ h.writing = g.writing /\ h.tx_ack = 0 /\ h.out = SubSeq(g.out, 1, k)
  <2>1. SubSeq(g.out, 1, k) \in Seq(AckFrame)
    BY <1>1, <1>3, TakenFacts, SubSeqFacts
  <2> QED BY <1>1, <1>3, <2>1, Zenon DEF ZeroState
<1> HIDE DEF h
<1>c. LinkOK(q, h) /\ TakenBy(h) = TakenBy(g)
  BY <1>2, <1>3, <1>5, CutAcksOK
<1> HIDE DEF y
<1>6. Shadow(h, y)
  BY <1>1, <1>4, <1>5 DEF Shadow, RxOpen
<1>7. 1 .. TakenBy(h) \subseteq Settled(y, d)
  BY <1>1, <1>4, <1>c DEF Settled
<1>8. ShadowOK(h, q, y, d)
  BY <1>c, <1>6, <1>7 DEF ShadowOK
<1> QED BY <1>8 DEF q, y

\* The line being written leaves it for the log, or for those that are lost.
LEMMA ShadowWrite ==
  ASSUME NEW g, NEW p, NEW z, NEW c, ShadowOK(g, p, z, c), NEW y, NEW d,
         y.rx_text = z.rx_text, y.tx_ack = z.tx_ack, y.out = z.out,
         Settled(z, c) \subseteq Settled(y, d)
  PROVE  ShadowOK(g, p, y, d)
  BY DEF ShadowOK, Shadow

LEMMA ShadowStep == RepeatInv /\ ShadowInv /\ [RNext]_all_vars => ShadowInv'
<1> SUFFICES ASSUME RepeatInv, ShadowInv, [RNext]_all_vars PROVE ShadowInv'
  OBVIOUS
<1>r. CASE PicoReboot
  BY <1>r DEF PicoReboot, ShadowInv
<1>n. CASE ~PicoReboot /\ pico_reboots # 0
  <2>1. pico_reboots' = pico_reboots
    BY <1>n DEF RNext, restart_vars, all_vars, ZeroRestart, ZeroWriteFlush, OwnLineFlush,
                ZeroWriteFails
  <2> QED BY <1>n, <2>1 DEF ShadowInv
<1>s. CASE ~PicoReboot /\ pico_reboots = 0
  <2>1. pico_reboots' = pico_reboots /\ lost' = lost
    BY <1>s DEF RNext, restart_vars, all_vars, ZeroRestart, ZeroWriteFlush, OwnLineFlush,
                ZeroWriteFails
  <2>2. PICK g : ShadowOK(g, pico, zero, cut)
    BY <1>s DEF ShadowInv
  <2>t. /\ zero \in ZeroState /\ LinkOK(pico, g) /\ LineLengths \subseteq Nat
        /\ g.out = zero.out
    BY <2>2, TextLinkAssumption DEF RepeatInv, ShadowOK, Shadow
  <2> SUFFICES \E h : ShadowOK(h, pico', zero', cut')
    BY <1>s, <2>1 DEF ShadowInv
  <2>l. ASSUME NEW kept \in flushed .. Len(zero.log), Lose(kept)
        PROVE  Settled(zero, cut) \subseteq Elements(SubSeq(zero.log, 1, kept)) \cup cut'
    <3>1. kept \in 0 .. Len(zero.log)
      BY DEF RepeatInv
    <3>2. zero.log \in Seq(Nat) /\ Sorted(zero.log)
      BY <2>t, TakenFacts, LogInOrder DEF RepeatInv
    <3>3. Elements(zero.log) = Elements(SubSeq(zero.log, 1, kept))
                                 \cup {zero.log[i] : i \in kept + 1 .. Len(zero.log)}
      BY <3>1, <3>2, PrefixFacts
    <3> QED BY <2>l, <3>3 DEF Settled, BeingWritten, Lose
  <2>3. CASE ZeroRestart
    <3>1. PICK n \in 0 .. Len(pico.out) :
            pico' = [pico EXCEPT !.out = SubSeq(@, n + 1, Len(@))]
      BY <2>3 DEF ZeroRestart
    <3>2. PICK kept \in flushed .. Len(zero.log), k \in 0 .. Len(zero.out) :
            /\ zero' = [ZeroStart EXCEPT !.log = SubSeq(zero.log, 1, kept),
                                         !.out = SubSeq(zero.out, 1, k)]
            /\ Lose(kept)
      BY <2>3 DEF ZeroRestart
    <3>3. Settled(zero, cut) \subseteq Elements(SubSeq(zero.log, 1, kept)) \cup cut'
      BY <2>l, <3>2
    <3> HIDE DEF ZeroRestart
    <3> QED BY <2>2, <2>t, <3>1, <3>2, <3>3, ShadowRestart
  <2>w. ASSUME ZeroWrite, cut' = cut
        PROVE  \E h : ShadowOK(h, pico', zero', cut')
    <3>1. /\ zero'.rx_text = zero.rx_text /\ zero'.tx_ack = zero.tx_ack
          /\ zero'.out = zero.out /\ zero'.log = Append(zero.log, zero.writing)
      BY <2>t, <2>w DEF ZeroWrite, ZeroState
    <3>2. Elements(zero'.log) = Elements(zero.log) \cup {zero.writing}
      BY <2>t, <3>1, TakenFacts, ElementsAppend
    <3>3. Settled(zero, cut) \subseteq Settled(zero', cut')
      BY <2>w, <3>2 DEF Settled
    <3>4. ShadowOK(g, pico, zero', cut')
      BY <2>2, <3>1, <3>3, ShadowWrite
    <3> QED BY <2>w, <3>4 DEF ZeroWrite
  <2>f. CASE ZeroWriteFails
    <3>1. PICK kept \in flushed .. Len(zero.log) :
            /\ zero' = [zero EXCEPT !.log = SubSeq(@, 1, kept), !.writing = NoLine]
            /\ Lose(kept)
      BY <2>f DEF ZeroWriteFails
    <3>2. /\ zero'.rx_text = zero.rx_text /\ zero'.tx_ack = zero.tx_ack
          /\ zero'.out = zero.out /\ zero'.log = SubSeq(zero.log, 1, kept)
      BY <2>t, <3>1 DEF ZeroState
    <3>3. Settled(zero, cut) \subseteq Settled(zero', cut')
      BY <2>l, <3>1, <3>2 DEF Settled
    <3>4. ShadowOK(g, pico, zero', cut')
      BY <2>2, <3>2, <3>3, ShadowWrite
    <3> QED BY <2>f, <3>4 DEF ZeroWriteFails
  <2>p. ASSUME zero' = zero, cut' = cut, LinkOK(pico', g)
        PROVE  \E h : ShadowOK(h, pico', zero', cut')
    BY <2>2, <2>p, ShadowPico
  <2>4. CASE [Next]_vars /\ cut' = cut
    <3> DEFINE a == [g EXCEPT !.out = Tail(@)]
    <3>a. ASSUME zero' = [zero EXCEPT !.out = Tail(@)], LinkOK(pico', a)
          PROVE  \E h : ShadowOK(h, pico', zero', cut')
      BY <2>2, <2>4, <2>t, <3>a, ShadowAck
    <3>b. zero.out # <<>> =>
            /\ LinkOK(pico, a) /\ AckOK(pico, a, Head(zero.out).of)
            /\ Head(zero.out) \in AckFrame
      BY <2>t, DropAckOK
    <3> HIDE DEF a
    <3>1. ASSUME NEW len \in LineLengths, NEW o \in Outcome, LogLine(len, o)
          PROVE  \E h : ShadowOK(h, pico', zero', cut')
      <4>1. LinkOK(pico', g)
        BY <2>t, <3>1, VlogOK DEF LogLine
      <4> QED BY <2>4, <2>p, <3>1, <4>1 DEF LogLine
    <3>2. CASE SetupDone \/ StepsDone \/ UNCHANGED vars
      BY <2>4, <2>p, <2>t, <3>2 DEF SetupDone, StepsDone, vars
    <3>3. ASSUME NEW len \in LineLengths, NEW o \in Outcome, NEW sent \in BOOLEAN,
                 PicoReceive(len, o, sent)
          PROVE  \E h : ShadowOK(h, pico', zero', cut')
      <4>1. LinkOK(pico', a)
        BY <2>t, <3>3, <3>b, ReceiveAckOK DEF PicoReceive
      <4> QED BY <3>3, <3>a, <4>1 DEF PicoReceive
    <3>4. ASSUME NEW o \in Outcome, PicoPoll(o)
          PROVE  \E h : ShadowOK(h, pico', zero', cut')
      <4>1. LinkOK(pico', g)
        BY <2>t, <3>4, LogPollOK DEF PicoPoll
      <4> QED BY <2>4, <2>p, <3>4, <4>1 DEF PicoPoll
    <3>5. ASSUME NEW sent \in BOOLEAN, ZeroReceive(sent)
          PROVE  \E h : ShadowOK(h, pico', zero', cut')
      BY <2>2, <2>4, <2>t, <3>5, ReceiveTextShadow DEF ZeroReceive
    <3>6. CASE ZeroWrite
      BY <2>4, <2>w, <3>6
    <3>7. CASE LoseText
      <4>1. LinkOK(pico', g)
        BY <2>t, <3>7, DropTextOK DEF LoseText
      <4> QED BY <2>4, <2>p, <3>7, <4>1 DEF LoseText
    <3>8. CASE LoseAck
      BY <3>8, <3>a, <3>b DEF LoseAck
    <3>9. ASSUME NEW len \in LineLengths, NEW o \in Outcome, DamageAck(len, o)
          PROVE  \E h : ShadowOK(h, pico', zero', cut')
      <4>1. LinkOK(pico', a)
        BY <2>t, <3>9, <3>b, VlogOK DEF DamageAck
      <4> QED BY <3>9, <3>a, <4>1 DEF DamageAck
    <3> QED BY <2>4, <3>1, <3>2, <3>3, <3>4, <3>5, <3>6, <3>7, <3>8, <3>9 DEF Next
  <2>5. \/ ZeroRestart \/ ZeroWriteFails
        \/ [Next]_vars /\ cut' = cut
        \/ ZeroWrite /\ cut' = cut
    BY <1>s DEF RNext, all_vars, restart_vars, ZeroWriteFlush, OwnLineFlush
  <2> QED BY <2>3, <2>4, <2>5, <2>f, <2>w
<1> QED BY <1>r, <1>n, <1>s

\* As long as only the Zero is restarted, a line the Pico drops for an ack is in
\* the Zero's log, is being written, or the Zero has lost it: the write failed, or
\* its program ended while the line was being written or in the buffer of
\* write_line.  No ack or text that a restart leaves on the wire confirms another
\* line.
THEOREM ConfirmedLinesAreTaken == RSpec => []ConfirmedBeforeReboot
<1>1. ShadowInv => ConfirmedBeforeReboot
  <2> SUFFICES ASSUME ShadowInv, pico_reboots = 0, NEW i \in Confirmed
               PROVE  i \in Written \cup BeingWritten \cup cut
    BY DEF ConfirmedBeforeReboot, ConfirmedIsTaken
  <2>1. PICK g : ShadowOK(g, pico, zero, cut)
    BY DEF ShadowInv
  <2>2. /\ LevelOK(pico, g) /\ Dropped(pico) \in Int
        /\ 1 .. TakenBy(g) \subseteq Settled(zero, cut)
    BY <2>1 DEF ShadowOK, LinkOK, PicoState, Dropped
  <2>3. i \in 1 .. Dropped(pico)
    BY DEF Confirmed, Released, Dropped
  <2>4. i \in 1 .. TakenBy(g)
    BY <2>2, <2>3 DEF LevelOK
  <2> QED BY <2>2, <2>4 DEF Settled, Written, Elements, BeingWritten
<1> QED BY <1>1, RepeatInit, ShadowInit, RepeatStep, ShadowStep, PTL DEF RSpec
=============================================================================
