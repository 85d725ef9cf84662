---------------------------- MODULE ZeroLogProofs ----------------------------
(***************************************************************************)
(* The safety properties of ZeroLog for every length of the LoRa queue and  *)
(* of a burst: any number of lines, packets, lost edges and signals.        *)
(***************************************************************************)
EXTENDS ZeroLog, SequenceTheorems, TLAPS

Places == {"start", "no log", "lora open", "link open", "create", "loop", "join", "close",
           "log close", "ended"}
SendRecord == [by : Thread, what : {"none", "log", "telemetry"}, step : 0 .. 14,
               done : BOOLEAN, late : BOOLEAN]
RadioRecord == [open : BOOLEAN, mode : {"standby", "transmit"}, tx_done : BOOLEAN, edges : Nat,
                went : BOOLEAN]

Types ==
  /\ main \in Places
  /\ lora \in [at : {"none", "top", "burst", "window", "done"}, left : Nat, fresh : BOOLEAN]
  /\ logging \in [Thread -> {"out", "enter", "queued", "not queued"}]
  /\ lock \in Thread \cup {"free"}
  /\ log \in [file : {"none", "open", "closed"}, queue : Seq(Thread), pending : BOOLEAN]
  /\ filed \in Seq(Thread)
  /\ send \in SendRecord
  /\ radio \in RadioRecord

\* The lock is held by the thread that is in vlog's locked part.
LockOK == \A t \in Thread : lock = t <=> logging[t] \in {"queued", "not queued"}

\* q is the end of f.
IsEnd(q, f) ==
  /\ Len(q) <= Len(f)
  /\ \A i \in 1 .. Len(q) : q[i] = f[Len(f) - Len(q) + i]

\* The lines of the file, with the one that is in the queue already and comes
\* next.
Lines == IF lock # "free" /\ logging[lock] = "queued" THEN Append(filed, lock) ELSE filed

QueueOK ==
  /\ Len(log.queue) <= Capacity
  /\ log.file = "open" => IsEnd(log.queue, Lines)

\* The main thread and what it has opened and closed.
PlaceOK ==
  /\ main = "start" => log.queue = <<>> /\ filed = <<>> /\ log.file = "none" /\ lock = "free"
                       /\ ~log.pending /\ \A t \in Thread : Quiet(t)
  /\ main = "no log" => log.file = "none"
  /\ main \in Places \ {"start", "no log", "ended"} => log.file = "open"
  /\ main = "ended" => log.file # "open"
  /\ log.file # "none" => ~log.pending
  /\ log.file = "closed" => main = "ended" /\ \A t \in Thread : Quiet(t)

\* The LoRa thread and the calls of lora_send.
ThreadOK ==
  /\ lora.at \in {"none", "done"} => Quiet("lora")
  /\ lora.at # "none" => main \in {"loop", "join", "close", "log close", "ended"}
  /\ main \in {"close", "log close", "ended"} => lora.at \in {"none", "done"}
  /\ lora.at \in {"top", "burst", "window"} => radio.open
  /\ Sending /\ send.by = "lora" => lora.at \in {"burst", "window"}
  /\ Sending /\ send.by = "main" => main = "no log" /\ radio.open

\* What lora_send has made of the radio, by the step it is at.
RadioOK ==
  /\ send.step \in 1 .. 11 => ~send.done /\ ~send.late
  /\ send.step \in 2 .. 9 => radio.mode = "standby"
  /\ send.step \in {8, 9} => ~radio.tx_done
  /\ send.step = 9 => radio.edges = 0
  /\ send.step = 10 => (radio.edges > 0 => radio.went /\ radio.tx_done)
  /\ send.step = 11 => radio.went /\ radio.tx_done
  /\ send.step \in 12 .. 14 => IF send.done THEN radio.went ELSE send.late

Inv == Types /\ LockOK /\ QueueOK /\ PlaceOK /\ ThreadOK /\ RadioOK

-----------------------------------------------------------------------------
(* Sequences.                                                               *)

LEMMA EndTail ==
  ASSUME NEW S, NEW q \in Seq(S), NEW f \in Seq(S), IsEnd(q, f), q # <<>>
  PROVE  Tail(q) \in Seq(S) /\ Len(Tail(q)) = Len(q) - 1 /\ IsEnd(Tail(q), f)
<1>1. /\ Tail(q) \in Seq(S) /\ Len(Tail(q)) = Len(q) - 1
      /\ \A i \in 1 .. Len(Tail(q)) : Tail(q)[i] = q[i + 1]
  BY HeadTailProperties
<1>2. Len(q) \in Nat /\ Len(q) # 0 /\ Len(f) \in Nat
  BY LenProperties, EmptySeq
<1> QED BY <1>1, <1>2 DEF IsEnd

LEMMA EndAppend ==
  ASSUME NEW S, NEW q \in Seq(S), NEW f \in Seq(S), NEW e \in S, IsEnd(q, f)
  PROVE  Append(q, e) \in Seq(S) /\ Append(f, e) \in Seq(S) /\ IsEnd(Append(q, e), Append(f, e))
<1>1. /\ Append(q, e) \in Seq(S) /\ Len(Append(q, e)) = Len(q) + 1
      /\ \A i \in 1 .. Len(q) : Append(q, e)[i] = q[i]
      /\ Append(q, e)[Len(q) + 1] = e
  BY AppendProperties
<1>2. /\ Append(f, e) \in Seq(S) /\ Len(Append(f, e)) = Len(f) + 1
      /\ \A i \in 1 .. Len(f) : Append(f, e)[i] = f[i]
      /\ Append(f, e)[Len(f) + 1] = e
  BY AppendProperties
<1>3. Len(q) \in Nat /\ Len(f) \in Nat /\ Len(q) <= Len(f)
  BY LenProperties DEF IsEnd
<1> DEFINE aq == Append(q, e)
           af == Append(f, e)
<1> HIDE DEF aq, af
<1>4. ASSUME NEW i \in 1 .. Len(q) + 1
      PROVE  aq[i] = af[Len(f) - Len(q) + i]
  <2>1. CASE i = Len(q) + 1
    BY <1>1, <1>2, <1>3, <2>1 DEF aq, af
  <2>2. CASE i # Len(q) + 1
    <3>1. i \in 1 .. Len(q) /\ Len(f) - Len(q) + i \in 1 .. Len(f)
      BY <1>3, <2>2
    <3> QED BY <1>1, <1>2, <3>1 DEF aq, af, IsEnd
  <2> QED BY <2>1, <2>2
<1>5. Len(aq) = Len(q) + 1 /\ Len(af) = Len(f) + 1
  BY <1>1, <1>2 DEF aq, af
<1>6. IsEnd(aq, af)
  BY <1>3, <1>4, <1>5 DEF IsEnd
<1> QED BY <1>1, <1>2, <1>6 DEF aq, af

LEMMA LastProperties ==
  ASSUME NEW S, NEW f \in Seq(S), NEW n \in Nat
  PROVE  /\ Last(f, n) \in Seq(S)
         /\ Len(Last(f, n)) = (IF Len(f) > n THEN n ELSE Len(f))
         /\ \A i \in 1 .. Len(Last(f, n)) : Last(f, n)[i] = f[Len(f) - Len(Last(f, n)) + i]
<1> DEFINE first == IF Len(f) > n THEN Len(f) - n + 1 ELSE 1
<1>1. Len(f) \in Nat
  BY LenProperties
<1>2. /\ first \in 1 .. Len(f) + 1
      /\ Len(f) - first + 1 = (IF Len(f) > n THEN n ELSE Len(f))
  BY <1>1
<1> HIDE DEF first
<1>3. /\ SubSeq(f, first, Len(f)) \in Seq(S)
      /\ Len(SubSeq(f, first, Len(f))) = (IF first <= Len(f) THEN Len(f) - first + 1 ELSE 0)
      /\ \A i \in 1 .. Len(f) - first + 1 : SubSeq(f, first, Len(f))[i] = f[first + i - 1]
  BY <1>1, <1>2, SubSeqProperties
<1>4. Last(f, n) = SubSeq(f, first, Len(f))
  BY DEF Last, first
<1> DEFINE l == Last(f, n)
<1> HIDE DEF l
<1>5. l \in Seq(S) /\ Len(l) = Len(f) - first + 1
  BY <1>1, <1>2, <1>3, <1>4 DEF l
<1>6. \A i \in 1 .. Len(l) : l[i] = f[first + i - 1]
  BY <1>3, <1>4, <1>5 DEF l
<1>7. \A i \in 1 .. Len(l) : first + i - 1 = Len(f) - Len(l) + i
  BY <1>1, <1>2, <1>5
<1> QED BY <1>2, <1>5, <1>6, <1>7 DEF l

\* The end of f is what Last returns.
LEMMA EndIsLast ==
  ASSUME NEW S, NEW q \in Seq(S), NEW f \in Seq(S), IsEnd(q, f)
  PROVE  q = Last(f, Len(q))
<1>1. Len(q) \in Nat /\ Len(f) \in Nat /\ Len(q) <= Len(f)
  BY LenProperties DEF IsEnd
<1> DEFINE l == Last(f, Len(q))
<1>2. /\ l \in Seq(S) /\ Len(l) = Len(q)
      /\ \A i \in 1 .. Len(l) : l[i] = f[Len(f) - Len(l) + i]
  BY <1>1, LastProperties
<1> HIDE DEF l
<1>3. \A i \in 1 .. Len(q) : q[i] = l[i]
  BY <1>2 DEF IsEnd
<1>4. q = l
  BY <1>2, <1>3, SeqEqual
<1> QED BY <1>4 DEF l

\* And of as many of its last elements as q has, or more.
LEMMA EndOfLast ==
  ASSUME NEW S, NEW q \in Seq(S), NEW f \in Seq(S), NEW n \in Nat, IsEnd(q, f), Len(q) <= n
  PROVE  Last(f, n) \in Seq(S) /\ IsEnd(q, Last(f, n))
<1>1. Len(q) \in Nat /\ Len(f) \in Nat /\ Len(q) <= Len(f)
  BY LenProperties DEF IsEnd
<1> DEFINE l == Last(f, n)
<1>2. /\ l \in Seq(S) /\ Len(l) = (IF Len(f) > n THEN n ELSE Len(f))
      /\ \A i \in 1 .. Len(l) : l[i] = f[Len(f) - Len(l) + i]
  BY LastProperties
<1> HIDE DEF l
<1>3. Len(l) \in Nat /\ Len(q) <= Len(l) /\ Len(l) <= Len(f)
  BY <1>1, <1>2
<1>4. ASSUME NEW i \in 1 .. Len(q)
      PROVE  q[i] = l[Len(l) - Len(q) + i]
  <2>1. /\ Len(l) - Len(q) + i \in 1 .. Len(l)
        /\ Len(f) - Len(l) + (Len(l) - Len(q) + i) = Len(f) - Len(q) + i
    BY <1>1, <1>3
  <2>2. l[Len(l) - Len(q) + i] = f[Len(f) - Len(q) + i]
    BY <1>2, <2>1
  <2> QED BY <2>2 DEF IsEnd
<1>5. IsEnd(q, l)
  BY <1>3, <1>4 DEF IsEnd
<1> QED BY <1>2, <1>5 DEF l

-----------------------------------------------------------------------------
(* vlog.                                                                    *)

LEMMA TypesFacts ==
  ASSUME Types
  PROVE  /\ logging \in [Thread -> {"out", "enter", "queued", "not queued"}]
         /\ lock \in Thread \cup {"free"}
         /\ log.file \in {"none", "open", "closed"} /\ log.queue \in Seq(Thread)
         /\ log.pending \in BOOLEAN
         /\ filed \in Seq(Thread)
         /\ "free" \notin Thread /\ Capacity \in Nat /\ Capacity > 0
<1>1. "free" \notin Thread /\ Capacity \in Nat /\ Capacity > 0
  BY ZeroLogAssumption DEF Thread
<1> QED BY <1>1 DEF Types

LEMMA LinesType ==
  ASSUME Types
  PROVE  Lines \in Seq(Thread)
BY TypesFacts, AppendProperties DEF Lines

\* No part of the state but these goes into QueueOK.
LEMMA SameLines ==
  ASSUME Types, LockOK, UNCHANGED <<lock, filed>>,
         \A t \in Thread : ~Quiet(t) /\ logging[t] # "enter" => logging'[t] = logging[t]
  PROVE  Lines' = Lines
<1>1. CASE lock = "free"
  BY <1>1 DEF Lines
<1>2. CASE lock \in Thread
  <2>1. logging[lock] \in {"queued", "not queued"}
    BY <1>2 DEF LockOK
  <2>2. logging'[lock] = logging[lock]
    BY <1>2, <2>1 DEF Quiet
  <2> QED BY <2>2 DEF Lines
<1> QED BY <1>1, <1>2 DEF Types

\* A thread that is in no call begins to log a line.
LEMMA BeginOK ==
  ASSUME Types, LockOK, QueueOK, NEW t \in Thread, Quiet(t), Begin(t),
         UNCHANGED <<lock, log, filed>>
  PROVE  /\ logging' \in [Thread -> {"out", "enter", "queued", "not queued"}]
         /\ LockOK' /\ QueueOK'
         /\ \A u \in Thread \ {t} : Quiet(u)' = Quiet(u)
<1>1. /\ logging' = [logging EXCEPT ![t] = "enter"] /\ logging[t] = "out"
      /\ logging \in [Thread -> {"out", "enter", "queued", "not queued"}]
  BY DEF Begin, Quiet, Types
<1>2. /\ logging' \in [Thread -> {"out", "enter", "queued", "not queued"}]
      /\ logging'[t] = "enter" /\ \A u \in Thread \ {t} : logging'[u] = logging[u]
  BY <1>1
<1>3. LockOK'
  BY <1>1, <1>2 DEF LockOK
<1>4. Lines' = Lines
  BY <1>1, <1>2, SameLines DEF Quiet
<1>5. QueueOK'
  BY <1>4 DEF QueueOK
<1> QED BY <1>2, <1>3, <1>5 DEF Quiet

\* Nothing changes but who runs what, the radio and what is sent.
LEMMA SameLogs ==
  ASSUME Types, LockOK, QueueOK, UNCHANGED logs
  PROVE  /\ LockOK' /\ QueueOK'
         /\ logging' = logging /\ lock' = lock /\ log' = log /\ filed' = filed
         /\ \A t \in Thread : Quiet(t)' = Quiet(t)
BY DEF logs, LockOK, QueueOK, Lines, Quiet

LEMMA PushOK ==
  ASSUME Inv, NEW t \in Thread, Push(t)
  PROVE  Inv'
<1>1. /\ logging[t] = "enter" /\ lock = "free" /\ lock' = t
      /\ UNCHANGED <<running, main, lora, filed, send, radio, data>>
      /\ Types /\ LockOK /\ QueueOK /\ PlaceOK /\ ThreadOK /\ RadioOK
  BY DEF Push, LockFree, Inv
<1> DEFINE kept == IF Len(log.queue) >= Capacity THEN Tail(log.queue) ELSE log.queue
<1>2. /\ log.queue \in Seq(Thread) /\ filed \in Seq(Thread)
      /\ Len(log.queue) \in Nat /\ Len(log.queue) <= Capacity /\ Capacity \in Nat /\ Capacity > 0
      /\ log.file = "open" => IsEnd(log.queue, filed)
  BY <1>1, TypesFacts, LenProperties DEF QueueOK, Lines
<1>3. /\ kept \in Seq(Thread) /\ Len(kept) \in Nat /\ Len(kept) < Capacity /\ Len(kept) <= Capacity
      /\ log.file = "open" => IsEnd(kept, filed)
  <2>1. CASE Len(log.queue) >= Capacity
    <3>1. log.queue # <<>>
      BY <1>2, <2>1, EmptySeq
    <3>2. /\ Tail(log.queue) \in Seq(Thread) /\ Len(Tail(log.queue)) = Len(log.queue) - 1
      BY <1>2, <3>1, HeadTailProperties
    <3>3. log.file = "open" => IsEnd(Tail(log.queue), filed)
      BY <1>2, <3>1, EndTail
    <3> QED BY <1>2, <2>1, <3>2, <3>3
  <2>2. CASE ~(Len(log.queue) >= Capacity)
    BY <1>2, <2>2
  <2> QED BY <2>1, <2>2
<1> HIDE DEF kept
<1>4. PICK how \in {"queued", "not queued"} :
        /\ log' = [log EXCEPT !.queue = IF how = "queued" THEN Append(kept, t) ELSE kept]
        /\ logging' = [logging EXCEPT ![t] = how]
  BY DEF Push, Pushed, kept
<1>5. /\ logging' \in [Thread -> {"out", "enter", "queued", "not queued"}]
      /\ logging'[t] = how /\ \A u \in Thread \ {t} : logging'[u] = logging[u]
  BY <1>4, TypesFacts, <1>1
<1>6. LockOK'
  BY <1>1, <1>5, TypesFacts DEF LockOK
<1> DEFINE new == IF how = "queued" THEN Append(kept, t) ELSE kept
<1>7. /\ new \in Seq(Thread) /\ Len(new) <= Capacity
      /\ log.file = "open" => IsEnd(new, IF how = "queued" THEN Append(filed, t) ELSE filed)
  <2>1. CASE how = "queued"
    <3>1. Append(kept, t) \in Seq(Thread) /\ Len(Append(kept, t)) = Len(kept) + 1
      BY <1>3, AppendProperties
    <3>2. log.file = "open" => IsEnd(Append(kept, t), Append(filed, t))
      BY <1>2, <1>3, EndAppend
    <3> QED BY <1>2, <1>3, <2>1, <3>1, <3>2
  <2>2. CASE how # "queued"
    <3>1. new = kept /\ (IF how = "queued" THEN Append(filed, t) ELSE filed) = filed
      BY <2>2
    <3> HIDE DEF new
    <3> QED BY <1>3, <3>1, Zenon
  <2> QED BY <2>1, <2>2
<1>8. log' = [log EXCEPT !.queue = new]
  BY <1>4
<1> HIDE DEF new
<1>9. /\ log' \in [file : {"none", "open", "closed"}, queue : Seq(Thread), pending : BOOLEAN]
      /\ log'.queue = new /\ log'.file = log.file /\ log'.pending = log.pending
  BY <1>1, <1>7, <1>8 DEF Types
<1>10. Types'
  BY <1>1, <1>5, <1>9 DEF Types
<1>11. Lines' = IF how = "queued" THEN Append(filed, t) ELSE filed
  BY <1>1, <1>5, TypesFacts DEF Lines
<1>12. QueueOK'
  BY <1>7, <1>9, <1>11 DEF QueueOK
<1>13. main # "start" /\ log.file # "closed"
  BY <1>1 DEF PlaceOK, Quiet
<1>14. PlaceOK'
  BY <1>1, <1>9, <1>13 DEF PlaceOK
<1>15. lora.at \in {"none", "done"} => t # "lora"
  BY <1>1 DEF ThreadOK, Quiet
<1>16. ThreadOK'
  BY <1>1, <1>5, <1>15 DEF ThreadOK, Quiet, Sending, Thread
<1>17. RadioOK'
  BY <1>1 DEF RadioOK
<1> QED BY <1>6, <1>10, <1>12, <1>14, <1>16, <1>17 DEF Inv

LEMMA WriteOK ==
  ASSUME Inv, NEW t \in Thread, Write(t)
  PROVE  Inv'
<1>1. /\ logging[t] \in {"queued", "not queued"} /\ lock = t /\ lock' = "free"
      /\ logging' = [logging EXCEPT ![t] = "out"]
      /\ UNCHANGED <<running, main, lora, send, radio, data>>
      /\ Types /\ LockOK /\ QueueOK /\ PlaceOK /\ ThreadOK /\ RadioOK
  BY DEF Write, Inv, LockOK
<1>2. /\ logging' \in [Thread -> {"out", "enter", "queued", "not queued"}]
      /\ logging'[t] = "out" /\ \A u \in Thread \ {t} : logging'[u] = logging[u]
  BY <1>1, TypesFacts
<1>3. LockOK'
  BY <1>1, <1>2, TypesFacts DEF LockOK
<1>4. main # "start" /\ log.file # "closed"
  BY <1>1 DEF PlaceOK, Quiet
<1>5. ThreadOK' /\ RadioOK'
  <2>1. RadioOK'
    BY <1>1 DEF RadioOK
  <2>2. Quiet("lora") => Quiet("lora")'
    BY <1>1, <1>2 DEF Quiet, Thread
  <2>3. ThreadOK'
    BY <1>1, <2>2 DEF ThreadOK, Sending
  <2> QED BY <2>1, <2>3
<1>6. /\ log.queue \in Seq(Thread) /\ filed \in Seq(Thread)
      /\ Capacity \in Nat /\ Len(log.queue) <= Capacity
  BY <1>1, TypesFacts DEF QueueOK
<1>7. CASE log.file = "open"
  <2>1. /\ log' = log
        /\ filed' = IF logging[t] = "queued" THEN Last(Append(filed, t), Capacity) ELSE filed
    BY <1>7 DEF Write
  <2>2. IsEnd(log.queue, IF logging[t] = "queued" THEN Append(filed, t) ELSE filed)
    BY <1>1, <1>7, TypesFacts DEF QueueOK, Lines
  <2>3. filed' \in Seq(Thread) /\ IsEnd(log.queue, filed')
    <3>1. CASE logging[t] = "queued"
      <4>1. Append(filed, t) \in Seq(Thread)
        BY <1>6, AppendProperties
      <4> QED BY <1>6, <2>1, <2>2, <3>1, <4>1, EndOfLast
    <3>2. CASE logging[t] # "queued"
      BY <1>6, <2>1, <2>2, <3>2
    <3> QED BY <3>1, <3>2
  <2>4. Types'
    BY <1>1, <1>2, <2>1, <2>3 DEF Types
  <2>5. QueueOK'
    BY <1>1, <1>6, <2>1, <2>3 DEF QueueOK, Lines
  <2>6. PlaceOK'
    BY <1>1, <1>4, <1>7, <2>1 DEF PlaceOK
  <2> QED BY <1>3, <1>5, <2>4, <2>5, <2>6 DEF Inv
<1>8. CASE log.file # "open"
  <2>1. log' = [log EXCEPT !.pending = TRUE] /\ filed' = filed
    BY <1>8 DEF Write
  <2>2. /\ log' \in [file : {"none", "open", "closed"}, queue : Seq(Thread), pending : BOOLEAN]
        /\ log'.queue = log.queue /\ log'.file = log.file
    BY <1>1, <2>1 DEF Types
  <2>3. Types'
    BY <1>1, <1>2, <2>1, <2>2 DEF Types
  <2>4. QueueOK'
    BY <1>6, <1>8, <2>2 DEF QueueOK
  <2>5. log.file = "none"
    BY <1>4, <1>8, <1>1, TypesFacts
  <2>6. PlaceOK'
    BY <1>1, <1>4, <2>2, <2>5 DEF PlaceOK
  <2> QED BY <1>3, <1>5, <2>3, <2>4, <2>6 DEF Inv
<1> QED BY <1>7, <1>8

-----------------------------------------------------------------------------
(* lora_send.                                                               *)

LEMMA StepAt ==
  ASSUME Types, NEW name, At(name)
  PROVE  /\ Sending /\ Quiet(send.by) /\ send.by \in Thread /\ send.step \in 1 .. 14
         /\ name = "standby" => send.step \in {1, 13}
         /\ name \in {"map", "base", "pointer", "fifo", "length"} => send.step \in 2 .. 6
         /\ name = "clear" => send.step \in {7, 12}
         /\ name = "flush" => send.step = 8
         /\ name = "transmit" => send.step = 9
         /\ name = "wait" => send.step = 10
         /\ name = "flags" => send.step = 11
         /\ name = "report" => send.step = 14
<1>1. Sending /\ Quiet(send.by) /\ send.by \in Thread /\ send.step \in 1 .. 14
      /\ Steps[send.step] = name
  <2>1. Sending /\ Quiet(send.by) /\ Steps[send.step] = name
    BY DEF At
  <2>2. send.by \in Thread /\ send.step \in 0 .. 14
    BY DEF Types, SendRecord
  <2> QED BY <2>1, <2>2 DEF Sending
<1>2. \/ name = "standby" /\ send.step \in {1, 13}
      \/ name \in {"map", "base", "pointer", "fifo", "length"} /\ send.step \in 2 .. 6
      \/ name = "clear" /\ send.step \in {7, 12}
      \/ name = "flush" /\ send.step = 8
      \/ name = "transmit" /\ send.step = 9
      \/ name = "wait" /\ send.step = 10
      \/ name = "flags" /\ send.step = 11
      \/ name = "report" /\ send.step = 14
  <2>1. /\ Steps[1] = "standby" /\ Steps[2] = "map" /\ Steps[3] = "base" /\ Steps[4] = "pointer"
        /\ Steps[5] = "fifo" /\ Steps[6] = "length" /\ Steps[7] = "clear" /\ Steps[8] = "flush"
        /\ Steps[9] = "transmit" /\ Steps[10] = "wait" /\ Steps[11] = "flags"
        /\ Steps[12] = "clear" /\ Steps[13] = "standby" /\ Steps[14] = "report"
    BY DEF Steps
  <2> QED BY <1>1, <2>1
<1> QED BY <1>1, <1>2

\* One step of lora_send, whatever it makes of the radio.
LEMMA DoneOK ==
  ASSUME Inv, NEW name, At(name), NEW new, Done(name, new),
         new \in SendRecord, new.step # 0 => new.by = send.by,
         radio' \in RadioRecord, radio'.open = radio.open, RadioOK'
  PROVE  Inv'
<1>1. /\ Types /\ LockOK /\ QueueOK /\ PlaceOK /\ ThreadOK
      /\ Sending /\ Quiet(send.by) /\ send.by \in Thread
  BY StepAt DEF Inv
<1>2. /\ send' = new /\ UNCHANGED <<running, main, lora, lock, log, filed, data>>
      /\ logging' = logging \/ Begin(send.by)
  BY DEF Done
<1>3. /\ logging' \in [Thread -> {"out", "enter", "queued", "not queued"}]
      /\ LockOK' /\ QueueOK'
      /\ \A t \in Thread \ {send.by} : Quiet(t)' = Quiet(t)
  <2>1. CASE logging' = logging
    BY <1>1, <1>2, <2>1, TypesFacts DEF LockOK, QueueOK, Lines, Quiet
  <2>2. CASE Begin(send.by)
    BY <1>1, <1>2, <2>2, BeginOK
  <2> QED BY <1>2, <2>1, <2>2
<1>4. Types'
  BY <1>1, <1>2, <1>3 DEF Types
<1>5. \/ send.by = "lora" /\ lora.at \in {"burst", "window"}
      \/ send.by = "main" /\ main = "no log"
  BY <1>1 DEF ThreadOK, Thread
<1>6. main # "start" /\ log.file # "closed"
  BY <1>1, <1>5 DEF ThreadOK, PlaceOK
<1>7. PlaceOK'
  BY <1>1, <1>2, <1>6 DEF PlaceOK
<1>8. lora.at \in {"none", "done"} => Quiet("lora")'
  BY <1>1, <1>3, <1>5 DEF ThreadOK, Thread
<1>9. ThreadOK'
  BY <1>1, <1>2, <1>8 DEF ThreadOK, Sending
<1> QED BY <1>3, <1>4, <1>7, <1>9 DEF Inv

LEMMA Next1Facts ==
  ASSUME Types, send.step \in 1 .. 13
  PROVE  /\ Next1(send) \in SendRecord /\ Next1(send).step = send.step + 1
         /\ Next1(send).by = send.by
         /\ Next1(send).done = send.done /\ Next1(send).late = send.late
<1>1. send.step + 1 \in 0 .. 14
  OBVIOUS
<1> QED BY <1>1 DEF Types, SendRecord, Next1

LEMMA SetupOK ==
  ASSUME Inv, NEW name, Setup(name)
  PROVE  Inv'
<1>1. /\ At(name) /\ Done(name, Next1(send)) /\ radio' = radio /\ Types /\ RadioOK
      /\ send.step \in 2 .. 6
  BY StepAt DEF Setup, Inv
<1>2. /\ Next1(send) \in SendRecord /\ Next1(send).step = send.step + 1
      /\ Next1(send).by = send.by
      /\ Next1(send).done = send.done /\ Next1(send).late = send.late
  BY <1>1, Next1Facts
<1>3. send' = Next1(send)
  BY <1>1 DEF Done
<1>4. RadioOK'
  BY <1>1, <1>2, <1>3 DEF RadioOK
<1> QED BY <1>1, <1>2, <1>4, DoneOK DEF Types

LEMMA RadioFacts ==
  ASSUME Types
  PROVE  /\ radio \in RadioRecord /\ radio.edges \in Nat
         /\ radio.open \in BOOLEAN /\ radio.tx_done \in BOOLEAN /\ radio.went \in BOOLEAN
BY DEF Types, RadioRecord

LEMMA StandbyOK ==
  ASSUME Inv, Standby
  PROVE  Inv'
<1>1. /\ At("standby") /\ Done("standby", Next1(send)) /\ Types /\ RadioOK
      /\ radio' = [radio EXCEPT !.mode = "standby"]
      /\ send.step \in {1, 13}
  BY StepAt DEF Standby, Inv
<1>2. /\ Next1(send) \in SendRecord /\ Next1(send).step = send.step + 1
      /\ Next1(send).by = send.by
      /\ Next1(send).done = send.done /\ Next1(send).late = send.late
  BY <1>1, Next1Facts
<1>3. /\ radio' \in RadioRecord /\ radio'.open = radio.open /\ radio'.mode = "standby"
      /\ radio'.went = radio.went
  BY <1>1, RadioFacts DEF RadioRecord
<1>4. send' = Next1(send)
  BY <1>1 DEF Done
<1>5. RadioOK'
  BY <1>1, <1>2, <1>3, <1>4 DEF RadioOK
<1> QED BY <1>1, <1>2, <1>3, <1>5, DoneOK

LEMMA ClearFlagsOK ==
  ASSUME Inv, ClearFlags
  PROVE  Inv'
<1>1. /\ At("clear") /\ Done("clear", Next1(send)) /\ Types /\ RadioOK
      /\ radio' = [radio EXCEPT !.tx_done = FALSE]
      /\ send.step \in {7, 12}
  BY StepAt DEF ClearFlags, Inv
<1>2. /\ Next1(send) \in SendRecord /\ Next1(send).step = send.step + 1
      /\ Next1(send).by = send.by
      /\ Next1(send).done = send.done /\ Next1(send).late = send.late
  BY <1>1, Next1Facts
<1>3. /\ radio' \in RadioRecord /\ radio'.open = radio.open /\ radio'.mode = radio.mode
      /\ radio'.went = radio.went /\ radio'.tx_done = FALSE
  BY <1>1, RadioFacts DEF RadioRecord
<1>4. send' = Next1(send)
  BY <1>1 DEF Done
<1>5. RadioOK'
  BY <1>1, <1>2, <1>3, <1>4 DEF RadioOK
<1> QED BY <1>1, <1>2, <1>3, <1>5, DoneOK

LEMMA FlushDio0OK ==
  ASSUME Inv, FlushDio0
  PROVE  Inv'
<1>1. /\ At("flush") /\ Done("flush", Next1(send)) /\ Types /\ RadioOK
      /\ radio' = [radio EXCEPT !.edges = 0]
      /\ send.step = 8
  BY StepAt DEF FlushDio0, Inv
<1>2. /\ Next1(send) \in SendRecord /\ Next1(send).step = send.step + 1
      /\ Next1(send).by = send.by
      /\ Next1(send).done = send.done /\ Next1(send).late = send.late
  BY <1>1, Next1Facts
<1>3. /\ radio' \in RadioRecord /\ radio'.open = radio.open /\ radio'.mode = radio.mode
      /\ radio'.tx_done = radio.tx_done /\ radio'.edges = 0
  BY <1>1, RadioFacts DEF RadioRecord
<1>4. send' = Next1(send)
  BY <1>1 DEF Done
<1>5. RadioOK'
  BY <1>1, <1>2, <1>3, <1>4 DEF RadioOK
<1> QED BY <1>1, <1>2, <1>3, <1>5, DoneOK

LEMMA TransmitOK ==
  ASSUME Inv, Transmit
  PROVE  Inv'
<1>1. /\ At("transmit") /\ Done("transmit", Next1(send)) /\ Types /\ RadioOK
      /\ radio' = [radio EXCEPT !.mode = "transmit", !.went = FALSE]
      /\ send.step = 9
  BY StepAt DEF Transmit, Inv
<1>2. /\ Next1(send) \in SendRecord /\ Next1(send).step = send.step + 1
      /\ Next1(send).by = send.by
      /\ Next1(send).done = send.done /\ Next1(send).late = send.late
  BY <1>1, Next1Facts
<1>3. /\ radio' \in RadioRecord /\ radio'.open = radio.open /\ radio'.edges = radio.edges
  BY <1>1, RadioFacts DEF RadioRecord
<1>4. send' = Next1(send)
  BY <1>1 DEF Done
<1>5. RadioOK'
  BY <1>1, <1>2, <1>3, <1>4 DEF RadioOK
<1> QED BY <1>1, <1>2, <1>3, <1>5, DoneOK

LEMMA WaitEdgeOK ==
  ASSUME Inv, WaitEdge
  PROVE  Inv'
<1>1. /\ At("wait") /\ Done("wait", Next1(send)) /\ Types /\ RadioOK
      /\ radio.edges > 0 /\ radio' = [radio EXCEPT !.edges = @ - 1]
      /\ send.step = 10
  BY StepAt DEF WaitEdge, Inv
<1>2. /\ Next1(send) \in SendRecord /\ Next1(send).step = send.step + 1
      /\ Next1(send).by = send.by
      /\ Next1(send).done = send.done /\ Next1(send).late = send.late
  BY <1>1, Next1Facts
<1>3. /\ radio' \in RadioRecord /\ radio'.open = radio.open
      /\ radio'.went = radio.went /\ radio'.tx_done = radio.tx_done
  BY <1>1, RadioFacts DEF RadioRecord
<1>4. send' = Next1(send)
  BY <1>1 DEF Done
<1>5. RadioOK'
  BY <1>1, <1>2, <1>3, <1>4 DEF RadioOK
<1> QED BY <1>1, <1>2, <1>3, <1>5, DoneOK

LEMMA WaitTimeoutOK ==
  ASSUME Inv, WaitTimeout
  PROVE  Inv'
<1> DEFINE new == [send EXCEPT !.step = FlagsStep + 1, !.late = TRUE]
<1>1. /\ At("wait") /\ Done("wait", new) /\ Types /\ RadioOK /\ radio' = radio
      /\ send.step = 10
  BY StepAt DEF WaitTimeout, Inv
<1>2. /\ new \in SendRecord /\ new.step = 12 /\ new.by = send.by
      /\ new.done = send.done /\ new.late = TRUE
  <2> DEFINE later == [send EXCEPT !.step = FlagsStep + 1]
  <2>1. /\ later \in SendRecord /\ later.step = 12 /\ later.by = send.by
        /\ later.done = send.done
    <3>1. send \in SendRecord /\ FlagsStep + 1 = 12
      <4>1. FlagsStep + 1 = 12
        BY DEF FlagsStep
      <4>2. Types
        BY <1>1
      <4> HIDE DEF new, later
      <4> QED BY <4>1, <4>2 DEF Types
    <3> HIDE DEF new
    <3> QED BY <3>1 DEF SendRecord
  <2>2. new = [later EXCEPT !.late = TRUE]
    OBVIOUS
  <2> HIDE DEF later
  <2> QED BY <2>1, <2>2 DEF SendRecord
<1>3. send' = new
  BY <1>1 DEF Done
<1> HIDE DEF new
<1>4. RadioOK'
  BY <1>1, <1>2, <1>3 DEF RadioOK
<1> QED BY <1>1, <1>2, <1>4, DoneOK DEF Types

LEMMA ReadFlagsOK ==
  ASSUME Inv, ReadFlags
  PROVE  Inv'
<1> DEFINE new == [Next1(send) EXCEPT !.done = radio.tx_done]
<1>1. /\ At("flags") /\ Done("flags", new) /\ Types /\ RadioOK /\ radio' = radio
      /\ send.step = 11
  BY StepAt DEF ReadFlags, Inv
<1>2. /\ Next1(send) \in SendRecord /\ Next1(send).step = 12 /\ Next1(send).by = send.by
  BY <1>1, Next1Facts
<1>3. radio.tx_done = TRUE /\ radio.went = TRUE
  BY <1>1, RadioFacts DEF RadioOK
<1>4. /\ new \in SendRecord /\ new.step = 12 /\ new.by = send.by /\ new.done = TRUE
  BY <1>2, <1>3 DEF SendRecord
<1>5. send' = new
  BY <1>1 DEF Done
<1> HIDE DEF new
<1>6. RadioOK'
  BY <1>1, <1>3, <1>4, <1>5 DEF RadioOK
<1> QED BY <1>1, <1>4, <1>6, DoneOK DEF Types

LEMMA ReportOK ==
  ASSUME Inv, Report
  PROVE  Inv'
<1>1. At("report") /\ Done("report", NoSend) /\ Types /\ radio' = radio
  BY DEF Report, Inv
<1>2. NoSend \in SendRecord /\ NoSend.step = 0
  BY DEF NoSend, SendRecord, Thread
<1>3. send' = NoSend
  BY <1>1 DEF Done
<1>4. RadioOK'
  BY <1>2, <1>3 DEF RadioOK
<1> QED BY <1>1, <1>2, <1>4, DoneOK DEF Types

LEMMA SendStepOK ==
  ASSUME Inv, SendStep
  PROVE  Inv'
BY SetupOK, StandbyOK, ClearFlagsOK, FlushDio0OK, TransmitOK, WaitEdgeOK, WaitTimeoutOK,
   ReadFlagsOK, ReportOK DEF SendStep

LEMMA TxDoneOK ==
  ASSUME Inv, TxDone
  PROVE  Inv'
<1>1. /\ radio.mode = "transmit"
      /\ radio' = [radio EXCEPT !.mode = "standby", !.tx_done = TRUE, !.edges = @ + 1,
                                !.went = TRUE]
      /\ UNCHANGED <<running, main, lora, logs, send, data>>
      /\ Types /\ LockOK /\ QueueOK /\ PlaceOK /\ ThreadOK /\ RadioOK
  BY DEF TxDone, Inv
<1>2. /\ LockOK' /\ QueueOK'
      /\ logging' = logging /\ lock' = lock /\ log' = log /\ filed' = filed
      /\ \A t \in Thread : Quiet(t)' = Quiet(t)
  BY <1>1, SameLogs
<1>3. /\ radio' \in RadioRecord /\ radio'.open = radio.open
      /\ radio'.went = TRUE /\ radio'.tx_done = TRUE
  <2> DEFINE sent == [radio EXCEPT !.mode = "standby", !.tx_done = TRUE]
             rung == [sent EXCEPT !.edges = @ + 1]
  <2>1. sent \in RadioRecord /\ sent.open = radio.open /\ sent.tx_done = TRUE
    BY <1>1, RadioFacts DEF RadioRecord
  <2>2. radio' = [rung EXCEPT !.went = TRUE]
    BY <1>1
  <2> HIDE DEF sent
  <2>3. rung \in RadioRecord /\ rung.open = radio.open /\ rung.tx_done = TRUE
    BY <2>1 DEF RadioRecord
  <2> HIDE DEF rung
  <2> QED BY <2>2, <2>3 DEF RadioRecord
<1>4. Types'
  BY <1>1, <1>2, <1>3 DEF Types
<1>5. PlaceOK'
  BY <1>1, <1>2 DEF PlaceOK
<1>6. ThreadOK'
  BY <1>1, <1>2, <1>3 DEF ThreadOK, Sending, Thread
<1>7. RadioOK'
  BY <1>1, <1>3 DEF RadioOK
<1> QED BY <1>2, <1>4, <1>5, <1>6, <1>7 DEF Inv

-----------------------------------------------------------------------------
(* The LoRa thread.                                                         *)

LEMMA LoraAtFacts ==
  ASSUME Inv, NEW place, LoraAt(place)
  PROVE  /\ lora.at = place /\ Quiet("lora") /\ ~(Sending /\ send.by = "lora")
         /\ Types /\ LockOK /\ QueueOK /\ PlaceOK /\ ThreadOK /\ RadioOK
BY DEF LoraAt, Inv

\* The thread goes from one place to the next.
LEMMA LoraGoesOK ==
  ASSUME Inv, NEW from \in {"top", "burst", "window"}, LoraAt(from),
         NEW place \in {"top", "burst", "window", "done"}, LoraGoes(place)
  PROVE  Inv'
<1>1. /\ lora.at = from /\ Quiet("lora") /\ ~(Sending /\ send.by = "lora")
      /\ Types /\ LockOK /\ QueueOK /\ PlaceOK /\ ThreadOK /\ RadioOK
  BY LoraAtFacts
<1>2. /\ lora' = [lora EXCEPT !.at = place, !.left = Burst, !.fresh = TRUE]
      /\ UNCHANGED <<running, main, logs, send, radio, data>>
  BY DEF LoraGoes
<1>3. /\ LockOK' /\ QueueOK'
      /\ logging' = logging /\ lock' = lock /\ log' = log /\ filed' = filed
      /\ \A t \in Thread : Quiet(t)' = Quiet(t)
  BY <1>1, <1>2, SameLogs
<1>4. /\ lora' \in [at : {"none", "top", "burst", "window", "done"}, left : Nat, fresh : BOOLEAN]
      /\ lora'.at = place
  <2> DEFINE moved == [lora EXCEPT !.at = place]
             full == [moved EXCEPT !.left = Burst]
             Lora == [at : {"none", "top", "burst", "window", "done"}, left : Nat, fresh : BOOLEAN]
  <2>1. moved \in Lora /\ moved.at = place
    BY <1>1 DEF Types
  <2>2. lora' = [full EXCEPT !.fresh = TRUE]
    BY <1>2
  <2> HIDE DEF moved
  <2>3. full \in Lora /\ full.at = place
    BY <2>1, ZeroLogAssumption
  <2> HIDE DEF full
  <2> QED BY <2>2, <2>3
<1>5. Types'
  BY <1>1, <1>2, <1>3, <1>4 DEF Types
<1>6. PlaceOK'
  BY <1>1, <1>2, <1>3 DEF PlaceOK
<1>7. ThreadOK'
  BY <1>1, <1>2, <1>3, <1>4 DEF ThreadOK, Sending, Thread
<1>8. RadioOK'
  BY <1>1, <1>2 DEF RadioOK
<1> QED BY <1>3, <1>5, <1>6, <1>7, <1>8 DEF Inv

LEMMA StartSendFacts ==
  ASSUME NEW t \in Thread, NEW what \in {"log", "telemetry"}, StartSend(t, what)
  PROVE  /\ send' \in SendRecord /\ send'.by = t /\ send'.step = 1
         /\ send'.done = FALSE /\ send'.late = FALSE
BY DEF StartSend, SendRecord

LEMMA TelemetryOK ==
  ASSUME Inv, Telemetry
  PROVE  Inv'
<1>1. /\ lora.at = "burst" /\ Quiet("lora")
      /\ Types /\ LockOK /\ QueueOK /\ PlaceOK /\ ThreadOK /\ RadioOK
  BY LoraAtFacts DEF Telemetry
<1>2. /\ lora' = [lora EXCEPT !.left = @ - 1] /\ lora.left > 0
      /\ StartSend("lora", "telemetry")
      /\ UNCHANGED <<running, main, logs, radio, data>>
  BY DEF Telemetry
<1>3. /\ LockOK' /\ QueueOK'
      /\ logging' = logging /\ lock' = lock /\ log' = log /\ filed' = filed
      /\ \A t \in Thread : Quiet(t)' = Quiet(t)
  BY <1>1, <1>2, SameLogs
<1>4. /\ send' \in SendRecord /\ send'.by = "lora" /\ send'.step = 1
      /\ send'.done = FALSE /\ send'.late = FALSE
  BY <1>2, StartSendFacts DEF Thread
<1>5. /\ lora' \in [at : {"none", "top", "burst", "window", "done"}, left : Nat, fresh : BOOLEAN]
      /\ lora'.at = "burst"
  <2>1. lora \in [at : {"none", "top", "burst", "window", "done"}, left : Nat, fresh : BOOLEAN]
    BY <1>1 DEF Types
  <2> QED BY <1>1, <1>2, <2>1
<1>6. Types'
  BY <1>1, <1>2, <1>3, <1>4, <1>5 DEF Types
<1>7. PlaceOK'
  BY <1>1, <1>2, <1>3 DEF PlaceOK
<1>8. ThreadOK'
  BY <1>1, <1>2, <1>3, <1>4, <1>5 DEF ThreadOK, Sending, Thread
<1>9. RadioOK'
  BY <1>4 DEF RadioOK
<1> QED BY <1>3, <1>6, <1>7, <1>8, <1>9 DEF Inv

LEMMA LogPacketOK ==
  ASSUME Inv, LogPacket
  PROVE  Inv'
<1>1. /\ lora.at = "window" /\ Quiet("lora")
      /\ Types /\ LockOK /\ QueueOK /\ PlaceOK /\ ThreadOK /\ RadioOK
  BY LoraAtFacts DEF LogPacket
<1>2. /\ lock = "free" /\ log.queue # <<>>
      /\ log' = [log EXCEPT !.queue = Tail(@)]
      /\ lora' = [lora EXCEPT !.fresh = FALSE]
      /\ StartSend("lora", "log")
      /\ UNCHANGED <<running, main, logging, lock, filed, radio, data>>
  BY DEF LogPacket, LockFree
<1>3. /\ send' \in SendRecord /\ send'.by = "lora" /\ send'.step = 1
      /\ send'.done = FALSE /\ send'.late = FALSE
  BY <1>2, StartSendFacts DEF Thread
<1>4. /\ lora' \in [at : {"none", "top", "burst", "window", "done"}, left : Nat, fresh : BOOLEAN]
      /\ lora'.at = "window"
  <2>1. lora \in [at : {"none", "top", "burst", "window", "done"}, left : Nat, fresh : BOOLEAN]
    BY <1>1 DEF Types
  <2> QED BY <1>1, <1>2, <2>1
<1>5. /\ log.queue \in Seq(Thread) /\ filed \in Seq(Thread) /\ Len(log.queue) \in Nat
      /\ Len(log.queue) <= Capacity /\ Capacity \in Nat
      /\ log.file = "open" => IsEnd(log.queue, filed)
  BY <1>1, <1>2, TypesFacts, LenProperties DEF QueueOK, Lines
<1>6. /\ Tail(log.queue) \in Seq(Thread) /\ Len(Tail(log.queue)) <= Capacity
      /\ log.file = "open" => IsEnd(Tail(log.queue), filed)
  <2>1. Tail(log.queue) \in Seq(Thread) /\ Len(Tail(log.queue)) = Len(log.queue) - 1
    BY <1>2, <1>5, HeadTailProperties
  <2>2. log.file = "open" => IsEnd(Tail(log.queue), filed)
    BY <1>2, <1>5, EndTail
  <2> QED BY <1>5, <2>1, <2>2
<1>7. /\ log' \in [file : {"none", "open", "closed"}, queue : Seq(Thread), pending : BOOLEAN]
      /\ log'.queue = Tail(log.queue) /\ log'.file = log.file /\ log'.pending = log.pending
  BY <1>1, <1>2, <1>6 DEF Types
<1>8. Types'
  BY <1>1, <1>2, <1>3, <1>4, <1>7 DEF Types
<1>9. LockOK'
  BY <1>1, <1>2 DEF LockOK
<1>10. QueueOK'
  BY <1>2, <1>6, <1>7 DEF QueueOK, Lines
<1>11. main # "start"
  BY <1>1 DEF ThreadOK
<1>12. PlaceOK'
  BY <1>1, <1>2, <1>7, <1>11 DEF PlaceOK, Quiet
<1>13. ThreadOK'
  BY <1>1, <1>2, <1>3, <1>4 DEF ThreadOK, Sending, Thread
<1>14. RadioOK'
  BY <1>3 DEF RadioOK
<1> QED BY <1>8, <1>9, <1>10, <1>12, <1>13, <1>14 DEF Inv

LEMMA LoraStepOK ==
  ASSUME Inv, LoraStep
  PROVE  Inv'
<1>1. CASE LoopTop
  BY <1>1, LoraGoesOK DEF LoopTop
<1>2. CASE BurstOver \/ NoLine \/ WindowOver
  BY <1>2, LoraGoesOK DEF BurstOver, NoLine, WindowOver
<1> QED BY <1>1, <1>2, TelemetryOK, LogPacketOK DEF LoraStep

-----------------------------------------------------------------------------
(* The main thread.                                                         *)

LEMMA MainAtFacts ==
  ASSUME Inv, NEW place, MainAt(place)
  PROVE  /\ main = place /\ Quiet("main") /\ ~(Sending /\ send.by = "main")
         /\ Types /\ LockOK /\ QueueOK /\ PlaceOK /\ ThreadOK /\ RadioOK
BY DEF MainAt, Inv

\* A step of the main thread that changes but its place and what it logs.
LEMMA MainBeginOK ==
  ASSUME Inv, Quiet("main"), Begin("main"), main # "start", main # "ended",
         UNCHANGED <<lora, lock, log, filed, send, radio>>,
         main' = main \/ (main = "loop" /\ main' = "join")
  PROVE  Inv'
<1>1. Types /\ LockOK /\ QueueOK /\ PlaceOK /\ ThreadOK /\ RadioOK
  BY DEF Inv
<1>2. /\ logging' \in [Thread -> {"out", "enter", "queued", "not queued"}]
      /\ LockOK' /\ QueueOK'
      /\ \A u \in Thread \ {"main"} : Quiet(u)' = Quiet(u)
  BY <1>1, BeginOK DEF Thread
<1>3. main' \in Places
  BY <1>1 DEF Types, Places
<1>4. Types'
  BY <1>1, <1>2, <1>3 DEF Types
<1>5. log.file # "closed" /\ main' # "start" /\ main' # "ended"
  BY <1>1 DEF PlaceOK
<1>6. PlaceOK'
  BY <1>1, <1>5 DEF PlaceOK, Places
<1>7. Quiet("lora")' = Quiet("lora")
  BY <1>2 DEF Thread
<1>8. ThreadOK'
  BY <1>1, <1>7 DEF ThreadOK, Sending, Thread
<1>9. RadioOK'
  BY <1>1 DEF RadioOK
<1> QED BY <1>2, <1>4, <1>6, <1>8, <1>9 DEF Inv

LEMMA MainLogsOK ==
  ASSUME Inv, MainLogs
  PROVE  Inv'
<1>1. PICK place \in {"no log", "lora open", "link open", "create", "loop", "close"} : MainAt(place)
  BY DEF MainLogs
<1>2. main = place /\ Quiet("main")
  BY <1>1, MainAtFacts
<1> QED BY <1>2, MainBeginOK DEF MainLogs

LEMMA LoopLogsOK ==
  ASSUME Inv, HaveData \/ LeaveLoop
  PROVE  Inv'
<1>1. main = "loop" /\ Quiet("main")
  BY MainAtFacts DEF HaveData, LeaveLoop
<1> QED BY <1>1, MainBeginOK DEF HaveData, LeaveLoop

LEMMA SignalOK ==
  ASSUME Inv, Signal
  PROVE  Inv'
<1>1. UNCHANGED <<main, lora, logs, send, radio>>
  BY DEF Signal
<1>2. /\ LockOK' /\ QueueOK'
      /\ logging' = logging /\ lock' = lock /\ log' = log /\ filed' = filed
      /\ \A t \in Thread : Quiet(t)' = Quiet(t)
  BY <1>1, SameLogs DEF Inv
<1>3. Types' /\ RadioOK'
  <2>1. Types'
    BY <1>1, <1>2 DEF Inv, Types
  <2>2. RadioOK'
    BY <1>1 DEF Inv, RadioOK
  <2> QED BY <2>1, <2>2
<1>4. PlaceOK'
  BY <1>1, <1>2 DEF Inv, PlaceOK
<1>5. ThreadOK'
  BY <1>1, <1>2 DEF Inv, ThreadOK, Sending, Thread
<1> QED BY <1>2, <1>3, <1>4, <1>5 DEF Inv

LEMMA OpenLogOK ==
  ASSUME Inv, OpenLog
  PROVE  Inv'
<1>1. /\ main = "start" /\ Types /\ PlaceOK /\ ThreadOK /\ RadioOK /\ LockOK
  BY MainAtFacts DEF OpenLog
<1>2. /\ UNCHANGED <<lora, logging, lock, filed, send, radio>>
      /\ \/ log' = [log EXCEPT !.file = "open"] /\ main' = "lora open"
         \/ log' = log /\ main' = "no log"
  BY DEF OpenLog, MainGoes
<1>3. /\ log.queue = <<>> /\ filed = <<>> /\ lock = "free" /\ log.file = "none"
      /\ ~log.pending /\ \A t \in Thread : Quiet(t)
  BY <1>1 DEF PlaceOK
<1>4. /\ log' \in [file : {"none", "open", "closed"}, queue : Seq(Thread), pending : BOOLEAN]
      /\ log'.queue = <<>> /\ ~log'.pending
      /\ \/ main' = "lora open" /\ log'.file = "open"
         \/ main' = "no log" /\ log'.file = "none"
  BY <1>1, <1>2, <1>3 DEF Types
<1>5. Types'
  BY <1>1, <1>2, <1>4 DEF Types, Places
<1>6. LockOK'
  BY <1>1, <1>2 DEF LockOK
<1>7. QueueOK'
  <2>1. IsEnd(<<>>, <<>>) /\ Len(<<>>) = 0
    BY DEF IsEnd
  <2>2. Lines' = <<>>
    BY <1>2, <1>3 DEF Lines
  <2>3. 0 <= Capacity
    BY ZeroLogAssumption
  <2> QED BY <1>4, <2>1, <2>2, <2>3, Zenon DEF QueueOK
<1>8. PlaceOK'
  BY <1>4 DEF PlaceOK, Places
<1>9. ThreadOK'
  BY <1>1, <1>2, <1>3, <1>4 DEF ThreadOK, Sending, Quiet, Thread
<1>10. RadioOK'
  BY <1>1, <1>2 DEF RadioOK
<1> QED BY <1>5, <1>6, <1>7, <1>8, <1>9, <1>10 DEF Inv

\* A step of the main thread that leaves the log and what lora_send does alone.
LEMMA MainGoesOK ==
  ASSUME Inv, main # "start", main' \in Places, UNCHANGED <<logs, send>>,
         radio' \in RadioRecord, PlaceOK', ThreadOK', RadioOK',
         lora' \in [at : {"none", "top", "burst", "window", "done"}, left : Nat, fresh : BOOLEAN]
  PROVE  Inv'
<1>1. /\ LockOK' /\ QueueOK'
      /\ logging' = logging /\ lock' = lock /\ log' = log /\ filed' = filed
  BY SameLogs DEF Inv
<1>2. Types'
  BY <1>1 DEF Inv, Types
<1> QED BY <1>1, <1>2 DEF Inv

LEMMA SendFailureOK ==
  ASSUME Inv, SendFailure
  PROVE  Inv'
<1>1. /\ main = "no log" /\ ~(Sending /\ send.by = "main") /\ Quiet("main")
      /\ Types /\ PlaceOK /\ ThreadOK /\ RadioOK /\ LockOK /\ QueueOK
      /\ UNCHANGED <<running, lora, logs, data>>
  BY MainAtFacts DEF SendFailure
<1>2. lora.at = "none" /\ Quiet("lora") /\ ~Sending
  <2>1. lora.at = "none"
    BY <1>1 DEF ThreadOK
  <2>2. Sending => send.by \in Thread
    BY <1>1 DEF Types, SendRecord
  <2> QED BY <1>1, <2>1, <2>2 DEF ThreadOK, Thread
<1>3. /\ LockOK' /\ QueueOK'
      /\ logging' = logging /\ lock' = lock /\ log' = log /\ filed' = filed
      /\ \A t \in Thread : Quiet(t)' = Quiet(t)
  BY <1>1, SameLogs
<1>4. CASE /\ ~radio.open
           /\ radio' = [radio EXCEPT !.open = TRUE]
           /\ StartSend("main", "log")
           /\ UNCHANGED main
  <2>1. radio' \in RadioRecord /\ radio'.open = TRUE
    BY <1>1, <1>4, RadioFacts DEF RadioRecord
  <2>2. /\ send' \in SendRecord /\ send'.by = "main" /\ send'.step = 1
        /\ send'.done = FALSE /\ send'.late = FALSE
    BY <1>4, StartSendFacts DEF Thread
  <2>3. Types'
    BY <1>1, <1>3, <1>4, <2>1, <2>2 DEF Types
  <2>4. PlaceOK'
    BY <1>1, <1>3, <1>4 DEF PlaceOK
  <2>5. ThreadOK'
    BY <1>1, <1>2, <1>3, <1>4, <2>1, <2>2 DEF ThreadOK, Thread
  <2>6. RadioOK'
    BY <2>2 DEF RadioOK
  <2> QED BY <1>3, <2>3, <2>4, <2>5, <2>6 DEF Inv
<1>5. CASE /\ radio' = [radio EXCEPT !.open = FALSE, !.mode = "standby"]
           /\ main' = "ended"
           /\ UNCHANGED send
  <2>1. radio' \in RadioRecord
    BY <1>1, <1>5, RadioFacts DEF RadioRecord
  <2>2. send.step = 0
    BY <1>2 DEF Sending
  <2>3. RadioOK'
    BY <1>5, <2>2 DEF RadioOK
  <2>4. PlaceOK'
    BY <1>1, <1>3, <1>5 DEF PlaceOK
  <2>5. ThreadOK'
    BY <1>1, <1>2, <1>3, <1>5 DEF ThreadOK, Sending, Thread
  <2>6. Types'
    BY <1>1, <1>3, <1>5, <2>1 DEF Types, Places
  <2> QED BY <1>3, <2>3, <2>4, <2>5, <2>6 DEF Inv
<1> QED BY <1>4, <1>5 DEF SendFailure

\* Between the opening of the log and its end no place is special to the log.
LEMMA MiddleOK ==
  ASSUME PlaceOK, UNCHANGED log,
         main \in Places \ {"start", "no log", "ended"},
         main' \in Places \ {"start", "no log", "ended"}
  PROVE  PlaceOK'
BY DEF PlaceOK

LEMMA OpenLoraOK ==
  ASSUME Inv, OpenLora
  PROVE  Inv'
<1>1. /\ main = "lora open" /\ ~(Sending /\ send.by = "main")
      /\ Types /\ PlaceOK /\ ThreadOK /\ RadioOK
      /\ main' = "link open" /\ UNCHANGED <<logs, lora, send>>
      /\ log' = log /\ logging' = logging
  BY MainAtFacts DEF OpenLora, MainGoes, logs
<1>2. PICK open \in BOOLEAN : radio' = [radio EXCEPT !.open = open]
  BY DEF OpenLora
<1>3. lora.at = "none" /\ Quiet("lora") /\ ~Sending
  <2>1. lora.at = "none"
    BY <1>1 DEF ThreadOK
  <2>2. Sending => send.by \in Thread
    BY <1>1 DEF Types, SendRecord
  <2> QED BY <1>1, <2>1, <2>2 DEF ThreadOK, Thread
<1>4. radio' \in RadioRecord
  BY <1>1, <1>2, RadioFacts DEF RadioRecord
<1>5. RadioOK'
  <2>1. send'.step = 0
    BY <1>1, <1>3 DEF Sending
  <2> QED BY <2>1 DEF RadioOK
<1>6. PlaceOK'
  BY <1>1, MiddleOK DEF Places
<1>7. ThreadOK'
  BY <1>1, <1>3 DEF ThreadOK, Sending, Quiet
<1> QED BY <1>1, <1>4, <1>5, <1>6, <1>7, MainGoesOK DEF Types, Places

LEMMA OpenLinkOK ==
  ASSUME Inv, OpenLink
  PROVE  Inv'
<1>1. /\ main = "link open" /\ Types /\ PlaceOK /\ ThreadOK /\ RadioOK
      /\ main' \in {"create", "close"} /\ UNCHANGED <<logs, lora, send, radio>>
      /\ log' = log /\ logging' = logging
  BY MainAtFacts DEF OpenLink, MainGoes, logs
<1>2. RadioOK'
  BY <1>1 DEF RadioOK
<1>3. PlaceOK'
  BY <1>1, MiddleOK DEF Places
<1>4. ThreadOK'
  BY <1>1 DEF ThreadOK, Sending, Quiet, Thread
<1> QED BY <1>1, <1>2, <1>3, <1>4, MainGoesOK DEF Types, Places

LEMMA CreateOK ==
  ASSUME Inv, Create
  PROVE  Inv'
<1>1. /\ main = "create" /\ Types /\ PlaceOK /\ ThreadOK /\ RadioOK
      /\ main' = "loop" /\ UNCHANGED <<logs, send, radio>>
      /\ \/ radio.open /\ lora' = [at |-> "top", left |-> 0, fresh |-> FALSE]
         \/ lora' = lora
      /\ log' = log /\ logging' = logging
  BY MainAtFacts DEF Create, logs
<1>2. /\ lora' \in [at : {"none", "top", "burst", "window", "done"}, left : Nat, fresh : BOOLEAN]
      /\ (lora'.at = "top" /\ radio.open) \/ lora' = lora
  <2>1. lora \in [at : {"none", "top", "burst", "window", "done"}, left : Nat, fresh : BOOLEAN]
    BY <1>1 DEF Types
  <2> DEFINE begun == [at |-> "top", left |-> 0, fresh |-> FALSE]
  <2>2. begun \in [at : {"none", "top", "burst", "window", "done"}, left : Nat, fresh : BOOLEAN]
        /\ begun.at = "top"
    OBVIOUS
  <2>3. (radio.open /\ lora' = begun) \/ lora' = lora
    BY <1>1
  <2> HIDE DEF begun
  <2> QED BY <2>1, <2>2, <2>3
<1>3. RadioOK'
  BY <1>1 DEF RadioOK
<1>4. PlaceOK'
  BY <1>1, MiddleOK DEF Places
<1>5. lora.at = "none" /\ Quiet("lora")
  BY <1>1 DEF ThreadOK
<1>6. Sending => send.by \in Thread
  BY <1>1 DEF Types, SendRecord
<1>7. ~Sending
  BY <1>1, <1>5, <1>6 DEF ThreadOK, Thread
<1>8. ThreadOK'
  BY <1>1, <1>2, <1>5, <1>7 DEF ThreadOK, Sending, Quiet
<1> QED BY <1>1, <1>2, <1>3, <1>4, <1>8, MainGoesOK DEF Types, Places

LEMMA JoinOK ==
  ASSUME Inv, Join
  PROVE  Inv'
<1>1. /\ main = "join" /\ Types /\ PlaceOK /\ ThreadOK /\ RadioOK
      /\ lora.at \in {"none", "done"}
      /\ main' = "close" /\ UNCHANGED <<logs, lora, send, radio>>
      /\ log' = log /\ logging' = logging
  BY MainAtFacts DEF Join, MainGoes, logs
<1>2. RadioOK'
  BY <1>1 DEF RadioOK
<1>3. PlaceOK'
  BY <1>1, MiddleOK DEF Places
<1>4. ThreadOK'
  BY <1>1 DEF ThreadOK, Sending, Quiet
<1> QED BY <1>1, <1>2, <1>3, <1>4, MainGoesOK DEF Types, Places

LEMMA CloseRadioOK ==
  ASSUME Inv, CloseRadio
  PROVE  Inv'
<1>1. /\ main = "close" /\ ~(Sending /\ send.by = "main")
      /\ Types /\ PlaceOK /\ ThreadOK /\ RadioOK
      /\ radio' = [radio EXCEPT !.open = FALSE, !.mode = "standby"]
      /\ main' = "log close" /\ UNCHANGED <<logs, lora, send>>
      /\ log' = log /\ logging' = logging
  BY MainAtFacts DEF CloseRadio, MainGoes, logs
<1>2. lora.at \in {"none", "done"} /\ Quiet("lora") /\ ~Sending
  <2>1. lora.at \in {"none", "done"}
    BY <1>1 DEF ThreadOK
  <2>2. Sending => send.by \in Thread
    BY <1>1 DEF Types, SendRecord
  <2> QED BY <1>1, <2>1, <2>2 DEF ThreadOK, Thread
<1>3. radio' \in RadioRecord
  BY <1>1, RadioFacts DEF RadioRecord
<1>4. RadioOK'
  <2>1. send'.step = 0
    BY <1>1, <1>2 DEF Sending
  <2> QED BY <2>1 DEF RadioOK
<1>5. PlaceOK'
  BY <1>1, MiddleOK DEF Places
<1>6. ThreadOK'
  BY <1>1, <1>2 DEF ThreadOK, Sending, Quiet
<1> QED BY <1>1, <1>3, <1>4, <1>5, <1>6, MainGoesOK DEF Types, Places

LEMMA CloseLogOK ==
  ASSUME Inv, CloseLog
  PROVE  Inv'
<1>1. /\ main = "log close" /\ Quiet("main") /\ Types /\ PlaceOK /\ ThreadOK /\ RadioOK /\ LockOK
      /\ log' = [log EXCEPT !.file = "closed", !.queue = <<>>]
      /\ main' = "ended" /\ UNCHANGED <<lora, logging, lock, filed, send, radio>>
  BY MainAtFacts DEF CloseLog, MainGoes
<1>2. lora.at \in {"none", "done"} /\ Quiet("lora") /\ ~log.pending
  BY <1>1 DEF ThreadOK, PlaceOK, Places
<1>3. /\ log' \in [file : {"none", "open", "closed"}, queue : Seq(Thread), pending : BOOLEAN]
      /\ log'.queue = <<>> /\ log'.file = "closed" /\ ~log'.pending
  <2> DEFINE shut == [log EXCEPT !.file = "closed"]
             Log == [file : {"none", "open", "closed"}, queue : Seq(Thread), pending : BOOLEAN]
  <2>1. shut \in Log /\ shut.file = "closed" /\ ~shut.pending
    BY <1>1, <1>2 DEF Types
  <2>2. log' = [shut EXCEPT !.queue = <<>>]
    BY <1>1
  <2>3. <<>> \in Seq(Thread)
    OBVIOUS
  <2> HIDE DEF shut
  <2>4. shut = [file |-> shut.file, queue |-> shut.queue, pending |-> shut.pending]
    BY <2>1
  <2>5. log' = [file |-> shut.file, queue |-> <<>>, pending |-> shut.pending]
    BY <2>2, <2>4
  <2> QED BY <2>1, <2>3, <2>5
<1>4. Types'
  BY <1>1, <1>3 DEF Types, Places
<1>5. LockOK'
  BY <1>1 DEF LockOK
<1>6. QueueOK'
  <2>1. Len(<<>>) = 0
    OBVIOUS
  <2> QED BY <1>3, <2>1, ZeroLogAssumption DEF QueueOK
<1>7. PlaceOK'
  BY <1>1, <1>2, <1>3 DEF PlaceOK, Quiet, Thread, Places
<1>8. ThreadOK'
  BY <1>1, <1>2 DEF ThreadOK, Sending, Quiet
<1>9. RadioOK'
  BY <1>1 DEF RadioOK
<1> QED BY <1>4, <1>5, <1>6, <1>7, <1>8, <1>9 DEF Inv

-----------------------------------------------------------------------------
LEMMA InitOK == Init => Inv
<1> SUFFICES ASSUME Init PROVE Inv
  OBVIOUS
<1>1. /\ main = "start" /\ lora.at = "none" /\ lock = "free" /\ filed = <<>>
      /\ log.file = "none" /\ log.queue = <<>> /\ ~log.pending /\ send.step = 0
      /\ \A t \in Thread : Quiet(t)
  BY DEF Init, Quiet, NoSend
<1>2. lora \in [at : {"none", "top", "burst", "window", "done"}, left : Nat, fresh : BOOLEAN]
      /\ log \in [file : {"none", "open", "closed"}, queue : Seq(Thread), pending : BOOLEAN]
      /\ filed \in Seq(Thread)
  BY DEF Init
<1>3. /\ logging \in [Thread -> {"out", "enter", "queued", "not queued"}]
      /\ send \in SendRecord /\ radio \in RadioRecord
  BY DEF Init, NoSend, SendRecord, RadioRecord, Thread
<1>4. Types
  BY <1>1, <1>2, <1>3 DEF Types, Places
<1>5. LockOK
  BY <1>1 DEF LockOK, Quiet, Thread
<1>6. QueueOK
  <2>1. Len(<<>>) = 0
    OBVIOUS
  <2> QED BY <1>1, <2>1, ZeroLogAssumption DEF QueueOK
<1>7. PlaceOK /\ ThreadOK
  BY <1>1 DEF PlaceOK, ThreadOK, Sending, Thread
<1>8. RadioOK
  BY <1>1 DEF RadioOK
<1> QED BY <1>4, <1>5, <1>6, <1>7, <1>8 DEF Inv

LEMMA StepOK == Inv /\ [Next]_vars => Inv'
<1> SUFFICES ASSUME Inv, [Next]_vars PROVE Inv'
  OBVIOUS
<1>1. CASE \E t \in Thread : Push(t) \/ Write(t)
  BY <1>1, PushOK, WriteOK
<1>2. CASE SendStep \/ TxDone
  BY <1>2, SendStepOK, TxDoneOK
<1>3. CASE LoraStep
  BY <1>3, LoraStepOK
<1>4. CASE MainLogs \/ HaveData \/ Signal
  BY <1>4, MainLogsOK, LoopLogsOK, SignalOK
<1>5. CASE MainStep
  BY <1>5, OpenLogOK, SendFailureOK, OpenLoraOK, OpenLinkOK, CreateOK, LoopLogsOK, JoinOK,
     CloseRadioOK, CloseLogOK DEF MainStep
<1>6. CASE UNCHANGED vars
  <2>1. UNCHANGED <<running, main, lora, logs, send, radio>>
    BY <1>6 DEF vars
  <2>2. /\ LockOK' /\ QueueOK'
        /\ logging' = logging /\ lock' = lock /\ log' = log /\ filed' = filed
        /\ \A t \in Thread : Quiet(t)' = Quiet(t)
    BY <2>1, SameLogs DEF Inv
  <2>3. Types'
    BY <2>1, <2>2 DEF Inv, Types
  <2>5. RadioOK'
    BY <2>1 DEF Inv, RadioOK
  <2>4. PlaceOK' /\ ThreadOK'
    BY <2>1, <2>2 DEF Inv, PlaceOK, ThreadOK, Sending, Thread
  <2> QED BY <2>2, <2>3, <2>4, <2>5 DEF Inv
<1> QED BY <1>1, <1>2, <1>3, <1>4, <1>5, <1>6 DEF Next

\* Inv holds in every state ZeroLog reaches.
LEMMA Inductive == Spec => []Inv
BY InitOK, StepOK, PTL DEF Spec

\* Outside vlog's locked part the LoRa queue is the end of the file, whatever
\* the two threads log in between and however often the queue overflows.
THEOREM QueueEndsFile == Spec => []QueueIsEndOfFile
<1>1. Inv => QueueIsEndOfFile
  <2> SUFFICES ASSUME Inv PROVE QueueIsEndOfFile
    OBVIOUS
  <2>1. log.queue \in Seq(Thread) /\ filed \in Seq(Thread) /\ Len(log.queue) <= Capacity
    BY TypesFacts DEF Inv, QueueOK
  <2>2. lock = "free" /\ log.file = "open" => IsEnd(log.queue, filed)
    BY DEF Inv, QueueOK, Lines
  <2>3. lock = "free" /\ log.file = "open" => log.queue = Last(filed, Len(log.queue))
    BY <2>1, <2>2, EndIsLast
  <2> QED BY <2>1, <2>3 DEF QueueIsEndOfFile
<1> QED BY <1>1, Inductive, PTL

\* lora_send never takes an edge or a flag that an earlier packet left for its
\* own: what send_packet reports is what became of this packet.
THEOREM SendReportsRight == Spec => []ReportIsRight
<1>1. Inv => ReportIsRight
  <2> SUFFICES ASSUME Inv, At("report") PROVE IF send.done THEN radio.went ELSE send.late
    BY DEF ReportIsRight
  <2>1. send.step = 14
    BY StepAt DEF Inv
  <2> QED BY <2>1 DEF Inv, RadioOK
<1> QED BY <1>1, Inductive, PTL

\* main joins the LoRa thread before it closes the radio and the log.
THEOREM NobodyUsesClosed == Spec => []ClosedIsUnused
<1>1. Inv => ClosedIsUnused
  <2> SUFFICES ASSUME Inv PROVE ClosedIsUnused
    OBVIOUS
  <2>1. Sending => send.by \in {"main", "lora"}
    BY DEF Inv, Types, SendRecord, Thread
  <2>2. Sending => radio.open
    BY <2>1 DEF Inv, ThreadOK
  <2> QED BY <2>2 DEF Inv, PlaceOK, ClosedIsUnused
<1> QED BY <1>1, Inductive, PTL

-----------------------------------------------------------------------------
(* The end of the LoRa thread after a signal.                               *)

PlaceLeft ==
  IF lora.at = "burst" THEN 3 ELSE IF lora.at = "window" THEN 2 ELSE IF lora.at = "top" THEN 1 ELSE 0
SendLeft == IF Sending /\ send.by = "lora" THEN 15 - send.step ELSE 0
LineLeft == IF logging["lora"] = "enter" THEN 2 ELSE IF Quiet("lora") THEN 0 ELSE 1

\* The most steps the LoRa thread takes from here to its end once a signal came:
\* the places ahead of it, the steps of lora_send, and for each of these the
\* line it logs, which takes two.
LoraLeft == PlaceLeft + 3 * SendLeft + LineLeft

\* The steps of the LoRa thread.
LoraMoves ==
  \/ LoraStep
  \/ Push("lora") \/ Write("lora")
  \/ Sending /\ send.by = "lora" /\ SendStep

\* After a signal each step of the LoRa thread brings it nearer to its end and no
\* step of main or the radio holds it up, however many lines are in the queue and
\* packets in the burst: the join waits for at most 47 steps (lora_thread, main).
StopIsNear ==
  [][~running /\ lora.at # "none" =>
       /\ ~running'
       /\ LoraLeft \in 0 .. 47
       /\ LoraLeft = 0 => lora.at = "done"
       /\ LoraLeft' <= LoraLeft
       /\ LoraMoves => LoraLeft' < LoraLeft]_vars

LEMMA LeftFacts ==
  ASSUME Inv
  PROVE  /\ PlaceLeft \in 0 .. 3 /\ SendLeft \in 0 .. 14 /\ LineLeft \in 0 .. 2
         /\ LoraLeft \in 0 .. 47
         /\ PlaceLeft = 0 => lora.at \in {"none", "done"}
<1>1. lora.at \in {"none", "top", "burst", "window", "done"} /\ send.step \in 0 .. 14
  BY DEF Inv, Types, SendRecord
<1>2. PlaceLeft \in 0 .. 3 /\ (PlaceLeft = 0 => lora.at \in {"none", "done"})
  BY <1>1 DEF PlaceLeft
<1>3. SendLeft \in 0 .. 14
  BY <1>1 DEF SendLeft, Sending
<1>4. LineLeft \in 0 .. 2
  BY DEF LineLeft
<1>5. LoraLeft \in 0 .. 47
  BY <1>2, <1>3, <1>4 DEF LoraLeft
<1> QED BY <1>2, <1>3, <1>4, <1>5

LEMMA LeftFactsNext ==
  ASSUME Inv'
  PROVE  /\ PlaceLeft' \in 0 .. 3 /\ SendLeft' \in 0 .. 14 /\ LineLeft' \in 0 .. 2
         /\ LoraLeft' \in 0 .. 47
<1>1. lora'.at \in {"none", "top", "burst", "window", "done"} /\ send'.step \in 0 .. 14
  BY DEF Inv, Types, SendRecord
<1>2. PlaceLeft' \in 0 .. 3
  BY <1>1 DEF PlaceLeft
<1>3. SendLeft' \in 0 .. 14
  BY <1>1 DEF SendLeft, Sending
<1>4. LineLeft' \in 0 .. 2
  BY DEF LineLeft
<1>6. LoraLeft' = PlaceLeft' + 3 * SendLeft' + LineLeft'
  BY DEF LoraLeft
<1>5. LoraLeft' \in 0 .. 47
  <2>1. ASSUME NEW p \in 0 .. 3, NEW s \in 0 .. 14, NEW l \in 0 .. 2
        PROVE  p + 3 * s + l \in 0 .. 47
    OBVIOUS
  <2> QED BY <1>2, <1>3, <1>4, <1>6, <2>1
<1> QED BY <1>2, <1>3, <1>4, <1>5

LEMMA NearerInNumbers ==
  ASSUME NEW p \in Int, NEW s \in Int, NEW l \in 0 .. 2,
         NEW pp \in Int, NEW ss \in Int, NEW ll \in 0 .. 2,
         pp <= p, (ss <= s /\ ll <= l) \/ ss < s
  PROVE  /\ pp + 3 * ss + ll <= p + 3 * s + l
         /\ pp < p \/ ss < s \/ ll < l => pp + 3 * ss + ll < p + 3 * s + l
<1>1. CASE ss < s
  <2>1. ss + 1 <= s
    BY <1>1
  <2> QED BY <1>1, <2>1
<1>2. CASE ss = s /\ ll <= l
  BY <1>2
<1>3. CASE ss < s \/ ss = s
  BY <1>1, <1>2, <1>3
<1> QED BY <1>1, <1>2, <1>3

\* What a step has to do to the three parts.
LEMMA Nearer ==
  ASSUME Inv, Inv', PlaceLeft' <= PlaceLeft,
         \/ SendLeft' <= SendLeft /\ LineLeft' <= LineLeft
         \/ SendLeft' < SendLeft
  PROVE  /\ LoraLeft' <= LoraLeft
         /\ \/ PlaceLeft' < PlaceLeft
            \/ SendLeft' < SendLeft
            \/ LineLeft' < LineLeft
            => LoraLeft' < LoraLeft
<1>1. PlaceLeft \in Int /\ SendLeft \in Int /\ LineLeft \in 0 .. 2
  BY LeftFacts
<1>2. PlaceLeft' \in Int /\ SendLeft' \in Int /\ LineLeft' \in 0 .. 2
  BY LeftFactsNext
<1>3. /\ LoraLeft = PlaceLeft + 3 * SendLeft + LineLeft
      /\ LoraLeft' = PlaceLeft' + 3 * SendLeft' + LineLeft'
  BY DEF LoraLeft
<1> QED BY <1>1, <1>2, <1>3, NearerInNumbers

\* A step that leaves the thread and what it sends and logs alone.
LEMMA NotHeldUp ==
  ASSUME Inv, UNCHANGED <<lora, send>>, logging'["lora"] = logging["lora"]
  PROVE  LoraLeft' = LoraLeft
BY DEF LoraLeft, PlaceLeft, SendLeft, LineLeft, Sending, Quiet

LEMMA LogsNear ==
  ASSUME Inv, Inv', NEW t \in Thread, Push(t) \/ Write(t)
  PROVE  LoraLeft' <= LoraLeft /\ (t = "lora" => LoraLeft' < LoraLeft)
<1>1. UNCHANGED <<lora, send>> /\ logging \in [Thread -> {"out", "enter", "queued", "not queued"}]
  BY TypesFacts DEF Inv, Push, Write
<1>2. CASE t # "lora"
  <2>1. logging'["lora"] = logging["lora"]
    BY <1>1, <1>2 DEF Push, Write, Thread
  <2>2. LoraLeft' = LoraLeft
    BY <1>1, <2>1, NotHeldUp
  <2> QED BY <1>2, <2>2, LeftFacts
<1>3. CASE t = "lora"
  <2>1. \/ logging["lora"] = "enter" /\ logging'["lora"] \in {"queued", "not queued"}
        \/ logging["lora"] \in {"queued", "not queued"} /\ logging'["lora"] = "out"
    BY <1>1, <1>3 DEF Push, Write, Thread
  <2>2. LineLeft' < LineLeft
    <3>1. \/ LineLeft = 2 /\ LineLeft' = 1
          \/ LineLeft = 1 /\ LineLeft' = 0
      BY <2>1 DEF LineLeft, Quiet
    <3> QED BY <3>1
  <2>3. PlaceLeft' = PlaceLeft /\ SendLeft' = SendLeft
    BY <1>1 DEF PlaceLeft, SendLeft, Sending
  <2>4. /\ PlaceLeft' <= PlaceLeft /\ SendLeft' <= SendLeft /\ LineLeft' <= LineLeft
    BY <2>2, <2>3, LeftFacts, LeftFactsNext
  <2> QED BY <2>2, <2>4, Nearer
<1> QED BY <1>2, <1>3

\* A step of lora_send goes on by one at least, or ends it.
LEMMA SendGoesOn ==
  ASSUME Inv, SendStep
  PROVE  /\ Sending /\ send.by \in Thread /\ send.step \in 1 .. 14
         /\ UNCHANGED <<running, lora>>
         /\ logging' = logging \/ Begin(send.by)
         /\ \/ send'.step = 0
            \/ send'.by = send.by /\ send'.step \in send.step + 1 .. 14
<1>1. ASSUME NEW name, NEW new, At(name), Done(name, new),
             \/ name # "report" /\ new = Next1(send)
             \/ name = "flags" /\ new = [Next1(send) EXCEPT !.done = radio.tx_done]
             \/ name = "wait" /\ new = [send EXCEPT !.step = FlagsStep + 1, !.late = TRUE]
             \/ name = "report" /\ new = NoSend
      PROVE  /\ Sending /\ send.by \in Thread /\ send.step \in 1 .. 14
             /\ UNCHANGED <<running, lora>>
             /\ logging' = logging \/ Begin(send.by)
             /\ \/ send'.step = 0
                \/ send'.by = send.by /\ send'.step \in send.step + 1 .. 14
  <2>1. /\ Types /\ Sending /\ send.by \in Thread /\ send.step \in 1 .. 14
        /\ name = "wait" => send.step = 10
        /\ name = "flags" => send.step = 11
    BY <1>1, StepAt DEF Inv
  <2>2. send.step = 14 => name = "report"
    BY <1>1 DEF At, Steps
  <2>3. send' = new /\ UNCHANGED <<running, lora>> /\ (logging' = logging \/ Begin(send.by))
    BY <1>1 DEF Done
  <2>4. CASE name # "report" /\ new = Next1(send)
    <3>1. send.step \in 1 .. 13
      BY <2>1, <2>2, <2>4
    <3> QED BY <2>1, <2>3, <2>4, <3>1, Next1Facts
  <2>5. CASE name = "flags" /\ new = [Next1(send) EXCEPT !.done = radio.tx_done]
    <3>1. PICK next \in SendRecord : next = Next1(send) /\ next.step = 12 /\ next.by = send.by
      BY <2>1, <2>5, Next1Facts
    <3>2. new.step = 12 /\ new.by = send.by
      BY <2>5, <3>1 DEF SendRecord
    <3> QED BY <2>1, <2>3, <2>5, <3>2
  <2>6. CASE name = "wait" /\ new = [send EXCEPT !.step = FlagsStep + 1, !.late = TRUE]
    <3>1. 12 \in 0 .. 14
      OBVIOUS
    <3>2. new = [send EXCEPT !.step = 12, !.late = TRUE]
      BY <2>6 DEF FlagsStep
    <3>3. new.step = 12 /\ new.by = send.by
      BY <2>1, <3>1, <3>2 DEF Types, SendRecord
    <3> QED BY <2>1, <2>3, <2>6, <3>3
  <2>7. CASE name = "report" /\ new = NoSend
    BY <2>1, <2>3, <2>7 DEF NoSend
  <2> QED BY <1>1, <2>4, <2>5, <2>6, <2>7
<1>2. CASE \E i \in DOMAIN Steps : Setup(Steps[i])
  <2>1. PICK i \in DOMAIN Steps : Setup(Steps[i])
    BY <1>2
  <2>2. Steps[i] # "report" /\ At(Steps[i]) /\ Done(Steps[i], Next1(send))
    BY <2>1 DEF Setup
  <2> QED BY <1>1, <2>2
<1>3. CASE Standby \/ ClearFlags \/ FlushDio0 \/ Transmit \/ WaitEdge
  <2>1. \/ At("standby") /\ Done("standby", Next1(send))
        \/ At("clear") /\ Done("clear", Next1(send))
        \/ At("flush") /\ Done("flush", Next1(send))
        \/ At("transmit") /\ Done("transmit", Next1(send))
        \/ At("wait") /\ Done("wait", Next1(send))
    BY <1>3 DEF Standby, ClearFlags, FlushDio0, Transmit, WaitEdge
  <2> QED BY <1>1, <2>1
<1>4. CASE WaitTimeout
  <2>1. At("wait") /\ Done("wait", [send EXCEPT !.step = FlagsStep + 1, !.late = TRUE])
    BY <1>4 DEF WaitTimeout
  <2> QED BY <1>1, <2>1
<1>5. CASE ReadFlags
  <2>1. At("flags") /\ Done("flags", [Next1(send) EXCEPT !.done = radio.tx_done])
    BY <1>5 DEF ReadFlags
  <2> QED BY <1>1, <2>1
<1>6. CASE Report
  <2>1. At("report") /\ Done("report", NoSend)
    BY <1>6 DEF Report
  <2> QED BY <1>1, <2>1
<1> QED BY <1>2, <1>3, <1>4, <1>5, <1>6 DEF SendStep

LEMMA SendNear ==
  ASSUME Inv, Inv', SendStep
  PROVE  LoraLeft' <= LoraLeft /\ (send.by = "lora" => LoraLeft' < LoraLeft)
<1>1. /\ Sending /\ send.by \in Thread /\ send.step \in 1 .. 14 /\ UNCHANGED lora
      /\ logging' = logging \/ Begin(send.by)
      /\ \/ send'.step = 0
         \/ send'.by = send.by /\ send'.step \in send.step + 1 .. 14
  BY SendGoesOn
<1>2. PlaceLeft' = PlaceLeft
  BY <1>1 DEF PlaceLeft
<1>3. CASE send.by = "lora"
  <2>1. SendLeft = 15 - send.step
    BY <1>1, <1>3 DEF SendLeft
  <2>2. \/ SendLeft' = 0
        \/ SendLeft' = 15 - send'.step /\ send'.step \in send.step + 1 .. 14
    <3>1. CASE send'.step = 0
      <4>1. ~Sending'
        BY <3>1 DEF Sending
      <4> QED BY <4>1 DEF SendLeft
    <3>2. CASE send'.by = send.by /\ send'.step \in send.step + 1 .. 14
      <4>1. send'.step # 0
        BY <1>1, <3>2
      <4> QED BY <1>3, <3>2, <4>1 DEF SendLeft, Sending
    <3> QED BY <1>1, <3>1, <3>2
  <2>3. SendLeft' < SendLeft
    BY <1>1, <2>1, <2>2
  <2>4. PlaceLeft' <= PlaceLeft
    BY <1>2, LeftFacts, LeftFactsNext
  <2> QED BY <2>3, <2>4, Nearer
<1>4. CASE send.by # "lora"
  <2>1. SendLeft = 0 /\ SendLeft' = 0
    <3>1. CASE send'.step = 0
      BY <1>4, <3>1 DEF SendLeft, Sending
    <3>2. CASE send'.by = send.by
      BY <1>4, <3>2 DEF SendLeft
    <3> QED BY <1>1, <3>1, <3>2
  <2>2. logging'["lora"] = logging["lora"]
    BY <1>1, <1>4, TypesFacts DEF Begin, Thread, Inv
  <2>3. LineLeft' = LineLeft
    BY <2>2 DEF LineLeft, Quiet
  <2>4. PlaceLeft' <= PlaceLeft /\ SendLeft' <= SendLeft /\ LineLeft' <= LineLeft
    BY <1>2, <2>1, <2>3, LeftFacts, LeftFactsNext
  <2> QED BY <1>4, <2>4, Nearer
<1> QED BY <1>3, <1>4

LEMMA LoraNear ==
  ASSUME Inv, Inv', ~running, LoraStep
  PROVE  LoraLeft' < LoraLeft
<1>1. \/ LoraAt("top") /\ LoraGoes("done")
      \/ LoraAt("burst") /\ LoraGoes("window")
      \/ LoraAt("window") /\ LoraGoes("top")
  BY DEF LoraStep, LoopTop, Telemetry, BurstOver, LogPacket, NoLine, WindowOver
<1>2. \/ lora.at = "top" /\ lora'.at = "done"
      \/ lora.at = "burst" /\ lora'.at = "window"
      \/ lora.at = "window" /\ lora'.at = "top"
  BY <1>1 DEF LoraAt, LoraGoes, Inv, Types
<1>3. PlaceLeft' < PlaceLeft
  <2>1. \/ PlaceLeft = 1 /\ PlaceLeft' = 0
        \/ PlaceLeft = 3 /\ PlaceLeft' = 2
        \/ PlaceLeft = 2 /\ PlaceLeft' = 1
    BY <1>2 DEF PlaceLeft
  <2> QED BY <2>1
<1>4. UNCHANGED <<logging, send>>
  BY <1>1 DEF LoraGoes, logs
<1>5. SendLeft' = SendLeft /\ LineLeft' = LineLeft
  BY <1>4 DEF SendLeft, LineLeft, Sending, Quiet
<1>6. PlaceLeft' <= PlaceLeft /\ SendLeft' <= SendLeft /\ LineLeft' <= LineLeft
  BY <1>3, <1>5, LeftFacts, LeftFactsNext
<1> QED BY <1>3, <1>6, Nearer

\* The steps of main and the radio, and of the LoRa thread when it takes none.
LEMMA OthersNear ==
  ASSUME Inv, ~running, lora.at # "none",
         TxDone \/ MainLogs \/ HaveData \/ Signal \/ MainStep \/ UNCHANGED vars
  PROVE  LoraLeft' = LoraLeft /\ ~running'
<1>1. main \in {"loop", "join", "close", "log close", "ended"}
  BY DEF Inv, ThreadOK
<1>2. logging \in [Thread -> {"out", "enter", "queued", "not queued"}]
  BY TypesFacts DEF Inv
<1>3. CASE MainLogs \/ HaveData \/ LeaveLoop
  <2>1. UNCHANGED <<running, lora, send>> /\ Begin("main")
    BY <1>3 DEF MainLogs, HaveData, LeaveLoop
  <2>2. logging'["lora"] = logging["lora"]
    BY <1>2, <2>1 DEF Begin, Thread
  <2> QED BY <2>1, <2>2, NotHeldUp
<1>4. CASE OpenLog \/ SendFailure \/ OpenLora \/ OpenLink \/ Create
  BY <1>1, <1>4 DEF OpenLog, SendFailure, OpenLora, OpenLink, Create, MainAt
<1>5. CASE Join \/ CloseRadio \/ CloseLog
  <2>1. UNCHANGED <<running, lora, send, logging>>
    BY <1>5 DEF Join, CloseRadio, CloseLog, MainGoes
  <2> QED BY <2>1, NotHeldUp
<1>6. CASE TxDone \/ UNCHANGED vars
  <2>1. UNCHANGED <<running, lora, send, logging>>
    BY <1>6 DEF TxDone, vars, logs
  <2> QED BY <2>1, NotHeldUp
<1>7. CASE Signal
  BY <1>7 DEF Signal
<1> QED BY <1>3, <1>4, <1>5, <1>6, <1>7 DEF MainStep

\* The part of StopEnds that is about steps and not about fairness: the LoRa
\* thread ends within a number of its steps that depends on nothing.
THEOREM StopTakesFewSteps == Spec => StopIsNear
<1>1. ASSUME Inv, Inv', [Next]_vars, ~running, lora.at # "none"
      PROVE  /\ ~running' /\ LoraLeft \in 0 .. 47
             /\ LoraLeft = 0 => lora.at = "done"
             /\ LoraLeft' <= LoraLeft
             /\ LoraMoves => LoraLeft' < LoraLeft
  <2>1. LoraLeft \in 0 .. 47 /\ (LoraLeft = 0 => lora.at = "done")
    <3>1. LoraLeft = 0 => PlaceLeft = 0
      <4>1. PICK p \in 0 .. 3, s \in 0 .. 14, l \in 0 .. 2 : p = PlaceLeft /\ LoraLeft = p + 3 * s + l
        BY <1>1, LeftFacts DEF LoraLeft
      <4> QED BY <4>1
    <3> QED BY <1>1, <3>1, LeftFacts
  <2>2. LoraMoves => LoraLeft' < LoraLeft
    <3>1. "lora" \in Thread
      BY DEF Thread
    <3> QED BY <1>1, <3>1, LoraNear, LogsNear, SendNear DEF LoraMoves
  <2>3. ~running' /\ LoraLeft' <= LoraLeft
    <3>1. CASE \E t \in Thread : Push(t) \/ Write(t)
      <4>1. PICK t \in Thread : Push(t) \/ Write(t)
        BY <3>1
      <4>2. UNCHANGED running
        BY <4>1 DEF Push, Write
      <4> QED BY <1>1, <4>1, <4>2, LogsNear
    <3>2. CASE SendStep
      BY <1>1, <3>2, SendNear, SendGoesOn
    <3>3. CASE LoraStep
      <4>1. LoraLeft' < LoraLeft /\ LoraLeft' \in 0 .. 47
        BY <1>1, <3>3, LoraNear, LeftFactsNext
      <4>2. UNCHANGED running
        BY <3>3 DEF LoraStep, LoopTop, Telemetry, BurstOver, LogPacket, NoLine, WindowOver, LoraGoes
      <4> QED BY <1>1, <2>1, <4>1, <4>2
    <3>4. CASE TxDone \/ MainLogs \/ HaveData \/ Signal \/ MainStep \/ UNCHANGED vars
      <4>1. LoraLeft' = LoraLeft /\ ~running'
        BY <1>1, <3>4, OthersNear
      <4> QED BY <2>1, <4>1
    <3> QED BY <1>1, <3>1, <3>2, <3>3, <3>4 DEF Next
  <2> QED BY <1>1, <2>1, <2>2, <2>3
<1>2. Inv /\ Inv' /\ [Next]_vars =>
        [~running /\ lora.at # "none" =>
           /\ ~running'
           /\ LoraLeft \in 0 .. 47
           /\ LoraLeft = 0 => lora.at = "done"
           /\ LoraLeft' <= LoraLeft
           /\ LoraMoves => LoraLeft' < LoraLeft]_vars
  BY <1>1
<1> QED BY <1>2, Inductive, PTL DEF Spec, StopIsNear
=============================================================================
