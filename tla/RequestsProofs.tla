---------------------------- MODULE RequestsProofs ----------------------------
(***************************************************************************)
(* The safety properties of Requests for every size of the buffer, any      *)
(* lengths and number of lines, clients one after the other, and losses.    *)
(***************************************************************************)
EXTENDS Requests, SequenceTheorems, TLAPS

LineRecord == [client : Nat \ {0}, kind : Kind, len : LineLens]
PieceRecord == [line : Nat \ {0}, place : Nat \ {0}]
AnswerRecord == [client : Nat \ {0}, line : Nat \ {0},
                 text : {"ok", "busy", "error", "timeout"}, from : Nat]
ReplyRecord == [line : Nat \ {0}, result : {"ok", "busy"}]

\* What the client wrote and no line was made of yet.
Stream == buf \o socket

Types ==
  /\ at \in {"poll", "link", "process", "accept", "read", "timeout", "ended"}
  /\ then \in {"poll", "accept", "timeout"}
  /\ ready \subseteq {"link", "listen", "client"}
  /\ hung \in BOOLEAN /\ knocking \in BOOLEAN
  /\ client \in Nat /\ sessions \in Nat
  /\ buf \in Seq(PieceRecord) /\ socket \in Seq(PieceRecord) /\ Len(buf) <= BufSize
  /\ waiting \in Nat /\ calibrating \in Nat
  /\ lines \in Seq(LineRecord)
  /\ to_pico \in Seq(Nat \ {0}) /\ to_zero \in Seq(ReplyRecord)
  /\ done \subseteq Nat \ {0}
  /\ answers \in Seq(AnswerRecord)

\* Clients come one after the other, and nothing is left of one that is gone.
ClientOK ==
  /\ client <= sessions /\ sessions <= MaxSessions
  /\ "listen" \in ready => knocking
  /\ knocking => sessions < MaxSessions
  /\ client = 0 => ~hung /\ waiting = 0 /\ buf = <<>> /\ socket = <<>>
  /\ at = "ended" => hung
  /\ \A n \in Line : lines[n].client <= sessions
  /\ waiting # 0 => waiting \in Line /\ lines[waiting].client = client

\* From piece i of q the rest of its line follows, and after it the next line.
RestFollows(q, i, ls) ==
  LET p == q[i]
  IN  /\ p.line \in 1 .. Len(ls) /\ p.place <= ls[p.line].len
      /\ \A k \in 0 .. ls[p.line].len - p.place :
           i + k \in 1 .. Len(q) /\ q[i + k] = [line |-> p.line, place |-> p.place + k]
      /\ p.place = ls[p.line].len /\ i # Len(q) => q[i + 1] = [line |-> p.line + 1, place |-> 1]

\* q is the end of what client c wrote.
EndOfText(q, ls, c) ==
  /\ \A i \in 1 .. Len(q) : RestFollows(q, i, ls) /\ ls[q[i].line].client = c
  /\ \A i, j \in 1 .. Len(q) :
       i < j => /\ q[i].line <= q[j].line
                /\ q[i].place = ls[q[i].line].len => q[i].line < q[j].line
  /\ q # <<>> => q[Len(q)].line = Len(ls)

\* Only a line that is too long can have lost its beginning.
StreamOK ==
  /\ EndOfText(Stream, lines, client)
  /\ Stream # <<>> /\ Stream[1].place > 1 => lines[Stream[1].line].len > BufSize

\* A request is somewhere on its way: on the link, at the Pico, or its reply is
\* on the link.
OnItsWay(n) ==
  \/ \E i \in DOMAIN to_pico : to_pico[i] = n
  \/ calibrating = n /\ n # 0
  \/ \E i \in DOMAIN to_zero : to_zero[i].line = n

\* Requests go out in their order, before the lines that are left.
AheadOK ==
  /\ \A n \in Nat : OnItsWay(n) => n \in Line /\ \A i \in 1 .. Len(Stream) : n < Stream[i].line
  /\ waiting \in 0 .. Len(lines) /\ \A i \in 1 .. Len(Stream) : waiting < Stream[i].line
  /\ waiting # 0 => \A n \in Nat : OnItsWay(n) => n <= waiting

\* Each is on its way once.
OnceOK ==
  /\ \A i, j \in DOMAIN to_pico : i < j => to_pico[i] < to_pico[j]
  /\ \A i \in DOMAIN to_pico :
       /\ calibrating < to_pico[i]
       /\ \A j \in DOMAIN to_zero : to_zero[j].line < to_pico[i]
  /\ \A i, j \in DOMAIN to_zero : to_zero[i].line = to_zero[j].line => i = j
  /\ \A i \in DOMAIN to_zero : to_zero[i].line # calibrating

\* What the Pico answers `ok` it did.
DoneOK ==
  /\ done \subseteq Line
  /\ \A i \in DOMAIN to_zero : to_zero[i].result = "ok" => to_zero[i].line \in done

OrderOK == AheadOK /\ OnceOK /\ DoneOK

\* A request of n's kind, no later than it, was given up.
GivenUp(n) == \E g \in 1 .. n : lines[g].kind = lines[n].kind /\ Abandoned(g)

\* What is on its way and does not wait comes after a request that was given up.
GivenUpOK == at # "ended" => \A n \in Nat : OnItsWay(n) /\ n # waiting => GivenUp(n)

\* The lines of the client that have an answer or wait for it are those in front
\* of what is left of its text.
TakenOK ==
  /\ \A i \in DOMAIN answers : /\ answers[i].line \in Line /\ answers[i].client <= sessions
                               /\ answers[i].client = lines[answers[i].line].client
  /\ at # "ended" /\ client # 0 => \A n \in Line : lines[n].client = client =>
       (n \in Taken(client) <=>
          \/ Stream = <<>> \/ n < Stream[1].line
          \/ n = Stream[1].line /\ Stream[1].place > 1)

Inv ==
  /\ Types /\ ClientOK /\ StreamOK /\ OrderOK /\ GivenUpOK /\ TakenOK
  /\ OwnUnlessAbandoned /\ AnswersInOrder

-----------------------------------------------------------------------------
(* Sequences.                                                               *)

\* r is what is left of q without its first k elements.
IsRest(r, q, k) ==
  /\ k \in 0 .. Len(q) /\ Len(r) = Len(q) - k
  /\ \A i \in 1 .. Len(r) : r[i] = q[i + k]

LEMMA TailRest ==
  ASSUME NEW S, NEW q \in Seq(S), q # <<>>
  PROVE  /\ Tail(q) \in Seq(S) /\ IsRest(Tail(q), q, 1)
         /\ Head(q) = q[1] /\ 1 \in 1 .. Len(q) /\ Head(q) \in S
<1>1. /\ Tail(q) \in Seq(S) /\ Len(Tail(q)) = Len(q) - 1 /\ Head(q) \in S
      /\ \A i \in 1 .. Len(Tail(q)) : Tail(q)[i] = q[i + 1]
  BY HeadTailProperties
<1>2. Len(q) \in Nat /\ Len(q) # 0 /\ Head(q) = q[1]
  BY LenProperties, EmptySeq
<1> QED BY <1>1, <1>2 DEF IsRest

LEMMA SubSeqRest ==
  ASSUME NEW S, NEW q \in Seq(S), NEW k \in 0 .. Len(q)
  PROVE  SubSeq(q, k + 1, Len(q)) \in Seq(S) /\ IsRest(SubSeq(q, k + 1, Len(q)), q, k)
<1>1. Len(q) \in Nat /\ \A i \in 1 .. Len(q) : q[i] \in S
  BY LenProperties, ElementOfSeq
<1>2. /\ SubSeq(q, k + 1, Len(q)) \in Seq(S)
      /\ Len(SubSeq(q, k + 1, Len(q))) = IF k + 1 <= Len(q) THEN Len(q) - (k + 1) + 1 ELSE 0
      /\ \A i \in 1 .. Len(q) - (k + 1) + 1 : SubSeq(q, k + 1, Len(q))[i] = q[k + 1 + i - 1]
  BY <1>1, SubSeqProperties
<1> QED BY <1>1, <1>2 DEF IsRest

LEMMA AppendFacts ==
  ASSUME NEW S, NEW q \in Seq(S), NEW x \in S
  PROVE  /\ Append(q, x) \in Seq(S) /\ Len(Append(q, x)) = Len(q) + 1
         /\ \A i \in 1 .. Len(q) : Append(q, x)[i] = q[i]
         /\ Append(q, x)[Len(q) + 1] = x
         /\ Len(q) \in Nat
BY AppendProperties, LenProperties

LEMMA SeqFacts ==
  ASSUME NEW S, NEW q \in Seq(S)
  PROVE  /\ Len(q) \in Nat /\ DOMAIN q = 1 .. Len(q)
         /\ \A i \in 1 .. Len(q) : q[i] \in S
         /\ q = <<>> <=> Len(q) = 0
BY LenProperties, ElementOfSeq, EmptySeq

-----------------------------------------------------------------------------
(* What is left of the text of a client.                                    *)

LEMMA RestOfText ==
  ASSUME NEW q \in Seq(PieceRecord), NEW r \in Seq(PieceRecord), NEW k, NEW ls, NEW c,
         IsRest(r, q, k), EndOfText(q, ls, c)
  PROVE  EndOfText(r, ls, c)
<1>1. /\ k \in 0 .. Len(q) /\ Len(r) = Len(q) - k
      /\ \A i \in 1 .. Len(r) : r[i] = q[i + k] /\ i + k \in 1 .. Len(q)
      /\ Len(q) \in Nat /\ Len(r) \in Nat
  BY SeqFacts DEF IsRest
<1>2. ASSUME NEW i \in 1 .. Len(r)
      PROVE  RestFollows(r, i, ls) /\ ls[r[i].line].client = c
  <2> DEFINE p == q[i + k]
  <2>1. r[i] = p /\ i + k \in 1 .. Len(q)
    BY <1>1
  <2>2. RestFollows(q, i + k, ls) /\ ls[p.line].client = c
    BY <2>1 DEF EndOfText
  <2>3. /\ p.line \in 1 .. Len(ls) /\ p.place <= ls[p.line].len
        /\ \A m \in 0 .. ls[p.line].len - p.place :
             i + k + m \in 1 .. Len(q) /\ q[i + k + m] = [line |-> p.line, place |-> p.place + m]
        /\ p.place = ls[p.line].len /\ i + k # Len(q) =>
             q[i + k + 1] = [line |-> p.line + 1, place |-> 1]
    BY <2>2 DEF RestFollows
  <2> HIDE DEF p
  <2>4. ASSUME NEW m \in 0 .. ls[p.line].len - p.place
        PROVE  i + m \in 1 .. Len(r) /\ r[i + m] = [line |-> p.line, place |-> p.place + m]
    <3>1. i + k + m \in 1 .. Len(q) /\ q[i + k + m] = [line |-> p.line, place |-> p.place + m]
      BY <2>3
    <3>2. i + m \in 1 .. Len(r) /\ (i + m) + k = i + k + m
      BY <1>1, <3>1
    <3> QED BY <1>1, <3>1, <3>2
  <2>5. ASSUME p.place = ls[p.line].len, i # Len(r)
        PROVE  r[i + 1] = [line |-> p.line + 1, place |-> 1]
    <3>1. k \in Nat /\ Len(q) \in Nat /\ Len(r) = Len(q) - k /\ i \in 1 .. Len(r) /\ i # Len(r)
      BY <1>1, <2>5
    <3>2. i + k # Len(q) /\ i + 1 \in 1 .. Len(r) /\ (i + 1) + k = i + k + 1
      BY ONLY <3>1
    <3> QED BY <1>1, <2>3, <2>5, <3>2
  <2> QED BY <2>1, <2>2, <2>3, <2>4, <2>5 DEF RestFollows
<1>3. ASSUME NEW i \in 1 .. Len(r), NEW j \in 1 .. Len(r), i < j
      PROVE  /\ r[i].line <= r[j].line
             /\ r[i].place = ls[r[i].line].len => r[i].line < r[j].line
  <2>1. /\ i + k \in 1 .. Len(q) /\ j + k \in 1 .. Len(q) /\ i + k < j + k
        /\ r[i] = q[i + k] /\ r[j] = q[j + k]
    BY <1>1, <1>3
  <2> QED BY <2>1 DEF EndOfText
<1>4. ASSUME r # <<>>
      PROVE  r[Len(r)].line = Len(ls)
  <2>1. Len(r) # 0 /\ r[Len(r)] = q[Len(q)] /\ Len(q) # 0
    <3>1. Len(r) # 0
      BY <1>4, SeqFacts
    <3> QED BY <1>1, <3>1
  <2> QED BY <2>1, SeqFacts DEF EndOfText
<1> QED BY <1>2, <1>3, <1>4 DEF EndOfText

\* The first end of line in q, and what comes before and after it.
FirstEnd(q, ls) == ls[q[1].line].len - q[1].place + 1

LEMMA FirstLine ==
  ASSUME NEW q \in Seq(PieceRecord), NEW ls \in Seq(LineRecord), NEW c,
         EndOfText(q, ls, c), q # <<>>
  PROVE  LET e == FirstEnd(q, ls)
             n == q[1].line
         IN  /\ 1 \in 1 .. Len(q) /\ n \in 1 .. Len(ls) /\ ls[n].client = c
             /\ n \in Nat /\ q[1].place \in Nat \ {0} /\ ls[n].len \in Nat
             /\ e \in 1 .. Len(q) /\ q[e] = [line |-> n, place |-> ls[n].len]
             /\ \A i \in 1 .. e : q[i] = [line |-> n, place |-> q[1].place + (i - 1)]
             /\ e < Len(q) => q[e + 1] = [line |-> n + 1, place |-> 1]
             /\ e = Len(q) => n = Len(ls)
<1>1. 1 \in 1 .. Len(q) /\ Len(q) \in Nat
  BY SeqFacts
<1>2. q[1].line \in Nat /\ q[1].place \in Nat \ {0}
  <2>1. q[1] \in PieceRecord
    BY <1>1, SeqFacts
  <2> QED BY <2>1 DEF PieceRecord
<1> DEFINE n == q[1].line
           p == q[1].place
           e == FirstEnd(q, ls)
<1>3. RestFollows(q, 1, ls) /\ ls[n].client = c
  BY <1>1 DEF EndOfText
<1>4. n \in 1 .. Len(ls) /\ p <= ls[n].len
  BY <1>3 DEF RestFollows
<1>5. ls[n].len \in Nat
  <2>1. ls[n] \in LineRecord
    BY <1>4, SeqFacts
  <2> QED BY <2>1, RequestsAssumption DEF LineRecord
<1>6. \A k \in 0 .. ls[n].len - p : 1 + k \in 1 .. Len(q) /\ q[1 + k] = [line |-> n, place |-> p + k]
  BY <1>3 DEF RestFollows
<1>7. e = ls[n].len - p + 1
  BY DEF FirstEnd
<1> HIDE DEF n, p, e
<1>8. ASSUME NEW i \in 1 .. e
      PROVE  i \in 1 .. Len(q) /\ q[i] = [line |-> n, place |-> p + (i - 1)]
  <2>1. i - 1 \in 0 .. ls[n].len - p /\ 1 + (i - 1) = i
    BY <1>2, <1>4, <1>5, <1>7 DEF n, p
  <2> QED BY <1>6, <2>1
<1>9. e \in 1 .. e /\ p + (e - 1) = ls[n].len
  BY <1>2, <1>4, <1>5, <1>7 DEF n, p
<1>10. e \in 1 .. Len(q) /\ q[e] = [line |-> n, place |-> ls[n].len]
  BY <1>8, <1>9
<1>11. q[e].line = n /\ q[e].place = ls[n].len
  BY <1>10
<1>12. RestFollows(q, e, ls)
  BY <1>10 DEF EndOfText
<1>13. e # Len(q) => q[e + 1] = [line |-> n + 1, place |-> 1]
  BY <1>11, <1>12 DEF RestFollows
<1>14. e = Len(q) => n = Len(ls)
  BY <1>11 DEF EndOfText
<1> QED BY <1>1, <1>2, <1>3, <1>4, <1>5, <1>8, <1>10, <1>13, <1>14 DEF n, p, e

LEMMA TextGrows ==
  ASSUME NEW q \in Seq(PieceRecord), NEW ls \in Seq(LineRecord), NEW c, NEW rec \in LineRecord,
         EndOfText(q, ls, c), rec.client = c,
         NEW new \in Seq(PieceRecord), Len(new) = rec.len,
         \A i \in 1 .. rec.len : new[i] = [line |-> Len(ls) + 1, place |-> i]
  PROVE  /\ q \o new \in Seq(PieceRecord)
         /\ EndOfText(q \o new, Append(ls, rec), c)
         /\ q \o new # <<>>
         /\ (q \o new)[1] = IF q = <<>> THEN [line |-> Len(ls) + 1, place |-> 1] ELSE q[1]
<1> DEFINE t == q \o new
           m == Append(ls, rec)
           l == Len(q)
           n == Len(ls) + 1
<1>1. rec.len \in Nat \ {0}
  BY RequestsAssumption DEF LineRecord
<1>2. /\ l \in Nat /\ Len(ls) \in Nat /\ n \in Nat \ {0}
      /\ \A i \in 1 .. l : q[i] \in PieceRecord
  BY SeqFacts
<1>3. new \in Seq(PieceRecord) /\ Len(new) = rec.len
      /\ \A i \in 1 .. rec.len : new[i] = [line |-> n, place |-> i]
  OBVIOUS
<1>4. t \in Seq(PieceRecord) /\ Len(t) = l + rec.len
      /\ \A i \in 1 .. l + rec.len : t[i] = IF i <= l THEN q[i] ELSE new[i - l]
  <2>1. /\ t \in Seq(PieceRecord) /\ Len(t) = Len(q) + Len(new)
        /\ \A i \in 1 .. Len(q) + Len(new) : t[i] = IF i <= Len(q) THEN q[i] ELSE new[i - Len(q)]
    BY ONLY q \in Seq(PieceRecord), new \in Seq(PieceRecord), ConcatProperties
  <2> QED BY <1>3, <2>1
<1>5. /\ Len(m) = n /\ m[n] = rec
      /\ \A i \in 1 .. Len(ls) : m[i] = ls[i]
  BY AppendFacts
<1> HIDE DEF t, m, l
<1>6. \A i \in 1 .. l : t[i] = q[i] /\ i \in 1 .. Len(t)
  <2> TAKE i \in 1 .. l
  <2>1. i \in 1 .. l + rec.len /\ i <= l
    BY ONLY <1>1, <1>2, i \in 1 .. l
  <2> QED BY <1>4, <2>1
<1>7. \A i \in 1 .. rec.len : t[l + i] = [line |-> n, place |-> i] /\ l + i \in 1 .. Len(t)
  <2> TAKE i \in 1 .. rec.len
  <2>1. l + i \in 1 .. l + rec.len /\ ~(l + i <= l) /\ (l + i) - l = i
    BY <1>1, <1>2
  <2>2. t[l + i] = new[i]
    BY <1>4, <2>1
  <2> QED BY <1>3, <1>4, <2>1, <2>2
<1>8. \A i \in 1 .. Len(t) : i \in 1 .. l \/ \E j \in 1 .. rec.len : i = l + j
  <2> TAKE i \in 1 .. Len(t)
  <2>1. i \in 1 .. l \/ (i - l \in 1 .. rec.len /\ i = l + (i - l))
    BY <1>1, <1>2, <1>4
  <2> QED BY <2>1
<1> HIDE DEF n
<1>9. \A i \in 1 .. l : q[i].line \in 1 .. Len(ls) /\ q[i].line \in Nat /\ q[i].line < n
  <2> TAKE i \in 1 .. l
  <2>1. RestFollows(q, i, ls)
    BY DEF EndOfText, l
  <2> QED BY <1>2, <2>1 DEF RestFollows, n
<1>10. ASSUME NEW i \in 1 .. Len(t)
       PROVE  RestFollows(t, i, m) /\ m[t[i].line].client = c
  <2>1. CASE i \in 1 .. l
    <3> DEFINE x == q[i]
    <3>1. t[i] = x /\ RestFollows(q, i, ls) /\ ls[x.line].client = c
      BY <1>6, <2>1 DEF EndOfText, l
    <3>2. m[x.line] = ls[x.line] /\ x.line \in 1 .. Len(m)
      BY <1>2, <1>5, <1>9, <2>1
    <3>3. /\ x.place <= ls[x.line].len
          /\ \A k \in 0 .. ls[x.line].len - x.place :
               i + k \in 1 .. l /\ q[i + k] = [line |-> x.line, place |-> x.place + k]
          /\ x.place = ls[x.line].len /\ i # l => q[i + 1] = [line |-> x.line + 1, place |-> 1]
      BY <3>1 DEF RestFollows, l
    <3>4. i = l => x.line + 1 = n
      BY <1>2 DEF EndOfText, n, l
    <3> HIDE DEF x
    <3>5. \A k \in 0 .. ls[x.line].len - x.place :
            i + k \in 1 .. Len(t) /\ t[i + k] = [line |-> x.line, place |-> x.place + k]
      BY <1>6, <3>3
    <3>6. ASSUME x.place = ls[x.line].len, i # Len(t)
          PROVE  t[i + 1] = [line |-> x.line + 1, place |-> 1]
      <4>1. CASE i # l
        <5>1. i + 1 \in 1 .. l
          BY <1>2, <2>1, <4>1
        <5> QED BY <1>6, <3>3, <3>6, <4>1, <5>1
      <4>2. CASE i = l
        <5>1. 1 \in 1 .. rec.len
          BY <1>1
        <5> QED BY <1>7, <3>4, <4>2, <5>1
      <4> QED BY <4>1, <4>2
    <3> QED BY <3>1, <3>2, <3>3, <3>5, <3>6 DEF RestFollows
  <2>2. CASE \E j \in 1 .. rec.len : i = l + j
    <3>1. PICK j \in 1 .. rec.len : i = l + j
      BY <2>2
    <3>2. t[i] = [line |-> n, place |-> j] /\ t[i].line = n /\ t[i].place = j
      BY <1>7, <3>1
    <3>3. m[n].len = rec.len /\ m[n].client = c /\ n \in 1 .. Len(m)
      BY <1>2, <1>5
    <3>4. ASSUME NEW k \in 0 .. rec.len - j
          PROVE  i + k \in 1 .. Len(t) /\ t[i + k] = [line |-> n, place |-> j + k]
      <4>1. j + k \in 1 .. rec.len /\ i + k = l + (j + k)
        BY <1>1, <1>2, <3>1, SMTT(20)
      <4>2. PICK h \in 1 .. rec.len : h = j + k
        BY <4>1
      <4>3. t[l + h] = [line |-> n, place |-> h] /\ l + h \in 1 .. Len(t)
        BY <1>7
      <4> QED BY ONLY <4>1, <4>2, <4>3
    <3>5. j = rec.len => i = Len(t)
      BY <1>4, <3>1
    <3>6. j <= rec.len
      OBVIOUS
    <3> QED BY <3>2, <3>3, <3>4, <3>5, <3>6 DEF RestFollows
  <2> QED BY <1>8, <2>1, <2>2
<1>11. ASSUME NEW i \in 1 .. Len(t), NEW j \in 1 .. Len(t), i < j
       PROVE  /\ t[i].line <= t[j].line
              /\ t[i].place = m[t[i].line].len => t[i].line < t[j].line
  <2>1. CASE i \in 1 .. l /\ j \in 1 .. l
    <3>1. m[q[i].line] = ls[q[i].line]
      BY <1>5, <1>9, <2>1
    <3>2. /\ q[i].line <= q[j].line
          /\ q[i].place = ls[q[i].line].len => q[i].line < q[j].line
      BY <1>11, <2>1 DEF EndOfText, l
    <3> QED BY <1>6, <2>1, <3>1, <3>2
  <2>2. CASE i \in 1 .. l /\ \E k \in 1 .. rec.len : j = l + k
    <3>1. t[j].line = n
      <4>1. PICK k \in 1 .. rec.len : j = l + k
        BY <2>2
      <4>2. t[j] = [line |-> n, place |-> k]
        BY <1>7, <4>1
      <4> QED BY <4>2
    <3> QED BY <1>2, <1>6, <1>9, <2>2, <3>1
  <2>3. CASE \E k \in 1 .. rec.len : i = l + k
    <3>1. PICK k \in 1 .. rec.len : i = l + k
      BY <2>3
    <3>2. PICK h \in 1 .. rec.len : j = l + h
      <4>1. j \notin 1 .. l
        BY ONLY <1>1, <1>2, k \in 1 .. rec.len, <1>11, <3>1
      <4> QED BY <1>8, <4>1
    <3>3. t[i].line = n /\ t[i].place = k /\ t[j].line = n
      <4>1. t[i] = [line |-> n, place |-> k] /\ t[j] = [line |-> n, place |-> h]
        BY <1>7, <3>1, <3>2
      <4> QED BY <4>1
    <3>4. k # rec.len
      BY <1>1, <1>2, <1>11, <3>1, <3>2
    <3> QED BY <1>2, <1>5, <3>3, <3>4
  <2> QED BY <1>8, <2>1, <2>2, <2>3
<1>12. Len(t) # 0 /\ t # <<>>
  BY <1>1, <1>2, <1>4, SeqFacts
<1>13. t[Len(t)].line = Len(m)
  <2>1. rec.len \in 1 .. rec.len
    BY <1>1
  <2>2. t[Len(t)] = [line |-> n, place |-> rec.len]
    BY <1>4, <1>7, <2>1
  <2>3. t[Len(t)].line = n
    BY <2>2
  <2> QED BY <1>5, <2>3
<1>14. t[1] = IF q = <<>> THEN [line |-> n, place |-> 1] ELSE q[1]
  <2>1. CASE q = <<>>
    <3>1. l = 0 /\ 1 \in 1 .. rec.len
      BY <1>1, <2>1, SeqFacts DEF l
    <3>2. l + 1 = 1
      BY <3>1
    <3> QED BY <1>7, <2>1, <3>1, <3>2
  <2>2. CASE q # <<>>
    <3>1. 1 \in 1 .. l
      BY <2>2, SeqFacts DEF l
    <3> QED BY <1>6, <2>2, <3>1
  <2> QED BY <2>1, <2>2
<1>15. EndOfText(t, m, c)
  BY <1>10, <1>11, <1>13 DEF EndOfText
<1> QED BY <1>3, <1>4, <1>12, <1>14, <1>15 DEF t, m, n

LEMMA StreamFacts ==
  ASSUME Types
  PROVE  /\ Stream \in Seq(PieceRecord) /\ Len(Stream) = Len(buf) + Len(socket)
         /\ \A i \in 1 .. Len(buf) : Stream[i] = buf[i]
         /\ \A i \in 1 .. Len(socket) : Stream[Len(buf) + i] = socket[i]
         /\ Len(buf) \in Nat /\ Len(socket) \in Nat
<1>1. buf \in Seq(PieceRecord) /\ socket \in Seq(PieceRecord)
  BY DEF Types
<1>2. Len(buf) \in Nat /\ Len(socket) \in Nat
  BY <1>1, SeqFacts
<1>3. /\ Stream \in Seq(PieceRecord) /\ Len(Stream) = Len(buf) + Len(socket)
      /\ \A i \in 1 .. Len(buf) + Len(socket) :
           Stream[i] = IF i <= Len(buf) THEN buf[i] ELSE socket[i - Len(buf)]
  BY <1>1, ConcatProperties DEF Stream
<1> QED BY <1>2, <1>3

LEMMA StreamRest ==
  ASSUME Types, NEW k \in 0 .. Len(buf), buf' = SubSeq(buf, k + 1, Len(buf)), socket' = socket
  PROVE  /\ buf' \in Seq(PieceRecord) /\ Len(buf') <= BufSize
         /\ Stream' \in Seq(PieceRecord) /\ IsRest(Stream', Stream, k)
<1>1. buf \in Seq(PieceRecord) /\ socket \in Seq(PieceRecord) /\ Len(buf) <= BufSize
  BY DEF Types
<1>2. buf' \in Seq(PieceRecord) /\ IsRest(buf', buf, k)
  BY <1>1, SubSeqRest
<1>3. /\ Stream' \in Seq(PieceRecord) /\ Len(Stream') = Len(buf') + Len(socket)
      /\ \A i \in 1 .. Len(buf') + Len(socket) :
           Stream'[i] = IF i <= Len(buf') THEN buf'[i] ELSE socket[i - Len(buf')]
  BY <1>1, <1>2, ConcatProperties DEF Stream
<1>4. /\ Len(buf) \in Nat /\ Len(socket) \in Nat /\ Len(buf') = Len(buf) - k
      /\ \A i \in 1 .. Len(buf') : buf'[i] = buf[i + k]
  BY <1>1, <1>2, SeqFacts DEF IsRest
<1> DEFINE b == Len(buf')
           m == Len(buf)
           l == Len(socket)
<1>8. /\ m \in Nat /\ l \in Nat /\ b = m - k /\ k \in 0 .. m /\ b \in Nat
      /\ Len(Stream') = b + l /\ Len(Stream) = m + l
  BY <1>3, <1>4, StreamFacts
<1>5. ASSUME NEW i \in 1 .. Len(Stream')
      PROVE  Stream'[i] = Stream[i + k]
  <2>1. CASE i \in 1 .. b
    BY <1>3, <1>4, <1>8, <2>1, StreamFacts
  <2>2. CASE i > b
    <3> HIDE DEF b, m, l
    <3>1. i - b \in 1 .. l /\ m + (i - b) = i + k /\ ~(i <= b) /\ i \in 1 .. b + l
      BY ONLY <1>8, <2>2, i \in 1 .. Len(Stream')
    <3>2. Stream'[i] = socket[i - b]
      BY <1>3, <3>1 DEF b, l
    <3>3. Stream[m + (i - b)] = socket[i - b]
      BY <3>1, StreamFacts DEF m, l
    <3> QED BY <3>1, <3>2, <3>3
  <2> QED BY <1>8, <2>1, <2>2
<1>6. Len(Stream') = Len(Stream) - k /\ k \in 0 .. Len(Stream)
  <2> HIDE DEF b, m, l
  <2> QED BY ONLY <1>8
<1>7. Len(buf') <= BufSize
  BY <1>1, <1>4, RequestsAssumption
<1> QED BY <1>2, <1>3, <1>5, <1>6, <1>7 DEF IsRest

\* A line that is in the buffer is the one in front of the stream.
LEMMA LineInFront ==
  ASSUME Types, StreamOK, Stream # <<>>
  PROVE  LET e == FirstEnd(Stream, lines)
         IN  IF LineEnd(buf) = 0 THEN e > Len(buf)
             ELSE LineEnd(buf) = e /\ e \in 1 .. Len(buf) /\ buf[e] = Stream[e]
<1> DEFINE e == FirstEnd(Stream, lines)
           n == Stream[1].line
           ends == {i \in 1 .. Len(buf) : Ends(buf[i])}
<1>1. Stream \in Seq(PieceRecord) /\ lines \in Seq(LineRecord) /\ EndOfText(Stream, lines, client)
  BY StreamFacts DEF StreamOK, Types
<1>2. /\ e \in 1 .. Len(Stream) /\ Stream[e] = [line |-> n, place |-> lines[n].len]
      /\ Stream[1].place \in Nat /\ lines[n].len \in Nat
      /\ \A i \in 1 .. e : Stream[i] = [line |-> n, place |-> Stream[1].place + (i - 1)]
  BY <1>1, FirstLine
<1>3. /\ Len(buf) \in Nat /\ Len(Stream) \in Nat /\ e = lines[n].len - Stream[1].place + 1
      /\ \A i \in 1 .. Len(buf) : Stream[i] = buf[i] /\ i \in 1 .. Len(Stream)
  BY StreamFacts DEF FirstEnd
<1> HIDE DEF e, n
<1>4. ASSUME e \in 1 .. Len(buf)
      PROVE  e \in ends
  <2>1. buf[e] = Stream[e] /\ buf[e].line = n /\ buf[e].place = lines[n].len
    BY <1>2, <1>3, <1>4
  <2> QED BY <1>4, <2>1 DEF Ends
<1>5. ASSUME NEW i \in ends
      PROVE  e <= i
  <2>1. i \in 1 .. Len(buf) /\ buf[i] = Stream[i] /\ buf[i].place = lines[buf[i].line].len
    BY <1>3 DEF Ends
  <2>2. CASE i <= e
    <3>1. i \in 1 .. e
      BY <2>1, <2>2, <1>2
    <3> DEFINE p == Stream[1].place
    <3>2. Stream[i] = [line |-> n, place |-> p + (i - 1)]
      BY <1>2, <3>1
    <3> HIDE DEF p
    <3>3. Stream[i].line = n /\ Stream[i].place = p + (i - 1)
      BY <3>2
    <3>4. buf[i].line = n /\ buf[i].place = Stream[1].place + (i - 1)
      BY <2>1, <3>3 DEF p
    <3>5. lines[n].len = Stream[1].place + (i - 1)
      BY <2>1, <3>4
    <3> QED BY ONLY <1>2, <1>3, <3>1, <3>5
  <2> QED BY <1>2, <2>1, <2>2
<1>6. LineEnd(buf) = IF ends = {} THEN 0 ELSE CHOOSE i \in ends : \A j \in ends : i <= j
  BY DEF LineEnd
<1>7. \A i \in ends : i \in 1 .. Len(buf) /\ i \in Nat
  OBVIOUS
<1> HIDE DEF ends
<1>8. CASE ends = {}
  <2>1. LineEnd(buf) = 0 /\ e > Len(buf)
    BY <1>2, <1>3, <1>4, <1>6, <1>8
  <2> QED BY <2>1 DEF e
<1>9. CASE ends # {}
  <2>1. PICK i \in ends : TRUE
    BY <1>9
  <2>2. e \in 1 .. Len(buf)
    BY <1>2, <1>3, <1>5, <1>7, <2>1
  <2>3. e \in ends /\ \A j \in ends : e <= j
    BY <1>4, <1>5, <2>2
  <2> DEFINE first == CHOOSE j \in ends : \A m \in ends : j <= m
  <2>4. first \in ends /\ \A m \in ends : first <= m
    BY <2>3
  <2> HIDE DEF first
  <2>5. first = e
    BY <1>7, <2>3, <2>4
  <2>6. LineEnd(buf) = e
    BY <1>6, <1>9, <2>5 DEF first
  <2>7. LineEnd(buf) # 0 /\ buf[e] = Stream[e]
    BY <1>3, <2>2, <2>6
  <2> QED BY <2>2, <2>6, <2>7 DEF e
<1> QED BY <1>8, <1>9

-----------------------------------------------------------------------------
(* What no step takes back.                                                 *)

LEMMA Typed ==
  ASSUME Types
  PROVE  /\ Len(lines) \in Nat /\ Line = DOMAIN lines
         /\ \A n \in Line : /\ n \in Nat /\ n # 0 /\ lines[n] \in LineRecord
                            /\ lines[n].client \in Nat /\ lines[n].client # 0
                            /\ lines[n].len \in Nat
         /\ Len(answers) \in Nat /\ DOMAIN answers = 1 .. Len(answers)
         /\ \A i \in DOMAIN answers : answers[i] \in AnswerRecord
<1>1. lines \in Seq(LineRecord) /\ answers \in Seq(AnswerRecord)
  BY DEF Types
<1>2. /\ Len(lines) \in Nat /\ DOMAIN lines = 1 .. Len(lines)
      /\ \A n \in 1 .. Len(lines) : lines[n] \in LineRecord
  BY <1>1, SeqFacts
<1>3. \A r \in LineRecord : r.client \in Nat /\ r.client # 0 /\ r.len \in Nat
  BY RequestsAssumption DEF LineRecord
<1>4. /\ Len(answers) \in Nat /\ DOMAIN answers = 1 .. Len(answers)
      /\ \A i \in DOMAIN answers : answers[i] \in AnswerRecord
  BY <1>1, SeqFacts
<1> QED BY <1>2, <1>3, <1>4 DEF Line

Grows ==
  /\ Len(lines) <= Len(lines') /\ Len(lines') \in Nat
  /\ \A n \in Line : lines'[n] = lines[n]
  /\ DOMAIN answers \subseteq DOMAIN answers'
  /\ \A i \in DOMAIN answers : answers'[i] = answers[i]
  /\ client' = client \/ client' = 0 \/ (client = 0 /\ client' = sessions + 1)
  /\ done \subseteq done'

LEMMA AbandonedStays ==
  ASSUME Types, ClientOK, Grows, NEW g \in Line, Abandoned(g)
  PROVE  Abandoned(g)'
<1>1. lines'[g] = lines[g] /\ lines[g].client \in Nat /\ lines[g].client # 0
  BY Typed DEF Grows
<1>2. CASE lines[g].client # client
  <2>1. lines[g].client <= sessions /\ sessions \in Nat
    BY DEF ClientOK, Types
  <2>2. lines'[g].client # client'
    BY <1>1, <1>2, <2>1 DEF Grows
  <2> QED BY <2>2 DEF Abandoned
<1>3. CASE \E i \in DOMAIN answers : answers[i].line = g /\ answers[i].text = "timeout"
  <2>1. PICK i \in DOMAIN answers : answers[i].line = g /\ answers[i].text = "timeout"
    BY <1>3
  <2>2. i \in DOMAIN answers' /\ answers'[i] = answers[i]
    BY DEF Grows
  <2> QED BY <2>1, <2>2 DEF Abandoned
<1> QED BY <1>2, <1>3 DEF Abandoned

LEMMA GivenUpStays ==
  ASSUME Types, ClientOK, Grows, NEW n \in Line, GivenUp(n)
  PROVE  GivenUp(n)'
<1>1. PICK g \in 1 .. n : lines[g].kind = lines[n].kind /\ Abandoned(g)
  BY DEF GivenUp
<1>2. g \in Line
  BY Typed DEF Line
<1>3. lines'[g] = lines[g] /\ lines'[n] = lines[n] /\ Abandoned(g)'
  BY <1>1, <1>2, AbandonedStays DEF Grows
<1> QED BY <1>1, <1>3 DEF GivenUp

\* What OwnUnlessAbandoned says of one answer.
OwnAnswer(a) ==
  /\ a.text = "ok" => a.from \in done
  /\ a.from # 0 /\ a.from # a.line =>
       /\ a.from < a.line
       /\ lines[a.from].kind = lines[a.line].kind
       /\ \E given_up \in 1 .. a.line - 1 :
            lines[given_up].kind = lines[a.line].kind /\ Abandoned(given_up)

LEMMA OwnAnswerStays ==
  ASSUME Types, ClientOK, Grows, NEW a \in AnswerRecord, a.line \in Line, OwnAnswer(a)
  PROVE  OwnAnswer(a)'
<1>1. a.line \in Nat /\ a.from \in Nat /\ Len(lines) \in Nat /\ a.line <= Len(lines)
  BY Typed DEF AnswerRecord, Line
<1>2. a.text = "ok" => a.from \in done'
  BY DEF OwnAnswer, Grows
<1>3. ASSUME a.from # 0, a.from # a.line
      PROVE  /\ a.from < a.line
             /\ lines'[a.from].kind = lines'[a.line].kind
             /\ \E given_up \in 1 .. a.line - 1 :
                  lines'[given_up].kind = lines'[a.line].kind /\ Abandoned(given_up)'
  <2>1. a.from < a.line /\ lines[a.from].kind = lines[a.line].kind
    BY <1>3 DEF OwnAnswer
  <2>2. PICK g \in 1 .. a.line - 1 : lines[g].kind = lines[a.line].kind /\ Abandoned(g)
    BY <1>3 DEF OwnAnswer
  <2>3. g \in Line /\ a.from \in Line
    BY <1>1, <1>3, <2>1 DEF Line
  <2>4. lines'[g] = lines[g] /\ lines'[a.from] = lines[a.from] /\ lines'[a.line] = lines[a.line]
    BY <2>3 DEF Grows
  <2>5. Abandoned(g)'
    BY <2>2, <2>3, AbandonedStays
  <2> QED BY <2>1, <2>2, <2>4, <2>5
<1> QED BY <1>2, <1>3 DEF OwnAnswer

LEMMA OwnKept ==
  ASSUME Types, ClientOK, TakenOK, OwnUnlessAbandoned, Grows, answers' = answers
  PROVE  OwnUnlessAbandoned'
<1>1. ASSUME NEW i \in DOMAIN answers
      PROVE  OwnAnswer(answers[i])
  BY DEF OwnUnlessAbandoned, OwnAnswer
<1>2. ASSUME NEW i \in DOMAIN answers, NEW a, a = answers[i]
      PROVE  OwnAnswer(a)'
  <2>1. a \in AnswerRecord /\ a.line \in Line
    BY <1>2, Typed DEF TakenOK
  <2> QED BY <1>1, <1>2, <2>1, OwnAnswerStays
<1> QED BY <1>2 DEF OwnUnlessAbandoned, OwnAnswer

LEMMA OwnMore ==
  ASSUME Types, ClientOK, TakenOK, OwnUnlessAbandoned, Grows,
         NEW a \in AnswerRecord, OwnAnswer(a)', answers' = Append(answers, a)
  PROVE  OwnUnlessAbandoned'
<1>1. answers \in Seq(AnswerRecord)
  BY DEF Types
<1>2. /\ DOMAIN answers' = 1 .. Len(answers) + 1 /\ Len(answers) \in Nat
      /\ answers'[Len(answers) + 1] = a
      /\ \A i \in 1 .. Len(answers) : answers'[i] = answers[i]
  <2>1. /\ Append(answers, a) \in Seq(AnswerRecord)
        /\ Len(Append(answers, a)) = Len(answers) + 1 /\ Len(answers) \in Nat
    BY <1>1, AppendFacts
  <2>2. DOMAIN Append(answers, a) = 1 .. Len(Append(answers, a))
    BY <2>1, SeqFacts
  <2> QED BY <1>1, <2>1, <2>2, AppendFacts
<1>3. ASSUME NEW i \in DOMAIN answers', NEW x, x = answers'[i]
      PROVE  OwnAnswer(x)'
  <2>1. CASE i = Len(answers) + 1
    BY <1>2, <1>3, <2>1
  <2>2. CASE i \in 1 .. Len(answers)
    <3>1. x = answers[i] /\ i \in DOMAIN answers
      BY <1>2, <1>3, <2>2, Typed
    <3>2. OwnAnswer(x)
      BY <3>1 DEF OwnUnlessAbandoned, OwnAnswer
    <3>3. x \in AnswerRecord /\ x.line \in Line
      BY <3>1, Typed DEF TakenOK
    <3> QED BY <3>2, <3>3, OwnAnswerStays
  <2> QED BY <1>2, <2>1, <2>2
<1> QED BY <1>3 DEF OwnUnlessAbandoned, OwnAnswer

-----------------------------------------------------------------------------
(* Steps that leave most of the invariant alone.                            *)

LEMMA StreamKept ==
  ASSUME StreamOK, Stream' = Stream, UNCHANGED <<lines, client>>
  PROVE  StreamOK'
BY DEF StreamOK

LEMMA OrderKept ==
  ASSUME Types, OrderOK, UNCHANGED <<to_pico, to_zero, calibrating, done, lines>>,
         waiting' \in {waiting, 0},
         \A i \in 1 .. Len(Stream') : \E j \in 1 .. Len(Stream) : Stream'[i] = Stream[j]
  PROVE  OrderOK'
<1>1. \A n : OnItsWay(n)' <=> OnItsWay(n)
  BY DEF OnItsWay
<1>2. Line' = Line /\ Len(lines) \in Nat
  BY Typed DEF Line
<1>3. \A i \in 1 .. Len(Stream') : 0 < Stream'[i].line
  <2> TAKE i \in 1 .. Len(Stream')
  <2>1. PICK j \in 1 .. Len(Stream) : Stream'[i] = Stream[j]
    OBVIOUS
  <2>2. Stream[j] \in PieceRecord
    BY StreamFacts, SeqFacts
  <2> QED BY <2>1, <2>2 DEF PieceRecord
<1>4. ASSUME NEW n \in Nat, OnItsWay(n)
      PROVE  n \in Line /\ \A i \in 1 .. Len(Stream') : n < Stream'[i].line
  BY <1>4 DEF OrderOK, AheadOK
<1>5. waiting' \in 0 .. Len(lines) /\ \A i \in 1 .. Len(Stream') : waiting' < Stream'[i].line
  BY <1>2, <1>3 DEF OrderOK, AheadOK
<1>6. waiting' # 0 => \A n \in Nat : OnItsWay(n) => n <= waiting'
  BY DEF OrderOK, AheadOK
<1>7. AheadOK'
  BY <1>1, <1>2, <1>4, <1>5, <1>6 DEF AheadOK
<1>8. OnceOK' /\ DoneOK'
  BY <1>2 DEF OrderOK, OnceOK, DoneOK
<1> QED BY <1>7, <1>8 DEF OrderOK

LEMMA GivenUpKept ==
  ASSUME Types, ClientOK, OrderOK, GivenUpOK, Grows,
         at' # "ended" => at # "ended",
         \A n \in Line : OnItsWay(n)' /\ n # waiting' /\ at' # "ended"
                        => (OnItsWay(n) /\ n # waiting) \/ GivenUp(n)',
         \A n \in Nat : OnItsWay(n)' => n \in Line
  PROVE  GivenUpOK'
<1>1. ASSUME NEW n \in Nat, OnItsWay(n)', n # waiting', at' # "ended"
      PROVE  GivenUp(n)'
  <2>1. n \in Line
    BY <1>1
  <2>2. CASE OnItsWay(n) /\ n # waiting
    <3>1. GivenUp(n)
      BY <1>1, <2>2 DEF GivenUpOK
    <3> QED BY <2>1, <3>1, GivenUpStays
  <2> QED BY <1>1, <2>1, <2>2
<1> QED BY <1>1 DEF GivenUpOK

LEMMA TakenKept ==
  ASSUME TakenOK, AnswersInOrder, UNCHANGED <<answers, waiting, client, lines, sessions>>,
         Stream' = Stream, at' # "ended" => at # "ended"
  PROVE  TakenOK' /\ AnswersInOrder'
<1>1. Line' = Line /\ \A c : Taken(c)' = Taken(c)
  BY DEF Line, Taken
<1>2. TakenOK'
  BY <1>1 DEF TakenOK
<1>3. \A m, n : Follows(m, n)' <=> Follows(m, n)
  BY DEF Follows, Fits
<1>4. AnswersInOrder'
  BY <1>1, <1>3 DEF AnswersInOrder
<1> QED BY <1>2, <1>4

\* The client writes nothing, the link carries nothing, nothing is answered.
LEMMA QuietStep ==
  ASSUME Inv, UNCHANGED <<client, waiting, sessions, lines, pico, answers>>,
         Stream' = Stream, at' # "ended" => at # "ended", Types', ClientOK'
  PROVE  Inv'
<1>1. /\ Types /\ ClientOK /\ StreamOK /\ OrderOK /\ GivenUpOK /\ TakenOK
      /\ OwnUnlessAbandoned /\ AnswersInOrder
  BY DEF Inv
<1>2. /\ UNCHANGED <<to_pico, to_zero, calibrating, done>>
      /\ UNCHANGED <<client, waiting, sessions, lines, answers>>
  BY DEF pico
<1>3. Grows
  BY <1>1, <1>2, Typed DEF Grows
<1>4. StreamOK'
  BY <1>1, <1>2, StreamKept
<1>5. OrderOK'
  BY <1>1, <1>2, OrderKept
<1>6. \A n : OnItsWay(n)' <=> OnItsWay(n)
  BY <1>2 DEF OnItsWay
<1>7. GivenUpOK'
  <2>1. \A n \in Nat : OnItsWay(n) => n \in Line
    BY <1>1 DEF OrderOK, AheadOK
  <2> QED BY <1>1, <1>2, <1>3, <1>6, <2>1, GivenUpKept
<1>8. TakenOK' /\ AnswersInOrder'
  BY <1>1, <1>2, TakenKept
<1>9. OwnUnlessAbandoned'
  BY <1>1, <1>2, <1>3, OwnKept
<1> QED BY <1>4, <1>5, <1>7, <1>8, <1>9 DEF Inv

\* A step of the link or the Pico.
LEMMA LinkStep ==
  ASSUME Inv, UNCHANGED <<zero, clients, answers>>, Types', OrderOK', done \subseteq done',
         \A n \in Nat : OnItsWay(n)' => OnItsWay(n)
  PROVE  Inv'
<1>1. /\ Types /\ ClientOK /\ StreamOK /\ OrderOK /\ GivenUpOK /\ TakenOK
      /\ OwnUnlessAbandoned /\ AnswersInOrder
  BY DEF Inv
<1>2. /\ UNCHANGED <<at, then, ready, client, buf, waiting>>
      /\ UNCHANGED <<hung, knocking, sessions, socket, lines, answers>>
  BY DEF zero, clients
<1>3. Grows
  BY <1>1, <1>2, Typed DEF Grows
<1>4. Stream' = Stream
  BY <1>2 DEF Stream
<1>5. StreamOK'
  BY <1>1, <1>2, <1>4, StreamKept
<1>6. ClientOK'
  BY <1>1, <1>2 DEF ClientOK, Line
<1>7. GivenUpOK'
  <2>1. \A n \in Nat : OnItsWay(n)' => n \in Line
    BY <1>1 DEF OrderOK, AheadOK
  <2>2. \A n \in Line : n \in Nat
    BY <1>1, Typed
  <2> QED BY <1>1, <1>2, <1>3, <2>1, <2>2, GivenUpKept
<1>8. TakenOK' /\ AnswersInOrder'
  BY <1>1, <1>2, <1>4, TakenKept
<1>9. OwnUnlessAbandoned'
  BY <1>1, <1>2, <1>3, OwnKept
<1> QED BY <1>5, <1>6, <1>7, <1>8, <1>9 DEF Inv

-----------------------------------------------------------------------------
(* The link and the Pico.                                                   *)

LEMMA LoseRequestOK ==
  ASSUME Inv, LoseRequest
  PROVE  Inv'
<1>1. Types /\ OrderOK
  BY DEF Inv
<1>2. /\ to_pico # <<>> /\ to_pico' = Tail(to_pico)
      /\ UNCHANGED <<zero, clients, answers>> /\ UNCHANGED <<to_zero, calibrating, done>>
  BY DEF LoseRequest
<1>3. to_pico' \in Seq(Nat \ {0}) /\ IsRest(to_pico', to_pico, 1)
  BY <1>1, <1>2, TailRest DEF Types
<1>4. /\ \A i \in DOMAIN to_pico' : i + 1 \in DOMAIN to_pico /\ to_pico'[i] = to_pico[i + 1] /\ i \in Nat
  <2>1. to_pico \in Seq(Nat \ {0})
    BY <1>1 DEF Types
  <2>2. /\ DOMAIN to_pico' = 1 .. Len(to_pico') /\ Len(to_pico') \in Nat
        /\ DOMAIN to_pico = 1 .. Len(to_pico) /\ Len(to_pico) \in Nat
    BY <1>3, <2>1, SeqFacts
  <2> QED BY <1>3, <2>2 DEF IsRest
<1>5. \A n \in Nat : OnItsWay(n)' => OnItsWay(n)
  BY <1>2, <1>4 DEF OnItsWay
<1>6. Types'
  BY <1>1, <1>2, <1>3 DEF Types, zero, clients
<1>7. OrderOK'
  <2>1. Stream' = Stream /\ Line' = Line /\ waiting' = waiting /\ lines' = lines
    BY <1>2 DEF Stream, Line, zero, clients
  <2>2. \A i, j \in DOMAIN to_pico' : i < j => to_pico'[i] < to_pico'[j]
    <3> TAKE i, j \in DOMAIN to_pico'
    <3>1. i < j => i + 1 < j + 1
      BY <1>4
    <3> QED BY <1>1, <1>4, <3>1 DEF OrderOK, OnceOK
  <2>3. AheadOK'
    BY <1>1, <1>5, <2>1 DEF OrderOK, AheadOK
  <2>4. OnceOK'
    BY <1>1, <1>2, <1>4, <2>2 DEF OrderOK, OnceOK
  <2>5. DoneOK'
    BY <1>1, <1>2, <2>1 DEF OrderOK, DoneOK
  <2> QED BY <2>3, <2>4, <2>5 DEF OrderOK
<1> QED BY <1>2, <1>5, <1>6, <1>7, LinkStep

LEMMA ReplyTaken ==
  ASSUME Types, OrderOK, to_zero # <<>>, to_zero' = Tail(to_zero),
         UNCHANGED <<to_pico, calibrating, done, lines>>, Stream' = Stream,
         waiting' \in {waiting, 0}
  PROVE  /\ to_zero' \in Seq(ReplyRecord) /\ Head(to_zero) \in ReplyRecord
         /\ OrderOK'
         /\ \A n \in Nat : OnItsWay(n)' => OnItsWay(n) /\ n # Head(to_zero).line
         /\ OnItsWay(Head(to_zero).line)
         /\ Head(to_zero).result = "ok" => Head(to_zero).line \in done
<1>1. /\ to_zero \in Seq(ReplyRecord) /\ to_zero' \in Seq(ReplyRecord) /\ IsRest(to_zero', to_zero, 1)
      /\ Head(to_zero) = to_zero[1] /\ 1 \in DOMAIN to_zero /\ Head(to_zero) \in ReplyRecord
  <2>1. to_zero \in Seq(ReplyRecord)
    BY DEF Types
  <2>2. DOMAIN to_zero = 1 .. Len(to_zero)
    BY <2>1, SeqFacts
  <2> QED BY <2>1, <2>2, TailRest
<1>2. \A i \in DOMAIN to_zero' : /\ i + 1 \in DOMAIN to_zero /\ to_zero'[i] = to_zero[i + 1]
                                 /\ i \in Nat /\ i + 1 # 1
  <2>1. /\ DOMAIN to_zero' = 1 .. Len(to_zero') /\ Len(to_zero') \in Nat
        /\ DOMAIN to_zero = 1 .. Len(to_zero) /\ Len(to_zero) \in Nat
    BY <1>1, SeqFacts
  <2> QED BY <1>1, <2>1 DEF IsRest
<1> DEFINE r == to_zero[1]
<1>3. ASSUME NEW i \in DOMAIN to_zero'
      PROVE  to_zero'[i].line # r.line
  BY <1>1, <1>2 DEF OrderOK, OnceOK
<1>4. ASSUME NEW n \in Nat, OnItsWay(n)'
      PROVE  OnItsWay(n) /\ n # r.line
  <2>1. CASE \E i \in DOMAIN to_pico : to_pico[i] = n
    <3>1. PICK i \in DOMAIN to_pico : to_pico[i] = n
      BY <2>1
    <3>2. r.line < n
      BY <1>1, <3>1 DEF OrderOK, OnceOK
    <3>3. r.line \in Nat
      BY <1>1 DEF ReplyRecord
    <3> QED BY <2>1, <3>2, <3>3 DEF OnItsWay
  <2>2. CASE calibrating = n /\ n # 0
    <3>1. r.line # calibrating
      BY <1>1 DEF OrderOK, OnceOK
    <3> QED BY <2>2, <3>1 DEF OnItsWay
  <2>3. CASE \E i \in DOMAIN to_zero' : to_zero'[i].line = n
    BY <1>2, <1>3, <2>3 DEF OnItsWay
  <2> QED BY <1>4, <2>1, <2>2, <2>3 DEF OnItsWay
<1>5. Line' = Line
  BY DEF Line
<1>6. \A i, j \in DOMAIN to_zero' : to_zero'[i].line = to_zero'[j].line => i = j
  <2> TAKE i, j \in DOMAIN to_zero'
  <2>1. to_zero'[i].line = to_zero'[j].line => i + 1 = j + 1
    BY <1>2 DEF OrderOK, OnceOK
  <2> QED BY <1>2, <2>1
<1>7. waiting' \in 0 .. Len(lines) /\ \A i \in 1 .. Len(Stream) : waiting' < Stream[i].line
  <2>1. Len(lines) \in Nat /\ \A i \in 1 .. Len(Stream) : 0 < Stream[i].line
    <3>1. \A i \in 1 .. Len(Stream) : Stream[i] \in PieceRecord
      BY StreamFacts, SeqFacts
    <3> QED BY <3>1, Typed DEF PieceRecord
  <2> QED BY <2>1 DEF OrderOK, AheadOK
<1>8. /\ \A n \in Nat : OnItsWay(n)' => n \in Line' /\ \A i \in 1 .. Len(Stream') : n < Stream'[i].line
      /\ waiting' # 0 => \A n \in Nat : OnItsWay(n)' => n <= waiting'
  BY <1>4, <1>5 DEF OrderOK, AheadOK
<1>9. OrderOK'
  <2>1. AheadOK'
    BY <1>5, <1>7, <1>8 DEF AheadOK
  <2>2. OnceOK'
    BY <1>2, <1>6 DEF OrderOK, OnceOK
  <2>3. DoneOK'
    BY <1>2, <1>5 DEF OrderOK, DoneOK
  <2> QED BY <2>1, <2>2, <2>3 DEF OrderOK
<1>10. OnItsWay(r.line) /\ (r.result = "ok" => r.line \in done)
  BY <1>1 DEF OnItsWay, OrderOK, DoneOK
<1> QED BY <1>1, <1>4, <1>9, <1>10

LEMMA LoseReplyOK ==
  ASSUME Inv, LoseReply
  PROVE  Inv'
<1>1. Types /\ OrderOK
  BY DEF Inv
<1>2. /\ to_zero # <<>> /\ to_zero' = Tail(to_zero)
      /\ UNCHANGED <<zero, clients, answers>> /\ UNCHANGED <<to_pico, calibrating, done>>
  BY DEF LoseReply
<1>3. Stream' = Stream /\ waiting' = waiting /\ lines' = lines
  BY <1>2 DEF Stream, zero, clients
<1>4. to_zero' \in Seq(ReplyRecord) /\ OrderOK' /\ \A n \in Nat : OnItsWay(n)' => OnItsWay(n)
  BY <1>1, <1>2, <1>3, ReplyTaken
<1>5. Types'
  BY <1>1, <1>2, <1>4 DEF Types, zero, clients
<1> QED BY <1>2, <1>4, <1>5, LinkStep

LEMMA ReplySent ==
  ASSUME Inv, NEW line \in Nat \ {0}, NEW result \in {"ok", "busy"}, OnItsWay(line),
         \A j \in DOMAIN to_zero : to_zero[j].line # line,
         to_zero' = Append(to_zero, Reply(line, result)),
         to_pico' \in Seq(Nat \ {0}),
         \A i \in DOMAIN to_pico' : line < to_pico'[i] /\ \E k \in DOMAIN to_pico : to_pico'[i] = to_pico[k],
         \A i, j \in DOMAIN to_pico' : i < j => to_pico'[i] < to_pico'[j],
         calibrating' \in {calibrating, 0}, line # calibrating',
         done' \in {done, done \cup {line}}, result = "ok" => line \in done',
         UNCHANGED <<zero, clients, answers>>
  PROVE  Inv'
<1>1. Types /\ OrderOK
  BY DEF Inv
<1> DEFINE r == Reply(line, result)
           z == Len(to_zero)
<1>2. r \in ReplyRecord /\ r.line = line /\ r.result = result
  BY DEF Reply, ReplyRecord
<1> HIDE DEF r
<1>3. /\ to_zero' \in Seq(ReplyRecord) /\ z \in Nat
      /\ DOMAIN to_zero' = 1 .. z + 1 /\ DOMAIN to_zero = 1 .. z
      /\ \A i \in 1 .. z : to_zero'[i] = to_zero[i]
      /\ to_zero'[z + 1] = r
  <2>1. to_zero \in Seq(ReplyRecord)
    BY <1>1 DEF Types
  <2>2. to_zero' = Append(to_zero, r)
    BY DEF r
  <2>3. /\ to_zero' \in Seq(ReplyRecord) /\ z \in Nat /\ Len(to_zero') = z + 1
        /\ \A i \in 1 .. z : to_zero'[i] = to_zero[i]
        /\ to_zero'[z + 1] = r
    BY <1>2, <2>1, <2>2, AppendFacts
  <2>4. DOMAIN to_zero' = 1 .. Len(to_zero') /\ DOMAIN to_zero = 1 .. z
    BY <2>1, <2>3, SeqFacts
  <2> QED BY <2>3, <2>4
<1> HIDE DEF z
<1>4. \A i \in DOMAIN to_zero' : (i \in DOMAIN to_zero /\ to_zero'[i] = to_zero[i])
                               \/ (i = z + 1 /\ to_zero'[i] = r)
  BY <1>3
<1>5. \A n \in Nat : OnItsWay(n)' => OnItsWay(n)
  <2> TAKE n \in Nat
  <2>1. CASE \E i \in DOMAIN to_pico' : to_pico'[i] = n
    BY <2>1 DEF OnItsWay
  <2>2. CASE calibrating' = n /\ n # 0
    BY <2>2 DEF OnItsWay
  <2>3. CASE \E i \in DOMAIN to_zero' : to_zero'[i].line = n
    BY <1>2, <1>4, <2>3 DEF OnItsWay
  <2> QED BY <2>1, <2>2, <2>3 DEF OnItsWay
<1>6. Stream' = Stream /\ Line' = Line /\ waiting' = waiting /\ lines' = lines
  BY DEF Stream, Line, zero, clients
<1>7. line \in Line
  BY <1>1 DEF OrderOK, AheadOK
<1>8. Types'
  <2>1. calibrating' \in Nat /\ done' \subseteq Nat \ {0}
    BY <1>1 DEF Types
  <2> QED BY <1>1, <1>3, <2>1 DEF Types, zero, clients
<1>9. OrderOK'
  <2>1. \A i \in DOMAIN to_pico' : /\ calibrating' < to_pico'[i]
                                   /\ \A j \in DOMAIN to_zero' : to_zero'[j].line < to_pico'[i]
    <3> TAKE i \in DOMAIN to_pico'
    <3>1. PICK k \in DOMAIN to_pico : to_pico'[i] = to_pico[k]
      OBVIOUS
    <3>2. calibrating < to_pico[k] /\ \A j \in DOMAIN to_zero : to_zero[j].line < to_pico[k]
      BY <1>1 DEF OrderOK, OnceOK
    <3>3. calibrating' < to_pico'[i]
      <4>1. to_pico'[i] \in Nat \ {0}
        BY SeqFacts
      <4> QED BY <3>1, <3>2, <4>1
    <3> QED BY <1>2, <1>4, <3>1, <3>2, <3>3
  <2>2. \A i, j \in DOMAIN to_zero' : to_zero'[i].line = to_zero'[j].line => i = j
    BY <1>1, <1>2, <1>4 DEF OrderOK, OnceOK
  <2>3. \A i \in DOMAIN to_zero' : /\ to_zero'[i].line # calibrating'
                                   /\ to_zero'[i].result = "ok" => to_zero'[i].line \in done'
    <3> TAKE i \in DOMAIN to_zero'
    <3>1. CASE i \in DOMAIN to_zero /\ to_zero'[i] = to_zero[i]
      <4>1. to_zero[i].line # 0
        <5>1. to_zero[i] \in ReplyRecord
          BY <1>1, <3>1, SeqFacts DEF Types
        <5> QED BY <5>1 DEF ReplyRecord
      <4> QED BY <1>1, <3>1, <4>1 DEF OrderOK, OnceOK, DoneOK
    <3>2. CASE to_zero'[i] = r
      BY <1>2, <3>2
    <3> QED BY <1>4, <3>1, <3>2
  <2>4. done' \subseteq Line
    BY <1>1, <1>7 DEF OrderOK, DoneOK
  <2>5. AheadOK'
    BY <1>1, <1>5, <1>6 DEF OrderOK, AheadOK
  <2>6. OnceOK'
    BY <2>1, <2>2, <2>3 DEF OnceOK
  <2>7. DoneOK'
    BY <1>6, <2>3, <2>4 DEF DoneOK
  <2> QED BY <2>5, <2>6, <2>7 DEF OrderOK
<1> QED BY <1>5, <1>8, <1>9, LinkStep

LEMMA PicoCalibratedOK ==
  ASSUME Inv, PicoCalibrated
  PROVE  Inv'
<1>1. Types /\ OrderOK
  BY DEF Inv
<1>2. /\ calibrating # 0 /\ calibrating' = 0 /\ done' = done \cup {calibrating}
      /\ to_zero' = Append(to_zero, Reply(calibrating, "ok"))
      /\ to_pico' = to_pico /\ UNCHANGED <<zero, clients, answers>>
  BY DEF PicoCalibrated
<1>3. calibrating \in Nat \ {0} /\ OnItsWay(calibrating) /\ to_pico' \in Seq(Nat \ {0})
  BY <1>1, <1>2 DEF Types, OnItsWay
<1>4. /\ \A j \in DOMAIN to_zero : to_zero[j].line # calibrating
      /\ \A i \in DOMAIN to_pico' : /\ calibrating < to_pico'[i]
                                    /\ \E k \in DOMAIN to_pico : to_pico'[i] = to_pico[k]
      /\ \A i, j \in DOMAIN to_pico' : i < j => to_pico'[i] < to_pico'[j]
  BY <1>1, <1>2 DEF OrderOK, OnceOK
<1> QED BY <1>2, <1>3, <1>4, ReplySent

LEMMA PicoDoesOK ==
  ASSUME Inv, PicoDoes
  PROVE  Inv'
<1>1. Types /\ OrderOK
  BY DEF Inv
<1> DEFINE line == Head(to_pico)
<1>2. /\ to_pico # <<>> /\ to_pico' = Tail(to_pico) /\ UNCHANGED <<zero, clients, answers>>
      /\ \/ /\ calibrating = 0 /\ calibrating' = line
            /\ UNCHANGED <<to_zero, done>>
         \/ /\ to_zero' = Append(to_zero, Reply(line, "busy"))
            /\ UNCHANGED <<calibrating, done>>
         \/ /\ done' = done \cup {line} /\ calibrating' = calibrating
            /\ to_zero' = Append(to_zero, Reply(line, "ok"))
  BY DEF PicoDoes
<1>3. /\ to_pico' \in Seq(Nat \ {0}) /\ line \in Nat \ {0} /\ line = to_pico[1]
      /\ 1 \in DOMAIN to_pico
      /\ \A i \in DOMAIN to_pico' : /\ i + 1 \in DOMAIN to_pico /\ to_pico'[i] = to_pico[i + 1]
                                    /\ i \in Nat /\ 1 < i + 1
  <2>1. to_pico \in Seq(Nat \ {0})
    BY <1>1 DEF Types
  <2>2. /\ to_pico' \in Seq(Nat \ {0}) /\ line \in Nat \ {0} /\ line = to_pico[1]
        /\ 1 \in 1 .. Len(to_pico) /\ IsRest(to_pico', to_pico, 1)
    BY <1>2, <2>1, TailRest
  <2>3. /\ DOMAIN to_pico' = 1 .. Len(to_pico') /\ Len(to_pico') \in Nat
        /\ DOMAIN to_pico = 1 .. Len(to_pico) /\ Len(to_pico) \in Nat
    BY <2>1, <2>2, SeqFacts
  <2> QED BY <2>2, <2>3 DEF IsRest
<1> HIDE DEF line
<1>4. /\ OnItsWay(line) /\ calibrating < line
      /\ \A j \in DOMAIN to_zero : to_zero[j].line < line
  BY <1>1, <1>3 DEF OrderOK, OnceOK, OnItsWay
<1>5. /\ \A i \in DOMAIN to_pico' : /\ line < to_pico'[i]
                                    /\ \E k \in DOMAIN to_pico : to_pico'[i] = to_pico[k]
      /\ \A i, j \in DOMAIN to_pico' : i < j => to_pico'[i] < to_pico'[j]
  <2>1. ASSUME NEW i \in DOMAIN to_pico', NEW j \in DOMAIN to_pico', i < j
        PROVE  to_pico'[i] < to_pico'[j]
    <3>1. i + 1 < j + 1
      BY <1>3, <2>1
    <3> QED BY <1>1, <1>3, <3>1 DEF OrderOK, OnceOK
  <2>2. ASSUME NEW i \in DOMAIN to_pico'
        PROVE  line < to_pico'[i]
    BY <1>1, <1>3 DEF OrderOK, OnceOK
  <2> QED BY <1>3, <2>1, <2>2
<1>6. (\A j \in DOMAIN to_zero : to_zero[j].line # line) /\ line # calibrating
  BY <1>3, <1>4
<1>7. CASE to_zero' = Append(to_zero, Reply(line, "busy")) /\ UNCHANGED <<calibrating, done>>
  BY <1>2, <1>3, <1>4, <1>5, <1>6, <1>7, ReplySent
<1>8. CASE /\ done' = done \cup {line} /\ calibrating' = calibrating
           /\ to_zero' = Append(to_zero, Reply(line, "ok"))
  BY <1>2, <1>3, <1>4, <1>5, <1>6, <1>8, ReplySent
<1>9. CASE calibrating = 0 /\ calibrating' = line /\ UNCHANGED <<to_zero, done>>
  <2>1. Stream' = Stream /\ Line' = Line /\ waiting' = waiting /\ lines' = lines
    BY <1>2 DEF Stream, Line, zero, clients
  <2>2. \A n \in Nat : OnItsWay(n)' => OnItsWay(n)
    BY <1>4, <1>5, <1>9 DEF OnItsWay
  <2>3. Types'
    BY <1>1, <1>2, <1>3, <1>9 DEF Types, zero, clients
  <2>4. \A i \in DOMAIN to_pico' : /\ calibrating' < to_pico'[i]
                                   /\ \A j \in DOMAIN to_zero' : to_zero'[j].line < to_pico'[i]
    <3> TAKE i \in DOMAIN to_pico'
    <3>1. PICK k \in DOMAIN to_pico : to_pico'[i] = to_pico[k]
      BY <1>5
    <3> QED BY <1>1, <1>5, <1>9, <3>1 DEF OrderOK, OnceOK
  <2>5. AheadOK'
    BY <1>1, <2>1, <2>2 DEF OrderOK, AheadOK
  <2>6. /\ \A i, j \in DOMAIN to_zero' : to_zero'[i].line = to_zero'[j].line => i = j
        /\ \A i \in DOMAIN to_zero' : to_zero'[i].line # calibrating'
    <3>1. \A i \in DOMAIN to_zero : to_zero[i].line # line
      BY <1>6
    <3> QED BY <1>1, <1>9, <3>1 DEF OrderOK, OnceOK
  <2>7. OrderOK'
    <3>1. OnceOK'
      BY <1>5, <2>4, <2>6 DEF OnceOK
    <3>2. DoneOK'
      BY <1>1, <1>9, <2>1 DEF OrderOK, DoneOK
    <3> QED BY <2>5, <3>1, <3>2 DEF OrderOK
  <2> QED BY <1>2, <1>9, <2>2, <2>3, <2>7, LinkStep
<1> QED BY <1>2, <1>7, <1>8, <1>9

-----------------------------------------------------------------------------
(* Steps of the loop without an answer, and what the client does.           *)

LEMMA ConnectOK ==
  ASSUME Inv, Connect \/ HangUp
  PROVE  Inv'
<1>1. Types /\ ClientOK
  BY DEF Inv
<1>2. /\ UNCHANGED <<at, then, ready, client, buf, waiting, sessions, socket, lines, pico, answers>>
      /\ \/ ~knocking /\ sessions < MaxSessions /\ knocking' = TRUE /\ hung' = hung
         \/ client # 0 /\ hung' = TRUE /\ knocking' = knocking
  BY DEF Connect, HangUp, zero
<1>3. Stream' = Stream
  BY <1>2 DEF Stream
<1>4. Types'
  BY <1>1, <1>2 DEF Types, pico
<1>5. ClientOK'
  BY <1>1, <1>2 DEF ClientOK, Line
<1> QED BY <1>2, <1>3, <1>4, <1>5, QuietStep

LEMMA LoopOK ==
  ASSUME Inv, Poll \/ LinkRead \/ LinesProcessed \/ NoRead \/ NoTimeout
  PROVE  Inv'
<1>1. Types /\ ClientOK
  BY DEF Inv
<1>2. /\ at # "ended" /\ at' # "ended"
      /\ at' \in {"poll", "link", "process", "accept", "read", "timeout", "ended"}
      /\ then' \in {"poll", "accept", "timeout"}
      /\ ready' \subseteq {"link", "listen", "client"}
      /\ "listen" \in ready' => knocking
      /\ UNCHANGED <<client, buf, waiting, clients, pico, answers>>
  <2>1. CASE Poll
    BY <1>1, <2>1 DEF Poll, Types, Events
  <2>2. CASE LinkRead
    BY <1>1, <2>2 DEF LinkRead, Process, Types, ClientOK
  <2>3. CASE LinesProcessed
    BY <1>1, <2>3 DEF LinesProcessed, Types, ClientOK
  <2>4. CASE NoRead
    BY <1>1, <2>4 DEF NoRead, Types
  <2>5. CASE NoTimeout
    BY <1>1, <2>5 DEF NoTimeout, Types, ClientOK
  <2> QED BY <2>1, <2>2, <2>3, <2>4, <2>5
<1>3. UNCHANGED <<hung, knocking, sessions, socket, lines>>
  BY <1>2 DEF clients
<1>4. Stream' = Stream
  BY <1>2, <1>3 DEF Stream
<1>5. Types'
  BY <1>1, <1>2, <1>3 DEF Types, pico
<1>6. ClientOK'
  BY <1>1, <1>2, <1>3 DEF ClientOK, Line
<1> QED BY <1>2, <1>3, <1>4, <1>5, <1>6, QuietStep

LEMMA SendLineOK ==
  ASSUME Inv, NEW kind \in Kind, NEW len \in LineLens, SendLine(kind, len)
  PROVE  Inv'
<1>1. /\ Types /\ ClientOK /\ StreamOK /\ OrderOK /\ GivenUpOK /\ TakenOK
      /\ OwnUnlessAbandoned /\ AnswersInOrder
  BY DEF Inv
<1> DEFINE rec == [client |-> client, kind |-> kind, len |-> len]
           m == Append(lines, rec)
           new == [i \in 1 .. rec.len |-> [line |-> Len(lines) + 1, place |-> i]]
<1>2. /\ client # 0 /\ ~hung /\ lines' = m
      /\ socket' = socket \o Pieces(Len(lines'))
      /\ UNCHANGED <<at, then, ready, client, buf, waiting>>
      /\ UNCHANGED <<hung, knocking, sessions>>
      /\ UNCHANGED <<to_pico, to_zero, calibrating, done, answers>>
  BY DEF SendLine, zero, pico
<1>3. rec \in LineRecord /\ rec.client = client /\ rec.len = len
  BY <1>1, <1>2 DEF LineRecord, Types
<1>4. /\ m \in Seq(LineRecord) /\ Len(m) = Len(lines) + 1 /\ Len(lines) \in Nat
      /\ m[Len(lines) + 1] = rec
      /\ \A n \in 1 .. Len(lines) : m[n] = lines[n]
      /\ lines \in Seq(LineRecord)
  BY <1>1, <1>3, AppendFacts DEF Types
<1>5. Pieces(Len(lines')) = new
  <2>1. Len(lines') = Len(lines) + 1 /\ lines'[Len(lines) + 1].len = rec.len
    BY <1>2, <1>4
  <2> HIDE DEF m, rec
  <2> QED BY <2>1 DEF Pieces
<1> HIDE DEF rec, m, new
<1>6. Stream \in Seq(PieceRecord) /\ EndOfText(Stream, lines, client)
  BY <1>1, StreamFacts DEF StreamOK
<1>7. /\ new \in Seq(PieceRecord) /\ Len(new) = rec.len
      /\ \A i \in 1 .. rec.len : new[i] = [line |-> Len(lines) + 1, place |-> i]
  <2> DEFINE n == Len(lines) + 1
  <2>1. n \in Nat \ {0} /\ rec.len \in Nat
    BY <1>3, <1>4, RequestsAssumption
  <2>2. \A i \in 1 .. rec.len : new[i] = [line |-> n, place |-> i]
    BY DEF new
  <2>3. new \in [1 .. rec.len -> PieceRecord]
    <3> HIDE DEF n
    <3>1. \A i \in 1 .. rec.len : [line |-> n, place |-> i] \in PieceRecord
      BY <2>1 DEF PieceRecord
    <3>2. new = [i \in 1 .. rec.len |-> [line |-> n, place |-> i]]
      BY DEF new, n
    <3> QED BY ONLY <3>1, <3>2
  <2> HIDE DEF n
  <2>4. new \in Seq(PieceRecord) /\ Len(new) = rec.len
    BY ONLY <2>1, <2>3
  <2> QED BY <2>2, <2>4 DEF n
<1>8. /\ Stream \o new \in Seq(PieceRecord) /\ new \in Seq(PieceRecord)
      /\ EndOfText(Stream \o new, m, client)
      /\ Stream \o new # <<>>
      /\ (Stream \o new)[1] = IF Stream = <<>> THEN [line |-> Len(lines) + 1, place |-> 1] ELSE Stream[1]
  <2>1. m = Append(lines, rec)
    BY DEF m
  <2> QED BY ONLY <1>3, <1>4, <1>6, <1>7, <2>1, TextGrows
<1>9. Stream' = Stream \o new /\ socket' \in Seq(PieceRecord)
  <2>1. buf \in Seq(PieceRecord) /\ socket \in Seq(PieceRecord)
    BY <1>1 DEF Types
  <2>2. socket' = socket \o new
    BY <1>2, <1>5
  <2>3. (buf \o socket) \o new = buf \o (socket \o new)
    BY ONLY <1>7, <2>1, ConcatAssociative, SMTT(20)
  <2>4. socket \o new \in Seq(PieceRecord)
    BY <1>8, <2>1, ConcatProperties
  <2> QED BY <1>2, <2>2, <2>3, <2>4 DEF Stream
<1>10. Types'
  BY <1>1, <1>2, <1>4, <1>9 DEF Types
<1>11. /\ Line' = Line \cup {Len(lines) + 1} /\ Len(lines') = Len(lines) + 1
       /\ \A n \in Line : lines'[n] = lines[n] /\ n # Len(lines) + 1 /\ n < Len(lines) + 1 /\ n \in Nat
       /\ lines'[Len(lines) + 1] = rec
  BY <1>2, <1>4 DEF Line
<1>12. Grows
  BY <1>2, <1>4, <1>11 DEF Grows
<1>13. ClientOK'
  <2>1. \A n \in Line' : lines'[n].client <= sessions
    BY <1>1, <1>3, <1>11 DEF ClientOK
  <2>2. waiting # 0 => waiting \in Line' /\ lines'[waiting].client = client
    BY <1>1, <1>11 DEF ClientOK
  <2> QED BY <1>1, <1>2, <2>1, <2>2 DEF ClientOK
<1>14. \A p \in PieceRecord : p.line \in Nat /\ p.place \in Nat
  BY DEF PieceRecord
<1>15. Stream # <<>> => 1 \in 1 .. Len(Stream) /\ Stream[1].line \in Line /\ Stream[1] \in PieceRecord
  <2> SUFFICES ASSUME Stream # <<>>
               PROVE  1 \in 1 .. Len(Stream) /\ Stream[1].line \in Line /\ Stream[1] \in PieceRecord
    OBVIOUS
  <2>1. 1 \in 1 .. Len(Stream) /\ Stream[1] \in PieceRecord
    BY <1>6, SeqFacts
  <2>2. RestFollows(Stream, 1, lines)
    BY <1>6, <2>1 DEF EndOfText
  <2> QED BY <2>1, <2>2 DEF RestFollows, Line
<1> DEFINE first == Stream'[1]
<1>16. /\ Stream' # <<>>
       /\ Stream = <<>> => first.line = Len(lines) + 1 /\ first.place = 1
       /\ Stream # <<>> => first = Stream[1] /\ first.line \in Line
  BY <1>8, <1>9, <1>15
<1>17. StreamOK'
  <2>1. first.place > 1 => lines'[first.line].len > BufSize
    <3>1. CASE Stream = <<>>
      BY <1>16, <3>1
    <3>2. CASE Stream # <<>>
      BY <1>1, <1>11, <1>16, <3>2 DEF StreamOK
    <3> QED BY <3>1, <3>2
  <2>2. EndOfText(Stream', lines', client')
    BY <1>2, <1>8, <1>9
  <2> QED BY <2>1, <2>2 DEF StreamOK
<1>18. \A n : OnItsWay(n)' <=> OnItsWay(n)
  BY <1>2 DEF OnItsWay
<1>19. ASSUME NEW i \in 1 .. Len(Stream')
       PROVE  \/ Stream'[i].line = Len(lines) + 1
              \/ \E j \in 1 .. Len(Stream) : Stream'[i] = Stream[j]
  <2>1. /\ Len(Stream) \in Nat /\ Len(new) \in Nat /\ Len(Stream \o new) = Len(Stream) + Len(new)
        /\ \A j \in 1 .. Len(Stream) + Len(new) :
             (Stream \o new)[j] = IF j <= Len(Stream) THEN Stream[j] ELSE new[j - Len(Stream)]
    BY <1>6, <1>8, ConcatProperties, SeqFacts
  <2>2. \A j \in 1 .. Len(new) : new[j] = [line |-> Len(lines) + 1, place |-> j]
    BY <1>7
  <2>3. ASSUME NEW j \in 1 .. Len(new)
        PROVE  new[j].line = Len(lines) + 1
    <3> DEFINE n == Len(lines) + 1
    <3>1. new[j] = [line |-> n, place |-> j]
      BY <2>2
    <3> HIDE DEF n
    <3>2. new[j].line = n
      BY <3>1
    <3> QED BY <3>2 DEF n
  <2>4. CASE i <= Len(Stream)
    BY <1>9, <2>1, <2>4
  <2>5. CASE i > Len(Stream)
    <3>1. i - Len(Stream) \in 1 .. Len(new) /\ ~(i <= Len(Stream))
      BY <1>9, <2>1, <2>5
    <3>2. Stream'[i] = new[i - Len(Stream)]
      BY <1>9, <2>1, <3>1
    <3> QED BY <2>3, <3>1, <3>2
  <2>6. i \in 1 .. Len(Stream) + Len(new)
    BY <1>9, <2>1
  <2>7. i <= Len(Stream) \/ i > Len(Stream)
    BY ONLY <2>1, <2>6
  <2> QED BY <2>4, <2>5, <2>7
<1>20. OrderOK'
  <2>1. ASSUME NEW n \in Nat, OnItsWay(n)
        PROVE  n \in Line' /\ \A i \in 1 .. Len(Stream') : n < Stream'[i].line
    <3>1. n \in Line /\ \A j \in 1 .. Len(Stream) : n < Stream[j].line
      BY <1>1, <2>1 DEF OrderOK, AheadOK
    <3> QED BY <1>11, <1>19, <3>1
  <2>2. waiting \in 0 .. Len(lines') /\ \A i \in 1 .. Len(Stream') : waiting < Stream'[i].line
    <3>1. waiting \in 0 .. Len(lines) /\ \A j \in 1 .. Len(Stream) : waiting < Stream[j].line
      BY <1>1 DEF OrderOK, AheadOK
    <3>2. waiting \in 0 .. Len(lines') /\ waiting < Len(lines) + 1
      BY <1>4, <1>11, <3>1
    <3> QED BY <1>19, <3>1, <3>2
  <2>3. waiting # 0 => \A n \in Nat : OnItsWay(n) => n <= waiting
    BY <1>1 DEF OrderOK, AheadOK
  <2>4. AheadOK'
    BY <1>2, <1>18, <2>1, <2>2, <2>3 DEF AheadOK
  <2>5. OnceOK' /\ DoneOK'
    BY <1>1, <1>2, <1>11 DEF OrderOK, OnceOK, DoneOK
  <2> QED BY <2>4, <2>5 DEF OrderOK
<1>21. GivenUpOK'
  <2>1. \A n \in Nat : OnItsWay(n) => n \in Line
    BY <1>1 DEF OrderOK, AheadOK
  <2> QED BY <1>1, <1>2, <1>12, <1>18, <2>1, GivenUpKept
<1>22. OwnUnlessAbandoned'
  BY <1>1, <1>2, <1>12, OwnKept
<1>23. \A c : Taken(c)' = Taken(c)
  BY <1>2 DEF Taken
<1>24. at # "ended"
  BY <1>1, <1>2 DEF ClientOK
<1>25. \A i \in DOMAIN answers : answers[i].line \in Line
  BY <1>1 DEF TakenOK
<1>26. Taken(client) \subseteq Line
  <2>1. waiting # 0 => waiting \in Line
    BY <1>1 DEF OrderOK, AheadOK, Line
  <2> QED BY <1>25, <2>1 DEF Taken
<1>27. TakenOK'
  <2>1. ASSUME NEW i \in DOMAIN answers
        PROVE  /\ answers[i].line \in Line' /\ answers[i].client <= sessions
               /\ answers[i].client = lines'[answers[i].line].client
    BY <1>1, <1>11 DEF TakenOK
  <2>2. ASSUME NEW n \in Line', lines'[n].client = client
        PROVE  n \in Taken(client) <=> \/ n < first.line
                                       \/ n = first.line /\ first.place > 1
    <3>1. CASE n \in Line
      <4>1. n \in Taken(client) <=> \/ Stream = <<>> \/ n < Stream[1].line
                                    \/ n = Stream[1].line /\ Stream[1].place > 1
        BY <1>1, <1>2, <1>11, <1>24, <2>2, <3>1 DEF TakenOK
      <4>2. CASE Stream = <<>>
        BY <1>11, <1>16, <3>1, <4>1, <4>2
      <4>3. CASE Stream # <<>>
        BY <1>16, <4>1, <4>3
      <4> QED BY <4>2, <4>3
    <3>2. CASE n = Len(lines) + 1
      <4>1. n \notin Taken(client)
        BY <1>11, <1>26, <3>2
      <4>2. CASE Stream = <<>>
        BY <1>4, <1>16, <3>2, <4>1, <4>2
      <4>3. CASE Stream # <<>>
        <5>1. first.line \in Nat /\ first.line < Len(lines) + 1
          BY <1>11, <1>16, <4>3
        <5> HIDE DEF first
        <5> QED BY <1>4, <3>2, <4>1, <5>1
      <4> QED BY <4>2, <4>3
    <3> QED BY <1>11, <3>1, <3>2
  <2> QED BY <1>2, <1>16, <1>23, <2>1, <2>2 DEF TakenOK
<1>28. AnswersInOrder'
  <2>1. ASSUME NEW c \in 1 .. sessions
        PROVE  /\ Taken(c) \subseteq {n \in Line' : lines'[n].client = c}
               /\ \A n \in Taken(c), k \in {i \in Line' : lines'[i].client = c} :
                    k < n => k \in Taken(c)
    <3>1. /\ Taken(c) \subseteq {n \in Line : lines[n].client = c}
          /\ \A n \in Taken(c), k \in {i \in Line : lines[i].client = c} : k < n => k \in Taken(c)
      BY <1>1 DEF AnswersInOrder
    <3>2. \A n \in Taken(c) : n \in Line /\ ~(Len(lines) + 1 < n)
      BY <1>4, <1>11, <3>1
    <3> QED BY <1>11, <3>1, <3>2
  <2>2. \A a, b : b \in Line => (Follows(a, b)' <=> Follows(a, b))
    BY <1>11 DEF Follows, Fits
  <2>3. \A i, j \in DOMAIN answers :
          i < j /\ answers[i].client = answers[j].client => Follows(answers[j].line, answers[i].line)'
    BY <1>1, <1>2, <1>25, <2>2 DEF AnswersInOrder
  <2>4. \A i \in DOMAIN answers :
          waiting # 0 /\ answers[i].client = client => Follows(waiting, answers[i].line)'
    BY <1>1, <1>2, <1>25, <2>2 DEF AnswersInOrder
  <2> QED BY <1>2, <1>23, <2>1, <2>3, <2>4 DEF AnswersInOrder
<1> QED BY <1>10, <1>13, <1>17, <1>20, <1>21, <1>22, <1>27, <1>28 DEF Inv

LEMMA AcceptOK ==
  ASSUME Inv, AcceptClient
  PROVE  Inv'
<1>1. /\ Types /\ ClientOK /\ StreamOK /\ OrderOK /\ GivenUpOK /\ TakenOK
      /\ OwnUnlessAbandoned /\ AnswersInOrder
  BY DEF Inv
<1>2. /\ at = "accept" /\ at' = "read" /\ ready' = ready \ {"listen"}
      /\ UNCHANGED <<then, buf, waiting, hung, socket, lines, pico, answers>>
      /\ UNCHANGED <<to_pico, to_zero, calibrating, done>>
  BY DEF AcceptClient, pico
<1>3. Stream' = Stream /\ Line' = Line
  BY <1>2 DEF Stream, Line
<1>4. CASE "listen" \in ready
  <2>1. /\ knocking' = FALSE /\ sessions' = sessions + 1 /\ sessions < MaxSessions
        /\ client' = IF client # 0 THEN client ELSE sessions'
    BY <1>1, <1>4 DEF AcceptClient, ClientOK
  <2>2. client \in Nat /\ sessions \in Nat /\ client <= sessions /\ sessions' \in Nat
    BY <1>1, <2>1 DEF Types, ClientOK
  <2>3. Types'
    BY <1>1, <1>2, <2>1, <2>2 DEF Types, pico
  <2>4. client = 0 => Stream = <<>> /\ waiting = 0
    <3>1. client = 0 => buf = <<>> /\ socket = <<>> /\ waiting = 0
      BY <1>1 DEF ClientOK
    <3>2. Len(<<>>) = 0
      OBVIOUS
    <3>3. buf = <<>> /\ socket = <<>> => Len(Stream) = 0
      BY <1>1, <3>2, StreamFacts
    <3>4. Len(Stream) = 0 => Stream = <<>>
      BY <1>1, StreamFacts, SeqFacts
    <3> QED BY <3>1, <3>3, <3>4
  <2>5. ClientOK'
    <3>1. \A n \in Line : lines[n].client <= sessions + 1
      BY <1>1, <2>2, Typed DEF ClientOK
    <3>2. MaxSessions \in Nat
      BY RequestsAssumption
    <3> QED BY <1>1, <1>2, <1>3, <2>1, <2>2, <2>4, <3>1, <3>2 DEF ClientOK
  <2>6. StreamOK'
    <3>1. CASE client # 0
      BY <1>1, <1>2, <1>3, <2>1, <3>1, StreamKept
    <3>2. CASE client = 0
      <4>1. Stream = <<>> /\ Len(Stream) = 0
        BY <2>4, <3>2
      <4> QED BY <1>3, <4>1 DEF StreamOK, EndOfText
    <3> QED BY <3>1, <3>2
  <2>7. OrderOK'
    BY <1>1, <1>2, <1>3, OrderKept
  <2>8. Grows
    BY <1>1, <1>2, <2>1, Typed DEF Grows
  <2>9. GivenUpOK'
    <3>1. \A n : OnItsWay(n)' <=> OnItsWay(n)
      BY <1>2 DEF OnItsWay
    <3>2. \A n \in Nat : OnItsWay(n) => n \in Line
      BY <1>1 DEF OrderOK, AheadOK
    <3> QED BY <1>1, <1>2, <2>8, <3>1, <3>2, GivenUpKept
  <2>10. OwnUnlessAbandoned'
    BY <1>1, <1>2, <2>8, OwnKept
  <2>11. \A i \in DOMAIN answers : /\ answers[i].line \in Line
                                   /\ answers[i].client <= sessions
                                   /\ answers[i].client = lines[answers[i].line].client
    BY <1>1 DEF TakenOK
  <2>12. CASE client # 0
    <3>1. client' = client /\ \A c : Taken(c)' = Taken(c)
      BY <1>2, <2>1, <2>12 DEF Taken
    <3>2. TakenOK'
      <4>1. \A i \in DOMAIN answers : answers[i].client <= sessions + 1
        BY <1>1, <2>2, <2>11, Typed DEF AnswerRecord
      <4> QED BY <1>1, <1>2, <1>3, <2>1, <2>11, <3>1, <4>1 DEF TakenOK
    <3>3. \A a, b : Follows(a, b)' <=> Follows(a, b)
      BY <1>2 DEF Follows, Fits
    <3>4. ASSUME NEW c \in 1 .. sessions + 1
          PROVE  /\ Taken(c) \subseteq {n \in Line : lines[n].client = c}
                 /\ \A n \in Taken(c), m \in {i \in Line : lines[i].client = c} :
                      m < n => m \in Taken(c)
      <4>1. CASE c \in 1 .. sessions
        BY <1>1, <4>1 DEF AnswersInOrder
      <4>2. CASE c = sessions + 1
        <5>1. \A i \in DOMAIN answers : answers[i].client # c
          BY <1>1, <2>2, <2>11, <4>2, Typed DEF AnswerRecord
        <5>2. Taken(c) = {}
          BY <2>2, <4>2, <5>1 DEF Taken
        <5> QED BY <5>2
      <4> QED BY <2>2, <4>1, <4>2
    <3>5. AnswersInOrder'
      BY <1>1, <1>2, <1>3, <2>1, <3>1, <3>3, <3>4 DEF AnswersInOrder
    <3> QED BY <2>3, <2>5, <2>6, <2>7, <2>9, <2>10, <3>2, <3>5 DEF Inv
  <2>13. CASE client = 0
    <3>1. client' = sessions + 1 /\ waiting = 0 /\ Stream = <<>>
      BY <2>1, <2>4, <2>13
    <3>2. \A c : Taken(c)' = Taken(c)
      BY <1>2, <3>1 DEF Taken
    <3>3. \A n \in Line : lines[n].client # sessions + 1
      BY <1>1, <2>2, Typed DEF ClientOK
    <3>4. TakenOK'
      <4>1. \A i \in DOMAIN answers : answers[i].client <= sessions + 1
        BY <1>1, <2>2, <2>11, Typed DEF AnswerRecord
      <4> QED BY <1>1, <1>2, <1>3, <2>1, <2>11, <3>1, <3>3, <4>1 DEF TakenOK
    <3>5. \A a, b : Follows(a, b)' <=> Follows(a, b)
      BY <1>2 DEF Follows, Fits
    <3>6. ASSUME NEW c \in 1 .. sessions + 1
          PROVE  /\ Taken(c) \subseteq {n \in Line : lines[n].client = c}
                 /\ \A n \in Taken(c), m \in {i \in Line : lines[i].client = c} :
                      m < n => m \in Taken(c)
      <4>1. CASE c \in 1 .. sessions
        BY <1>1, <4>1 DEF AnswersInOrder
      <4>2. CASE c = sessions + 1
        <5>1. \A i \in DOMAIN answers : answers[i].client # c
          BY <1>1, <2>2, <2>11, <4>2, Typed DEF AnswerRecord
        <5>2. Taken(c) = {}
          BY <3>1, <5>1 DEF Taken
        <5> QED BY <5>2
      <4> QED BY <2>2, <4>1, <4>2
    <3>7. \A i, j \in DOMAIN answers :
            i < j /\ answers[i].client = answers[j].client => Follows(answers[j].line, answers[i].line)
      BY <1>1 DEF AnswersInOrder
    <3>8. AnswersInOrder'
      BY <1>2, <1>3, <2>1, <3>1, <3>2, <3>5, <3>6, <3>7 DEF AnswersInOrder
    <3> QED BY <2>3, <2>5, <2>6, <2>7, <2>9, <2>10, <3>4, <3>8 DEF Inv
  <2> QED BY <2>12, <2>13
<1>5. CASE "listen" \notin ready
  <2>1. UNCHANGED <<client, knocking, sessions>>
    BY <1>5 DEF AcceptClient
  <2>2. Types'
    BY <1>1, <1>2, <2>1 DEF Types, pico
  <2>3. ClientOK'
    BY <1>1, <1>2, <1>3, <1>5, <2>1 DEF ClientOK
  <2> QED BY <1>2, <1>3, <2>1, <2>2, <2>3, QuietStep
<1> QED BY <1>4, <1>5

\* The request that waits is forgotten without an answer.
LEMMA ForgottenInOrder ==
  ASSUME Types, TakenOK, AnswersInOrder, UNCHANGED <<answers, lines, sessions>>, waiting' = 0
  PROVE  AnswersInOrder'
<1> DEFINE To(c) == {answers[i].line : i \in {i \in DOMAIN answers : answers[i].client = c}}
<1>1. Line' = Line /\ \A a, b : Follows(a, b)' <=> Follows(a, b)
  BY DEF Line, Follows, Fits
<1>2. \A c : Taken(c)' = To(c)
  BY DEF Taken
<1>3. ASSUME NEW c \in 1 .. sessions
      PROVE  /\ To(c) \subseteq {n \in Line : lines[n].client = c}
             /\ \A n \in To(c), m \in {i \in Line : lines[i].client = c} : m < n => m \in To(c)
  <2>1. Taken(c) = To(c) \cup {n \in {waiting} : c = client /\ n # 0}
    BY DEF Taken
  <2>2. /\ Taken(c) \subseteq {n \in Line : lines[n].client = c}
        /\ \A n \in Taken(c), m \in {i \in Line : lines[i].client = c} : m < n => m \in Taken(c)
    BY DEF AnswersInOrder
  <2>3. ASSUME NEW n \in To(c), waiting # 0, c = client
        PROVE  ~(waiting < n)
    <3>1. PICK i \in DOMAIN answers : answers[i].client = c /\ answers[i].line = n
      OBVIOUS
    <3>2. Follows(waiting, n)
      BY <2>3, <3>1 DEF AnswersInOrder
    <3>3. n \in Nat /\ waiting \in Nat
      BY <2>1, <2>2, Typed DEF Types
    <3> QED BY <3>2, <3>3 DEF Follows
  <2> HIDE DEF To
  <2> QED BY <2>1, <2>2, <2>3
<1>4. \A i, j \in DOMAIN answers :
        i < j /\ answers[i].client = answers[j].client => Follows(answers[j].line, answers[i].line)
  BY DEF AnswersInOrder
<1> HIDE DEF To
<1> QED BY <1>1, <1>2, <1>3, <1>4 DEF AnswersInOrder

LEMMA CloseOK ==
  ASSUME Inv, CloseClient, client # 0, ready' = {},
         UNCHANGED <<knocking, sessions, lines, pico, answers>>, at = "read"
  PROVE  Inv'
<1>1. /\ Types /\ ClientOK /\ StreamOK /\ OrderOK /\ GivenUpOK /\ TakenOK
      /\ OwnUnlessAbandoned /\ AnswersInOrder
  BY DEF Inv
<1>2. /\ client' = 0 /\ buf' = <<>> /\ waiting' = 0 /\ socket' = <<>> /\ hung' = FALSE
      /\ at' = "timeout" /\ then' = then
      /\ UNCHANGED <<to_pico, to_zero, calibrating, done>>
  BY DEF CloseClient, Forget, pico
<1>3. <<>> \in Seq(PieceRecord) /\ Len(<<>>) = 0
  OBVIOUS
<1>4. Types'
  <2>1. /\ buf' \in Seq(PieceRecord) /\ Len(buf') <= BufSize
        /\ socket' \in Seq(PieceRecord)
    BY <1>2, <1>3, RequestsAssumption
  <2> QED BY <1>1, <1>2, <2>1 DEF Types, pico
<1>5. Stream' = <<>> /\ Len(Stream') = 0
  BY <1>2, <1>3 DEF Stream
<1>6. Line' = Line
  BY DEF Line
<1>7. ClientOK'
  <2>1. client' <= sessions
    BY <1>1, <1>2 DEF Types
  <2> QED BY <1>1, <1>2, <1>6, <2>1 DEF ClientOK
<1>8. StreamOK'
  BY <1>5 DEF StreamOK, EndOfText
<1>9. OrderOK'
  BY <1>1, <1>2, <1>5, OrderKept
<1>10. Grows
  BY <1>1, <1>2, Typed DEF Grows
<1>11. GivenUpOK'
  <2>1. \A n : OnItsWay(n)' <=> OnItsWay(n)
    BY <1>2 DEF OnItsWay
  <2>2. \A n \in Nat : OnItsWay(n) => n \in Line
    BY <1>1 DEF OrderOK, AheadOK
  <2>3. ASSUME NEW n \in Line
        PROVE  GivenUp(n)'
    <3>1. n \in 1 .. n /\ lines[n].client # 0
      BY <1>1, Typed
    <3>2. Abandoned(n)'
      BY <1>2, <3>1 DEF Abandoned
    <3> QED BY <3>1, <3>2 DEF GivenUp
  <2> QED BY <1>1, <1>2, <1>10, <2>1, <2>2, <2>3, GivenUpKept
<1>12. TakenOK'
  BY <1>1, <1>2, <1>6 DEF TakenOK
<1>13. AnswersInOrder'
  BY <1>1, <1>2, ForgottenInOrder
<1>14. OwnUnlessAbandoned'
  BY <1>1, <1>10, OwnKept
<1> QED BY <1>4, <1>7, <1>8, <1>9, <1>11, <1>12, <1>13, <1>14 DEF Inv

LEMMA ReadOK ==
  ASSUME Inv, ReadClient
  PROVE  Inv'
<1>1. Types /\ ClientOK
  BY DEF Inv
<1> DEFINE room == BufSize - Len(buf)
<1>2. /\ at = "read" /\ client # 0 /\ ready' = {}
      /\ UNCHANGED <<knocking, sessions, lines, pico, answers>>
      /\ \/ CloseClient
         \/ \E n \in 1 .. room :
              /\ n <= Len(socket)
              /\ buf' = buf \o SubSeq(socket, 1, n)
              /\ socket' = SubSeq(socket, n + 1, Len(socket))
              /\ at' = "process" /\ then' = "timeout"
              /\ UNCHANGED <<client, waiting, hung>>
  BY DEF ReadClient, Process
<1>3. CASE CloseClient
  BY <1>2, <1>3, CloseOK
<1>4. CASE \E n \in 1 .. room :
              /\ n <= Len(socket)
              /\ buf' = buf \o SubSeq(socket, 1, n)
              /\ socket' = SubSeq(socket, n + 1, Len(socket))
              /\ at' = "process" /\ then' = "timeout"
              /\ UNCHANGED <<client, waiting, hung>>
  <2>1. PICK n \in 1 .. room :
              /\ n <= Len(socket)
              /\ buf' = buf \o SubSeq(socket, 1, n)
              /\ socket' = SubSeq(socket, n + 1, Len(socket))
              /\ at' = "process" /\ then' = "timeout"
              /\ UNCHANGED <<client, waiting, hung>>
    BY <1>4
  <2> DEFINE h == SubSeq(socket, 1, n)
             r == SubSeq(socket, n + 1, Len(socket))
  <2>2. buf \in Seq(PieceRecord) /\ socket \in Seq(PieceRecord)
    BY <1>1 DEF Types
  <2>3. /\ Len(buf) \in Nat /\ Len(socket) \in Nat /\ n \in Nat /\ 1 <= n /\ n <= Len(socket)
        /\ Len(buf) + n <= BufSize
    BY <2>1, <2>2, SeqFacts, RequestsAssumption
  <2>4. r \in Seq(PieceRecord) /\ IsRest(r, socket, n)
    BY <2>2, <2>3, SubSeqRest
  <2>5. h \in Seq(PieceRecord) /\ Len(h) = n /\ \A i \in 1 .. n : h[i] = socket[i]
    <3>1. \A i \in 1 .. n : socket[i] \in PieceRecord
      BY <2>2, <2>3, SeqFacts
    <3>2. /\ h \in Seq(PieceRecord) /\ Len(h) = IF 1 <= n THEN n - 1 + 1 ELSE 0
          /\ \A i \in 1 .. n - 1 + 1 : h[i] = socket[1 + i - 1]
      BY <2>3, <3>1, SubSeqProperties
    <3> QED BY <2>3, <3>2
  <2>6. buf' = buf \o h /\ socket' = r
    BY <2>1
  <2> HIDE DEF h, r
  <2>7. h \o r = socket
    <3>1. /\ h \o r \in Seq(PieceRecord) /\ Len(h \o r) = Len(h) + Len(r)
          /\ \A i \in 1 .. Len(h) + Len(r) : (h \o r)[i] = IF i <= Len(h) THEN h[i] ELSE r[i - Len(h)]
      BY ONLY <2>4, <2>5, ConcatProperties
    <3>2. Len(h \o r) = Len(socket) /\ Len(r) = Len(socket) - n
      BY <2>3, <2>4, <2>5, <3>1 DEF IsRest
    <3>3. ASSUME NEW i \in 1 .. Len(socket)
          PROVE  (h \o r)[i] = socket[i]
      <4>1. CASE i <= n
        <5>1. i \in 1 .. n /\ i \in 1 .. Len(h) + Len(r)
          BY <2>3, <2>5, <3>2, <4>1
        <5> QED BY <2>5, <3>1, <4>1, <5>1
      <4>2. CASE ~(i <= n)
        <5>1. i - n \in 1 .. Len(r) /\ (i - n) + n = i /\ i \in 1 .. Len(h) + Len(r)
          BY <2>3, <2>5, <3>2, <4>2
        <5>2. r[i - n] = socket[i]
          BY <2>4, <5>1 DEF IsRest
        <5> QED BY <2>5, <3>1, <4>2, <5>1, <5>2
      <4> QED BY <4>1, <4>2
    <3> QED BY <2>2, <3>1, <3>2, <3>3, SeqEqual
  <2>8. Stream' = Stream
    <3>1. buf \in Seq(PieceRecord) /\ h \in Seq(PieceRecord) /\ r \in Seq(PieceRecord)
      BY <2>2, <2>4, <2>5
    <3>2. (buf \o h) \o r = buf \o (h \o r)
      BY ONLY <3>1, ConcatAssociative
    <3> QED BY <2>6, <2>7, <3>2 DEF Stream
  <2>9. buf' \in Seq(PieceRecord) /\ Len(buf') = Len(buf) + n
    <3>1. buf \o h \in Seq(PieceRecord) /\ Len(buf \o h) = Len(buf) + Len(h)
      BY ONLY <2>2, <2>5, ConcatProperties
    <3> QED BY <2>5, <2>6, <3>1
  <2>10. Types'
    BY <1>1, <1>2, <2>1, <2>3, <2>4, <2>6, <2>9 DEF Types, pico
  <2>11. ClientOK'
    BY <1>1, <1>2, <2>1 DEF ClientOK, Line
  <2> QED BY <1>2, <2>1, <2>8, <2>10, <2>11, QuietStep
<1> QED BY <1>2, <1>3, <1>4

-----------------------------------------------------------------------------
(* Answers.                                                                 *)

\* One more answer, in its turn.
LEMMA MoreInOrder ==
  ASSUME Types, ClientOK, TakenOK, AnswersInOrder,
         NEW a \in AnswerRecord, a.client = client, a.line \in Line, lines[a.line].client = client,
         answers' = Append(answers, a), UNCHANGED <<client, lines, sessions>>,
         waiting \in {0, a.line}, waiting' = 0,
         \A i \in DOMAIN answers : answers[i].client = client => Follows(a.line, answers[i].line),
         \A m \in Line : lines[m].client = client /\ m < a.line => m \in Taken(client)
  PROVE  /\ AnswersInOrder'
         /\ Taken(client)' = Taken(client) \cup {a.line}
         /\ \A i \in DOMAIN answers' :
              /\ answers'[i].line \in Line' /\ answers'[i].client <= sessions'
              /\ answers'[i].client = lines'[answers'[i].line].client
<1> DEFINE l == Len(answers)
           To(c) == {answers[i].line : i \in {i \in DOMAIN answers : answers[i].client = c}}
<1>1. answers \in Seq(AnswerRecord)
  BY DEF Types
<1>2. /\ DOMAIN answers' = 1 .. l + 1 /\ DOMAIN answers = 1 .. l /\ l \in Nat
      /\ answers'[l + 1] = a
      /\ \A i \in 1 .. l : answers'[i] = answers[i]
  <2>1. /\ Append(answers, a) \in Seq(AnswerRecord)
        /\ Len(Append(answers, a)) = l + 1 /\ l \in Nat
        /\ \A i \in 1 .. l : Append(answers, a)[i] = answers[i]
        /\ Append(answers, a)[l + 1] = a
    BY <1>1, AppendFacts
  <2>2. DOMAIN Append(answers, a) = 1 .. Len(Append(answers, a)) /\ DOMAIN answers = 1 .. l
    BY <1>1, <2>1, SeqFacts
  <2> QED BY <2>1, <2>2
<1> HIDE DEF l
<1>3. /\ Line' = Line /\ (\A m, n : Follows(m, n)' <=> Follows(m, n))
      /\ client \in 1 .. sessions
  <2>1. client # 0 /\ client <= sessions /\ client \in Nat /\ sessions \in Nat
    BY Typed DEF ClientOK, Types
  <2> QED BY <2>1 DEF Line, Follows, Fits
<1>4. \A i \in DOMAIN answers' : \/ i = l + 1 /\ answers'[i] = a
                                 \/ i \in DOMAIN answers /\ answers'[i] = answers[i] /\ i < l + 1
  BY <1>2
<1>5. \A c : Taken(c) = To(c) \cup {n \in {waiting} : c = client /\ n # 0}
  BY DEF Taken
<1>6. \A c : Taken(c)' = To(c) \cup {n \in {a.line} : c = client}
  <2> TAKE c
  <2>1. \A n \in Taken(c)' : n \in To(c) \/ (n = a.line /\ c = client)
    BY <1>4 DEF Taken
  <2>2. \A n \in To(c) : n \in Taken(c)'
    BY <1>2, <1>4 DEF Taken
  <2>3. c = client => a.line \in Taken(c)'
    <3>1. l + 1 \in DOMAIN answers' /\ answers'[l + 1] = a
      BY <1>2
    <3> QED BY <3>1 DEF Taken
  <2> HIDE DEF To
  <2> QED BY <2>1, <2>2, <2>3
<1> HIDE DEF To
<1>7. Taken(client)' = Taken(client) \cup {a.line}
  <2>1. a.line # 0
    BY Typed
  <2>2. Taken(client)' = To(client) \cup {a.line}
    BY <1>6
  <2> QED BY <1>5, <2>1, <2>2
<1>8. \A c : c # client => Taken(c)' = Taken(c)
  BY <1>5, <1>6
<1>9. ASSUME NEW c \in 1 .. sessions
      PROVE  /\ Taken(c)' \subseteq {n \in Line : lines[n].client = c}
             /\ \A n \in Taken(c)', m \in {i \in Line : lines[i].client = c} : m < n => m \in Taken(c)'
  <2>1. /\ Taken(c) \subseteq {n \in Line : lines[n].client = c}
        /\ \A n \in Taken(c), m \in {i \in Line : lines[i].client = c} : m < n => m \in Taken(c)
    BY DEF AnswersInOrder
  <2>2. CASE c # client
    BY <1>8, <2>1, <2>2
  <2>3. CASE c = client
    BY <1>7, <2>1, <2>3
  <2> QED BY <2>2, <2>3
<1>10. ASSUME NEW i \in DOMAIN answers', NEW j \in DOMAIN answers',
              i < j, answers'[i].client = answers'[j].client
       PROVE  Follows(answers'[j].line, answers'[i].line)
  <2>1. i \in DOMAIN answers /\ answers'[i] = answers[i]
    BY <1>2, <1>4, <1>10
  <2>2. CASE j = l + 1 /\ answers'[j] = a
    BY <1>10, <2>1, <2>2
  <2>3. CASE j \in DOMAIN answers /\ answers'[j] = answers[j]
    BY <1>10, <2>1, <2>3 DEF AnswersInOrder
  <2> QED BY <1>4, <2>2, <2>3
<1>11. AnswersInOrder'
  BY <1>3, <1>9, <1>10 DEF AnswersInOrder
<1>12. \A i \in DOMAIN answers' :
         /\ answers'[i].line \in Line /\ answers'[i].client <= sessions
         /\ answers'[i].client = lines[answers'[i].line].client
  BY <1>3, <1>4 DEF TakenOK
<1> QED BY <1>3, <1>7, <1>11, <1>12

\* The lines in front of the stream and those that have an answer.
LEMMA FrontOfStream ==
  ASSUME Types, StreamOK, TakenOK, Stream # <<>>, at # "ended", client # 0
  PROVE  LET n == Stream[1].line
         IN  /\ n \in Line /\ lines[n].client = client
             /\ \A i \in DOMAIN answers : answers[i].client = client => Follows(n, answers[i].line)
             /\ \A m \in Line : lines[m].client = client /\ m < n => m \in Taken(client)
             /\ \A m \in Line : lines[m].client = client => (m \in Taken(client) \cup {n} <=> m <= n)
<1> DEFINE n == Stream[1].line
           p == Stream[1].place
<1>1. Stream \in Seq(PieceRecord) /\ lines \in Seq(LineRecord) /\ EndOfText(Stream, lines, client)
  BY StreamFacts DEF StreamOK, Types
<1>2. n \in Line /\ lines[n].client = client /\ n \in Nat
  <2>1. 1 \in 1 .. Len(Stream)
    BY <1>1, SeqFacts
  <2>2. RestFollows(Stream, 1, lines) /\ lines[n].client = client
    BY <1>1, <2>1 DEF EndOfText
  <2>3. n \in 1 .. Len(lines)
    BY <2>2 DEF RestFollows
  <2> QED BY <2>2, <2>3, Typed DEF Line
<1>3. \A m \in Line : lines[m].client = client => (m \in Taken(client) <=> m < n \/ (m = n /\ p > 1))
  BY DEF TakenOK
<1>4. p > 1 => ~Fits(n)
  BY Typed, RequestsAssumption, <1>2 DEF StreamOK, Fits
<1> HIDE DEF n, p
<1>5. ASSUME NEW i \in DOMAIN answers, answers[i].client = client
      PROVE  Follows(n, answers[i].line)
  <2>1. /\ answers[i].line \in Taken(client) /\ answers[i].line \in Line
        /\ lines[answers[i].line].client = client
    BY <1>5 DEF Taken, TakenOK
  <2> QED BY <1>3, <1>4, <2>1 DEF Follows
<1>6. \A m \in Line : m \in Nat
  BY Typed
<1>7. \A m \in Line : lines[m].client = client => (m \in Taken(client) \cup {n} <=> m <= n)
  BY <1>2, <1>3, <1>6
<1> QED BY <1>2, <1>3, <1>5, <1>7 DEF n, p

\* The request that waits is answered.
LEMMA WaitingAnswered ==
  ASSUME Types, ClientOK, TakenOK, AnswersInOrder, waiting # 0, at # "ended",
         NEW a \in AnswerRecord, a.client = client, a.line = waiting,
         answers' = Append(answers, a), UNCHANGED <<client, lines, sessions>>,
         waiting' = 0, Stream' = Stream
  PROVE  TakenOK' /\ AnswersInOrder'
<1>1. client # 0 /\ waiting \in Line /\ lines[waiting].client = client /\ waiting \in Nat
  BY DEF ClientOK, Types
<1>2. client \in 1 .. sessions /\ waiting \in Taken(client)
  <2>1. client \in Nat /\ sessions \in Nat /\ client <= sessions
    BY DEF ClientOK, Types
  <2> QED BY <1>1, <2>1 DEF Taken
<1>3. \A i \in DOMAIN answers : answers[i].client = client => Follows(a.line, answers[i].line)
  BY DEF AnswersInOrder
<1>4. \A m \in Line : lines[m].client = client /\ m < a.line => m \in Taken(client)
  BY <1>1, <1>2 DEF AnswersInOrder
<1>5. /\ AnswersInOrder' /\ Taken(client)' = Taken(client) \cup {a.line}
      /\ \A i \in DOMAIN answers' :
           /\ answers'[i].line \in Line' /\ answers'[i].client <= sessions'
           /\ answers'[i].client = lines'[answers'[i].line].client
  BY <1>1, <1>3, <1>4, MoreInOrder
<1>6. Taken(client)' = Taken(client) /\ Line' = Line /\ client' = client
  BY <1>2, <1>5 DEF Line
<1>7. \A n \in Line : lines[n].client = client =>
        (n \in Taken(client) <=>
           \/ Stream = <<>> \/ n < Stream[1].line
           \/ n = Stream[1].line /\ Stream[1].place > 1)
  BY <1>1 DEF TakenOK
<1> QED BY <1>5, <1>6, <1>7 DEF TakenOK

\* A line in front of the stream is answered at once with an error: k pieces
\* are left out of the stream.
LEMMA FrontAnswered ==
  ASSUME Inv, at # "ended", waiting = 0, Stream # <<>>, client # 0,
         NEW next, next # "ended", SocketAnswer(Stream[1].line, "error", 0, next),
         UNCHANGED <<client, ready, clients, pico>>, Types', StreamOK',
         NEW k, IsRest(Stream', Stream, k),
         \A m \in Line : m <= Stream[1].line <=>
           \/ Stream' = <<>> \/ m < Stream'[1].line
           \/ m = Stream'[1].line /\ Stream'[1].place > 1
  PROVE  Inv'
<1>1. /\ Types /\ ClientOK /\ StreamOK /\ OrderOK /\ GivenUpOK /\ TakenOK
      /\ OwnUnlessAbandoned /\ AnswersInOrder
  BY DEF Inv
<1>2. /\ UNCHANGED <<client, ready, hung, knocking, sessions, lines>>
      /\ UNCHANGED <<to_pico, to_zero, calibrating, done>>
      /\ waiting' = 0 /\ at' = IF hung THEN "ended" ELSE next
  BY DEF clients, pico, SocketAnswer
<1> DEFINE n == Stream[1].line
<1>13. PICK a : a = [client |-> client, line |-> n, text |-> "error", from |-> 0]
  OBVIOUS
<1>3. answers' = IF hung THEN answers ELSE Append(answers, a)
  BY <1>13 DEF SocketAnswer
<1>4. /\ n \in Line /\ lines[n].client = client
      /\ \A i \in DOMAIN answers : answers[i].client = client => Follows(n, answers[i].line)
      /\ \A m \in Line : lines[m].client = client /\ m < n => m \in Taken(client)
      /\ \A m \in Line : lines[m].client = client => (m \in Taken(client) \cup {n} <=> m <= n)
  BY <1>1, FrontOfStream
<1>5. /\ a \in AnswerRecord /\ a.client = client /\ a.line = n /\ a.text = "error" /\ a.from = 0
  BY <1>1, <1>4, <1>13, Typed DEF AnswerRecord, Types
<1>6. Line' = Line
  BY <1>2 DEF Line
<1>7. ClientOK'
  <2>1. at' = "ended" => hung
    BY <1>2
  <2> QED BY <1>1, <1>2, <1>6, <2>1 DEF ClientOK
<1> HIDE DEF n
<1>8. OrderOK'
  <2>1. \A i \in 1 .. Len(Stream') : \E j \in 1 .. Len(Stream) : Stream'[i] = Stream[j]
    <3> TAKE i \in 1 .. Len(Stream')
    <3>1. Len(Stream) \in Nat
      BY <1>1, StreamFacts
    <3>2. i + k \in 1 .. Len(Stream) /\ Stream'[i] = Stream[i + k]
      BY <3>1 DEF IsRest
    <3> QED BY <3>2
  <2> QED BY <1>1, <1>2, <2>1, OrderKept
<1>9. Grows
  <2>1. CASE hung
    BY <1>1, <1>2, <1>3, <2>1, Typed DEF Grows
  <2>2. CASE ~hung
    <3>1. /\ answers \in Seq(AnswerRecord) /\ answers' = Append(answers, a)
      BY <1>1, <1>3, <2>2 DEF Types
    <3>2. /\ answers' \in Seq(AnswerRecord) /\ Len(answers') = Len(answers) + 1 /\ Len(answers) \in Nat
          /\ \A i \in 1 .. Len(answers) : answers'[i] = answers[i]
      BY <1>5, <3>1, AppendFacts
    <3>3. DOMAIN answers' = 1 .. Len(answers') /\ DOMAIN answers = 1 .. Len(answers)
      BY <3>1, <3>2, SeqFacts
    <3> QED BY <1>1, <1>2, <3>2, <3>3, Typed DEF Grows
  <2> QED BY <2>1, <2>2
<1>10. GivenUpOK'
  <2>1. \A m : OnItsWay(m)' <=> OnItsWay(m)
    BY <1>2 DEF OnItsWay
  <2>2. \A m \in Nat : OnItsWay(m) => m \in Line
    BY <1>1 DEF OrderOK, AheadOK
  <2> QED BY <1>1, <1>2, <1>9, <2>1, <2>2, GivenUpKept
<1>11. CASE hung
  <2>1. answers' = answers /\ at' = "ended"
    BY <1>2, <1>3, <1>11
  <2>2. TakenOK'
    BY <1>1, <1>2, <1>6, <2>1 DEF TakenOK
  <2>3. AnswersInOrder'
    BY <1>1, <1>2, <2>1, ForgottenInOrder
  <2>4. OwnUnlessAbandoned'
    BY <1>1, <1>9, <2>1, OwnKept
  <2> QED BY <1>7, <1>8, <1>10, <2>2, <2>3, <2>4 DEF Inv
<1>12. CASE ~hung
  <2>1. answers' = Append(answers, a)
    BY <1>3, <1>12
  <2>2. /\ AnswersInOrder' /\ Taken(client)' = Taken(client) \cup {n}
        /\ \A i \in DOMAIN answers' :
             /\ answers'[i].line \in Line' /\ answers'[i].client <= sessions'
             /\ answers'[i].client = lines'[answers'[i].line].client
    BY <1>1, <1>2, <1>4, <1>5, <2>1, MoreInOrder
  <2>3. \A m \in Line : m <= n <=>
           \/ Stream' = <<>> \/ m < Stream'[1].line
           \/ m = Stream'[1].line /\ Stream'[1].place > 1
    BY DEF n
  <2>4. TakenOK'
    BY <1>2, <1>4, <1>6, <2>2, <2>3 DEF TakenOK
  <2>5. OwnAnswer(a)'
    BY <1>5 DEF OwnAnswer
  <2>6. OwnUnlessAbandoned'
    BY <1>1, <1>5, <1>9, <2>1, <2>5, OwnMore
  <2> QED BY <1>7, <1>8, <1>10, <2>2, <2>4, <2>6 DEF Inv
<1> QED BY <1>11, <1>12

\* The answer to a request that waits, or none because the client is gone.
LEMMA AnswerGrows ==
  ASSUME Types, NEW a \in AnswerRecord, answers' = answers \/ answers' = Append(answers, a),
         UNCHANGED <<client, lines>>, done \subseteq done'
  PROVE  Grows
<1>1. CASE answers' = answers
  BY <1>1, Typed DEF Grows
<1>2. CASE answers' = Append(answers, a)
  <2>1. answers \in Seq(AnswerRecord)
    BY DEF Types
  <2>2. /\ answers' \in Seq(AnswerRecord) /\ Len(answers') = Len(answers) + 1 /\ Len(answers) \in Nat
        /\ \A i \in 1 .. Len(answers) : answers'[i] = answers[i]
    BY <1>2, <2>1, AppendFacts
  <2>3. DOMAIN answers' = 1 .. Len(answers') /\ DOMAIN answers = 1 .. Len(answers)
    BY <2>1, <2>2, SeqFacts
  <2> QED BY <2>2, <2>3, Typed DEF Grows
<1> QED BY <1>1, <1>2

LEMMA WaitingDone ==
  ASSUME Inv, waiting # 0, at # "ended", waiting' = 0,
         NEW a \in AnswerRecord, a.client = client, a.line = waiting,
         answers' = IF hung THEN answers ELSE Append(answers, a),
         NEW next, next # "ended", at' = IF hung THEN "ended" ELSE next,
         UNCHANGED <<client, ready, hung, knocking, sessions, lines, done>>,
         Types', OrderOK', \A n \in Nat : OnItsWay(n)' => OnItsWay(n),
         ~hung => OwnAnswer(a)',
         NEW w, w = waiting, ~hung /\ OnItsWay(w)' => GivenUp(w)',
         buf' = buf, socket' = socket
  PROVE  Inv'
<1>1. /\ Types /\ ClientOK /\ StreamOK /\ OrderOK /\ GivenUpOK /\ TakenOK
      /\ OwnUnlessAbandoned /\ AnswersInOrder
  BY DEF Inv
<1>2. Line' = Line /\ Stream' = Stream
  BY DEF Line, Stream
<1>3. ClientOK'
  <2>1. at' = "ended" => hung
    OBVIOUS
  <2> QED BY <1>1, <1>2, <2>1 DEF ClientOK
<1>4. StreamOK'
  BY <1>1, <1>2, StreamKept
<1>5. Grows
  BY <1>1, AnswerGrows
<1>6. GivenUpOK'
  <2>1. \A n \in Nat : OnItsWay(n)' => n \in Line
    BY <1>1 DEF OrderOK, AheadOK
  <2>2. \A n \in Line : n \in Nat
    BY <1>1, Typed
  <2>3. ASSUME NEW n \in Line, OnItsWay(n)', at' # "ended"
        PROVE  (OnItsWay(n) /\ n # waiting) \/ GivenUp(n)'
    BY <2>2, <2>3
  <2> QED BY <1>1, <1>5, <2>1, <2>3, GivenUpKept
<1>7. CASE hung
  <2>1. answers' = answers /\ at' = "ended"
    BY <1>7
  <2>2. TakenOK'
    BY <1>1, <1>2, <2>1 DEF TakenOK
  <2>3. AnswersInOrder'
    BY <1>1, <2>1, ForgottenInOrder
  <2>4. OwnUnlessAbandoned'
    BY <1>1, <1>5, <2>1, OwnKept
  <2> QED BY <1>3, <1>4, <1>6, <2>2, <2>3, <2>4 DEF Inv
<1>8. CASE ~hung
  <2>1. answers' = Append(answers, a)
    BY <1>8
  <2>2. TakenOK' /\ AnswersInOrder'
    BY <1>1, <1>2, <2>1, WaitingAnswered
  <2>3. OwnUnlessAbandoned'
    BY <1>1, <1>5, <1>8, <2>1, OwnMore
  <2> QED BY <1>3, <1>4, <1>6, <2>2, <2>3 DEF Inv
<1> QED BY <1>7, <1>8

LEMMA TimeoutOK ==
  ASSUME Inv, Timeout
  PROVE  Inv'
<1>1. Types /\ ClientOK /\ OrderOK
  BY DEF Inv
<1>2. PICK w : w = waiting
  OBVIOUS
<1>3. PICK a : a = [client |-> client, line |-> w, text |-> "timeout", from |-> 0]
  OBVIOUS
<1>4. /\ client # 0 /\ client \in Nat /\ w \in Line /\ w \in Nat /\ w # 0 /\ waiting # 0
  BY <1>1, <1>2 DEF ClientOK, Timeout, Types
<1>5. /\ at = "timeout" /\ then' = "poll" /\ waiting' = 0
      /\ at' = IF hung THEN "ended" ELSE "process"
      /\ answers' = IF hung THEN answers ELSE Append(answers, a)
      /\ UNCHANGED <<ready, client, buf>> /\ UNCHANGED <<hung, knocking, sessions, socket, lines>>
      /\ UNCHANGED <<to_pico, to_zero, calibrating, done>>
  BY <1>2, <1>3, <1>4 DEF Timeout, SocketAnswer, clients, pico
<1>6. a \in AnswerRecord /\ a.client = client /\ a.line = w /\ a.text = "timeout" /\ a.from = 0
  BY <1>3, <1>4 DEF AnswerRecord
<1>7. Stream' = Stream
  BY <1>5 DEF Stream
<1>8. Types'
  <2>1. answers' \in Seq(AnswerRecord)
    <3>1. answers \in Seq(AnswerRecord)
      BY <1>1 DEF Types
    <3> QED BY <1>5, <1>6, <3>1, AppendFacts
  <2> QED BY <1>1, <1>5, <2>1 DEF Types
<1>9. OrderOK'
  BY <1>1, <1>5, <1>7, OrderKept
<1>10. \A n : OnItsWay(n)' => OnItsWay(n)
  BY <1>5 DEF OnItsWay
<1>11. OwnAnswer(a)'
  BY <1>6 DEF OwnAnswer
<1>12. ASSUME ~hung
       PROVE  GivenUp(w)'
  <2>1. /\ Len(answers) + 1 \in DOMAIN answers' /\ answers'[Len(answers) + 1] = a
    <3>1. answers \in Seq(AnswerRecord) /\ answers' = Append(answers, a)
      BY <1>1, <1>5, <1>12 DEF Types
    <3>2. /\ answers' \in Seq(AnswerRecord) /\ Len(answers') = Len(answers) + 1 /\ Len(answers) \in Nat
          /\ answers'[Len(answers) + 1] = a
      BY <1>6, <3>1, AppendFacts
    <3> QED BY <3>2, SeqFacts
  <2>2. Abandoned(w)'
    BY <1>6, <2>1 DEF Abandoned
  <2>3. w \in 1 .. w
    BY <1>4
  <2> QED BY <2>2, <2>3 DEF GivenUp
<1> QED BY <1>1, <1>2, <1>4, <1>5, <1>6, <1>7, <1>8, <1>9, <1>10, <1>11, <1>12, WaitingDone

LEMMA ReplyOK ==
  ASSUME Inv, ReadReply
  PROVE  Inv'
<1>1. /\ Types /\ ClientOK /\ StreamOK /\ OrderOK /\ GivenUpOK /\ TakenOK
      /\ OwnUnlessAbandoned /\ AnswersInOrder
  BY DEF Inv
<1>2. PICK r : r = Head(to_zero)
  OBVIOUS
<1>3. /\ at = "link" /\ to_zero # <<>> /\ to_zero' = Tail(to_zero)
      /\ UNCHANGED <<then, ready, client, buf>> /\ UNCHANGED <<hung, knocking, sessions, socket, lines>>
      /\ UNCHANGED <<to_pico, calibrating, done, losses>>
      /\ IF Matches(r.line) THEN SocketAnswer(waiting, r.result, r.line, at)
         ELSE UNCHANGED <<at, waiting, answers>>
  BY <1>2 DEF ReadReply, clients
<1>4. Stream' = Stream /\ Line' = Line /\ waiting' \in {waiting, 0}
  BY <1>3 DEF Stream, Line, SocketAnswer
<1>5. /\ to_zero' \in Seq(ReplyRecord) /\ r \in ReplyRecord
      /\ OrderOK'
      /\ \A n \in Nat : OnItsWay(n)' => OnItsWay(n) /\ n # r.line
      /\ OnItsWay(r.line)
      /\ r.result = "ok" => r.line \in done
  BY <1>1, <1>2, <1>3, <1>4, ReplyTaken
<1>6. r.line \in Nat /\ r.line # 0 /\ r.result \in {"ok", "busy"}
  BY <1>5 DEF ReplyRecord
<1>7. CASE ~Matches(r.line)
  <2>1. UNCHANGED <<at, waiting, answers>>
    BY <1>3, <1>7
  <2>2. Types'
    BY <1>1, <1>3, <1>5, <2>1 DEF Types
  <2>3. ClientOK'
    BY <1>1, <1>3, <1>4, <2>1 DEF ClientOK
  <2>4. StreamOK'
    BY <1>1, <1>3, <1>4, StreamKept
  <2>5. Grows
    BY <1>1, <1>3, <2>1, Typed DEF Grows
  <2>6. GivenUpOK'
    <3>1. \A n \in Nat : OnItsWay(n)' => n \in Line
      BY <1>1, <1>5 DEF OrderOK, AheadOK
    <3>2. \A n \in Line : n \in Nat
      BY <1>1, Typed
    <3> QED BY <1>1, <1>5, <2>1, <2>5, <3>1, <3>2, GivenUpKept
  <2>7. TakenOK' /\ AnswersInOrder'
    BY <1>1, <1>3, <1>4, <2>1, TakenKept
  <2>8. OwnUnlessAbandoned'
    BY <1>1, <2>1, <2>5, OwnKept
  <2> QED BY <1>5, <2>2, <2>3, <2>4, <2>6, <2>7, <2>8 DEF Inv
<1>8. CASE Matches(r.line)
  <2>1. PICK w : w = waiting
    OBVIOUS
  <2>2. PICK a : a = [client |-> client, line |-> w, text |-> r.result, from |-> r.line]
    OBVIOUS
  <2>3. /\ client # 0 /\ client \in Nat /\ w \in Line /\ w \in Nat /\ w # 0 /\ waiting # 0
        /\ lines[r.line].kind = lines[w].kind
    BY <1>1, <1>8, <2>1 DEF ClientOK, Matches, Types
  <2>4. /\ waiting' = 0 /\ at' = IF hung THEN "ended" ELSE "link"
        /\ answers' = IF hung THEN answers ELSE Append(answers, a)
    BY <1>3, <1>8, <2>1, <2>2, <2>3 DEF SocketAnswer
  <2>5. /\ a \in AnswerRecord /\ a.client = client /\ a.line = w
        /\ a.text = r.result /\ a.from = r.line
    BY <1>6, <2>2, <2>3 DEF AnswerRecord
  <2>6. Types'
    <3>1. answers' \in Seq(AnswerRecord)
      <4>1. answers \in Seq(AnswerRecord)
        BY <1>1 DEF Types
      <4> QED BY <2>4, <2>5, <4>1, AppendFacts
    <3> QED BY <1>1, <1>3, <1>5, <2>4, <3>1 DEF Types
  <2>7. r.line <= w
    BY <1>1, <1>5, <1>6, <2>1, <2>3 DEF OrderOK, AheadOK
  <2>8. Grows
    <3>1. answers' = answers \/ answers' = Append(answers, a)
      BY <2>4
    <3> QED BY <1>1, <1>3, <2>5, <3>1, AnswerGrows
  \* The reply of another request: one of this kind was given up before.
  <2>9. ASSUME r.line # w
        PROVE  \E g \in 1 .. r.line : lines[g].kind = lines[w].kind /\ Abandoned(g)
    <3>1. GivenUp(r.line)
      BY <1>1, <1>3, <1>5, <1>6, <2>1, <2>9 DEF GivenUpOK
    <3> QED BY <2>3, <3>1 DEF GivenUp
  <2>10. OwnAnswer(a)'
    <3>1. ASSUME r.line # w
          PROVE  /\ r.line < w
                 /\ \E g \in 1 .. w - 1 : lines[g].kind = lines[w].kind /\ Abandoned(g)
      <4>1. r.line < w
        BY <1>6, <2>3, <2>7, <3>1
      <4>2. \A g \in 1 .. r.line : g \in 1 .. w - 1
        BY <1>6, <2>3, <4>1
      <4> QED BY <2>9, <3>1, <4>1, <4>2
    <3>2. OwnAnswer(a)
      BY <1>5, <2>3, <2>5, <3>1 DEF OwnAnswer
    <3> QED BY <1>1, <2>3, <2>5, <2>8, <3>2, OwnAnswerStays
  <2>11. ASSUME OnItsWay(w)'
         PROVE  GivenUp(w)'
    <3>1. r.line # w
      BY <1>5, <2>3, <2>11
    <3>2. \A g \in 1 .. r.line : g \in 1 .. w
      BY <1>6, <2>3, <2>7
    <3>3. GivenUp(w)
      BY <2>9, <3>1, <3>2 DEF GivenUp
    <3> QED BY <1>1, <2>3, <2>8, <3>3, GivenUpStays
  <2> QED BY <1>1, <1>3, <1>5, <2>1, <2>3, <2>4, <2>5, <2>6, <2>10, <2>11, WaitingDone
<1> QED BY <1>7, <1>8

-----------------------------------------------------------------------------
(* The lines in the buffer.                                                 *)

\* The part of the stream that is left has all lines but those up to n before it.
LeftAfter(n) ==
  \A m \in Line : m <= n <=>
    \/ Stream' = <<>> \/ m < Stream'[1].line
    \/ m = Stream'[1].line /\ Stream'[1].place > 1

LEMMA LineLeaves ==
  ASSUME Types, StreamOK, NEW k, k = LineEnd(buf), k # 0,
         buf' = SubSeq(buf, k + 1, Len(buf)), UNCHANGED <<socket, lines, client>>
  PROVE  /\ Stream # <<>> /\ buf # <<>> /\ buf[k].line = Stream[1].line
         /\ buf' \in Seq(PieceRecord) /\ Len(buf') <= BufSize
         /\ IsRest(Stream', Stream, k) /\ StreamOK'
         /\ LeftAfter(Stream[1].line)
         /\ \A i \in 1 .. Len(Stream') : Stream[1].line < Stream'[i].line
<1>1. /\ Stream \in Seq(PieceRecord) /\ lines \in Seq(LineRecord) /\ EndOfText(Stream, lines, client)
      /\ buf \in Seq(PieceRecord)
  BY StreamFacts DEF StreamOK, Types
<1>2. Stream # <<>> /\ buf # <<>>
  <2>1. {i \in 1 .. Len(buf) : Ends(buf[i])} # {}
    BY DEF LineEnd
  <2>2. Len(buf) # 0 /\ Len(buf) \in Nat
    BY <1>1, <2>1, SeqFacts
  <2>3. Len(Stream) # 0
    BY <2>2, StreamFacts
  <2>4. Stream # <<>>
    BY ONLY <1>1, <2>3, SeqFacts
  <2>5. buf # <<>>
    BY ONLY <1>1, <2>2, SeqFacts
  <2> QED BY <2>4, <2>5
<1> DEFINE n == Stream[1].line
           p == Stream[1].place
<1>3. k = FirstEnd(Stream, lines) /\ k \in 1 .. Len(buf) /\ buf[k] = Stream[k]
  BY <1>2, LineInFront
<1>4. /\ n \in Nat /\ lines[n].len \in Nat /\ n \in 1 .. Len(lines)
      /\ k \in 1 .. Len(Stream) /\ Stream[k] = [line |-> n, place |-> lines[n].len]
      /\ k < Len(Stream) => Stream[k + 1] = [line |-> n + 1, place |-> 1]
      /\ k = Len(Stream) => n = Len(lines)
  BY <1>1, <1>2, <1>3, FirstLine, SMTT(20)
<1> HIDE DEF n, p
<1>5. Stream[k].line = n /\ Stream[k].place = lines[n].len
  BY <1>4
<1>6. k \in 0 .. Len(buf) /\ k \in Nat /\ Len(Stream) \in Nat
  BY <1>1, <1>3, <1>4, SeqFacts
<1>7. /\ buf' \in Seq(PieceRecord) /\ Len(buf') <= BufSize
      /\ Stream' \in Seq(PieceRecord) /\ IsRest(Stream', Stream, k)
  BY <1>6, StreamRest
<1>8. EndOfText(Stream', lines, client)
  BY <1>1, <1>7, RestOfText
<1>9. /\ Len(Stream') = Len(Stream) - k /\ \A i \in 1 .. Len(Stream') : Stream'[i] = Stream[i + k]
      /\ Len(Stream') \in Nat /\ (Stream' = <<>> <=> Len(Stream') = 0)
  <2>1. Len(Stream') \in Nat /\ (Stream' = <<>> <=> Len(Stream') = 0)
    BY ONLY <1>7, SeqFacts
  <2> QED BY <1>7, <2>1 DEF IsRest
<1>10. ASSUME Stream' # <<>>
       PROVE  Stream'[1].line = n + 1 /\ Stream'[1].place = 1
  <2>1. k < Len(Stream) /\ 1 \in 1 .. Len(Stream') /\ 1 + k = k + 1
    BY <1>6, <1>9, <1>10
  <2>2. Stream'[1] = Stream[k + 1]
    BY ONLY <1>9, <2>1
  <2>3. Stream[k + 1] = [line |-> n + 1, place |-> 1]
    BY <1>4, <2>1
  <2> QED BY <2>2, <2>3
<1>11. StreamOK'
  BY <1>8, <1>10 DEF StreamOK
<1>12. LeftAfter(n)
  <2>1. CASE Stream' = <<>>
    <3>1. n = Len(lines)
      BY <1>4, <1>6, <1>9, <2>1
    <3> QED BY <2>1, <3>1 DEF LeftAfter, Line
  <2>2. CASE Stream' # <<>>
    <3>1. n \in Nat /\ \A m \in Line : m \in Nat
      BY <1>4, Typed
    <3>2. \A m \in Line : m <= n <=> m < n + 1
      BY ONLY <3>1
    <3> QED BY <1>10, <2>2, <3>2 DEF LeftAfter
  <2> QED BY <2>1, <2>2
<1>13. ASSUME NEW i \in 1 .. Len(Stream')
       PROVE  n < Stream'[i].line
  <2>1. i + k \in 1 .. Len(Stream) /\ k < i + k
    BY <1>6, <1>9
  <2>2. Stream[k].line < Stream[i + k].line
    BY <1>1, <1>4, <1>5, <2>1 DEF EndOfText
  <2> QED BY <1>5, <1>9, <2>2
<1> QED BY <1>2, <1>3, <1>5, <1>7, <1>11, <1>12, <1>13 DEF n

\* The request in the front line goes to the Pico and waits.
LEMMA SentOK ==
  ASSUME Inv, at # "ended", waiting = 0, Stream # <<>>, client # 0,
         NEW n, n = Stream[1].line,
         to_pico' = Append(to_pico, n), waiting' = n,
         UNCHANGED <<at, ready, client, clients, to_zero, calibrating, done, answers>>,
         Types', StreamOK', LeftAfter(n), NEW k, IsRest(Stream', Stream, k),
         \A i \in 1 .. Len(Stream') : n < Stream'[i].line
  PROVE  Inv'
<1>1. /\ Types /\ ClientOK /\ StreamOK /\ OrderOK /\ GivenUpOK /\ TakenOK
      /\ OwnUnlessAbandoned /\ AnswersInOrder
  BY DEF Inv
<1>2. UNCHANGED <<hung, knocking, sessions, socket, lines>> /\ Line' = Line
  BY DEF clients, Line
<1>3. /\ n \in Line /\ lines[n].client = client
      /\ \A i \in DOMAIN answers : answers[i].client = client => Follows(n, answers[i].line)
      /\ \A m \in Line : lines[m].client = client /\ m < n => m \in Taken(client)
      /\ \A m \in Line : lines[m].client = client => (m \in Taken(client) \cup {n} <=> m <= n)
  BY <1>1, FrontOfStream
<1>4. n \in Nat /\ n # 0 /\ Len(lines) \in Nat /\ \A m \in Line : m \in Nat
  BY <1>1, <1>3, Typed
<1>5. ClientOK'
  BY <1>1, <1>2, <1>3 DEF ClientOK
<1>6. \A m \in Nat : OnItsWay(m) => m < n /\ m \in Line
  <2>1. 1 \in 1 .. Len(Stream)
    BY <1>1, StreamFacts, SeqFacts
  <2> QED BY <1>1, <2>1 DEF OrderOK, AheadOK
<1> DEFINE z == Len(to_pico)
<1>7. /\ DOMAIN to_pico' = 1 .. z + 1 /\ DOMAIN to_pico = 1 .. z /\ z \in Nat
      /\ to_pico'[z + 1] = n /\ \A i \in 1 .. z : to_pico'[i] = to_pico[i] /\ to_pico[i] \in Nat
  <2>1. to_pico \in Seq(Nat \ {0}) /\ n \in Nat \ {0}
    BY <1>1, <1>4 DEF Types
  <2>2. /\ to_pico' \in Seq(Nat \ {0}) /\ Len(to_pico') = z + 1 /\ z \in Nat
        /\ \A i \in 1 .. z : to_pico'[i] = to_pico[i]
        /\ to_pico'[z + 1] = n
    BY <2>1, AppendFacts
  <2>3. DOMAIN to_pico' = 1 .. Len(to_pico') /\ DOMAIN to_pico = 1 .. z
    BY <2>1, <2>2, SeqFacts
  <2>4. \A i \in 1 .. z : to_pico[i] \in Nat
    BY <2>1, SeqFacts
  <2> QED BY <2>2, <2>3, <2>4
<1> HIDE DEF z
<1>8. \A i \in DOMAIN to_pico' : \/ i \in DOMAIN to_pico /\ to_pico'[i] = to_pico[i] /\ i < z + 1
                                 \/ i = z + 1 /\ to_pico'[i] = n
  BY <1>7
<1>9. \A m \in Nat : OnItsWay(m)' => OnItsWay(m) \/ m = n
  BY <1>8 DEF OnItsWay
<1>10. AheadOK'
  <2>1. \A m \in Nat : OnItsWay(m)' => m \in Line /\ m <= n
    BY <1>3, <1>4, <1>6, <1>9
  <2>2. ASSUME NEW m \in Nat, m <= n, NEW i \in 1 .. Len(Stream')
        PROVE  m < Stream'[i].line
    <3>1. n < Stream'[i].line /\ Stream'[i].line \in Nat
      <4>1. /\ Stream' \in Seq(PieceRecord)
        <5>1. buf' \in Seq(PieceRecord) /\ socket' \in Seq(PieceRecord)
          BY DEF Types
        <5> QED BY <5>1, ConcatProperties DEF Stream
      <4>2. Stream'[i] \in PieceRecord
        BY <4>1, SeqFacts
      <4> QED BY <4>2 DEF PieceRecord
    <3> QED BY <1>4, <2>2, <3>1
  <2>3. n \in 0 .. Len(lines) /\ n <= n
    BY <1>3, <1>4 DEF Line
  <2> QED BY <1>2, <1>4, <2>1, <2>2, <2>3 DEF AheadOK
<1>11. /\ calibrating < n
       /\ \A j \in DOMAIN to_zero : to_zero[j].line < n
       /\ \A i \in DOMAIN to_pico : to_pico[i] < n
  <2>1. calibrating < n
    <3>1. calibrating \in Nat
      BY <1>1 DEF Types
    <3>2. CASE calibrating = 0
      BY <1>4, <3>2
    <3>3. CASE calibrating # 0
      BY <1>6, <3>1, <3>3 DEF OnItsWay
    <3> QED BY <3>2, <3>3
  <2>2. ASSUME NEW j \in DOMAIN to_zero
        PROVE  to_zero[j].line < n
    <3>1. to_zero[j] \in ReplyRecord
      BY <1>1, SeqFacts DEF Types
    <3>2. to_zero[j].line \in Nat
      BY <3>1 DEF ReplyRecord
    <3> QED BY <1>6, <3>2 DEF OnItsWay
  <2>3. ASSUME NEW i \in DOMAIN to_pico
        PROVE  to_pico[i] < n
    BY <1>6, <1>7 DEF OnItsWay
  <2> QED BY <2>1, <2>2, <2>3
<1>12. OnceOK'
  <2>1. ASSUME NEW i \in DOMAIN to_pico', NEW j \in DOMAIN to_pico', i < j
        PROVE  to_pico'[i] < to_pico'[j]
    <3>1. i \in DOMAIN to_pico /\ to_pico'[i] = to_pico[i]
      BY <1>7, <2>1
    <3>2. CASE j = z + 1 /\ to_pico'[j] = n
      BY <1>11, <3>1, <3>2
    <3>3. CASE j \in DOMAIN to_pico /\ to_pico'[j] = to_pico[j]
      BY <1>1, <2>1, <3>1, <3>3 DEF OrderOK, OnceOK
    <3> QED BY <1>8, <3>2, <3>3
  <2>2. ASSUME NEW i \in DOMAIN to_pico'
        PROVE  /\ calibrating < to_pico'[i]
               /\ \A j \in DOMAIN to_zero : to_zero[j].line < to_pico'[i]
    BY <1>1, <1>8, <1>11 DEF OrderOK, OnceOK
  <2> QED BY <1>1, <2>1, <2>2 DEF OrderOK, OnceOK
<1>13. OrderOK'
  BY <1>1, <1>2, <1>10, <1>12 DEF OrderOK, DoneOK
<1>14. Grows
  BY <1>1, <1>2, Typed DEF Grows
<1>15. GivenUpOK'
  <2>1. \A m \in Nat : OnItsWay(m)' => m \in Line
    BY <1>3, <1>6, <1>9
  <2>2. \A m \in Line : m # 0
    BY <1>1, Typed
  <2>3. \A m \in Line : OnItsWay(m)' /\ m # waiting' => OnItsWay(m) /\ m # waiting
    BY <1>4, <1>9, <2>2
  <2> QED BY <1>1, <1>14, <2>1, <2>3, GivenUpKept
<1> DEFINE To(c) == {answers[i].line : i \in {i \in DOMAIN answers : answers[i].client = c}}
<1>16. /\ \A c : Taken(c) = To(c)
       /\ \A c : Taken(c)' = To(c) \cup {m \in {n} : c = client}
  BY <1>4 DEF Taken
<1> HIDE DEF To
<1>17. Taken(client)' = Taken(client) \cup {n} /\ \A c : c # client => Taken(c)' = Taken(c)
  BY <1>16
<1>18. TakenOK'
  <2>1. \A m \in Line : lines[m].client = client =>
          (m \in Taken(client)' <=>
             \/ Stream' = <<>> \/ m < Stream'[1].line
             \/ m = Stream'[1].line /\ Stream'[1].place > 1)
    BY <1>3, <1>17 DEF LeftAfter
  <2> QED BY <1>1, <1>2, <2>1 DEF TakenOK
<1>19. AnswersInOrder'
  <2>1. ASSUME NEW c \in 1 .. sessions
        PROVE  /\ Taken(c)' \subseteq {m \in Line : lines[m].client = c}
               /\ \A i \in Taken(c)', m \in {i \in Line : lines[i].client = c} : m < i => m \in Taken(c)'
    <3>1. /\ Taken(c) \subseteq {m \in Line : lines[m].client = c}
          /\ \A i \in Taken(c), m \in {i \in Line : lines[i].client = c} : m < i => m \in Taken(c)
      BY <1>1 DEF AnswersInOrder
    <3>2. CASE c # client
      BY <1>17, <3>1, <3>2
    <3>3. CASE c = client
      BY <1>3, <1>17, <3>1, <3>3
    <3> QED BY <3>2, <3>3
  <2>2. \A i, j : Follows(i, j)' <=> Follows(i, j)
    BY <1>2 DEF Follows, Fits
  <2>3. \A i, j \in DOMAIN answers :
          i < j /\ answers[i].client = answers[j].client => Follows(answers[j].line, answers[i].line)
    BY <1>1 DEF AnswersInOrder
  <2> QED BY <1>2, <1>3, <2>1, <2>2, <2>3 DEF AnswersInOrder
<1>20. OwnUnlessAbandoned'
  BY <1>1, <1>14, OwnKept
<1> QED BY <1>5, <1>13, <1>15, <1>18, <1>19, <1>20 DEF Inv

LEMMA HandleOK ==
  ASSUME Inv, HandleLine
  PROVE  Inv'
<1>1. Types /\ ClientOK /\ StreamOK /\ OrderOK
  BY DEF Inv
<1>2. PICK k : k = LineEnd(buf)
  OBVIOUS
<1>3. /\ at = "process" /\ waiting = 0 /\ k # 0
      /\ buf' = SubSeq(buf, k + 1, Len(buf))
      /\ UNCHANGED <<then, ready, client, clients, to_zero, calibrating, done, losses>>
      /\ \/ /\ lines[buf[k].line].kind \in Requested /\ Send(buf[k].line)
         \/ /\ SocketAnswer(buf[k].line, "error", 0, at) /\ to_pico' = to_pico
  BY <1>2 DEF HandleLine, MayHandle, HandleRequest
<1>4. UNCHANGED <<hung, knocking, sessions, socket, lines>>
  BY <1>3 DEF clients
<1>5. /\ Stream # <<>> /\ buf # <<>> /\ buf[k].line = Stream[1].line
      /\ buf' \in Seq(PieceRecord) /\ Len(buf') <= BufSize
      /\ IsRest(Stream', Stream, k) /\ StreamOK'
      /\ LeftAfter(Stream[1].line)
      /\ \A i \in 1 .. Len(Stream') : Stream[1].line < Stream'[i].line
  BY <1>1, <1>2, <1>3, <1>4, LineLeaves
<1>6. client # 0
  BY <1>1, <1>5 DEF ClientOK
<1>7. PICK n : n = Stream[1].line
  OBVIOUS
<1>8. n \in Nat \ {0} /\ client \in Nat \ {0}
  <2>1. 1 \in 1 .. Len(Stream) /\ Stream \in Seq(PieceRecord)
    BY <1>1, <1>5, StreamFacts, SeqFacts
  <2>2. Stream[1] \in PieceRecord
    BY <2>1, SeqFacts
  <2> QED BY <1>1, <1>6, <1>7, <2>2 DEF PieceRecord, Types
<1>9. CASE Send(buf[k].line)
  <2>1. to_pico' = Append(to_pico, n) /\ waiting' = n /\ UNCHANGED <<at, answers>>
    BY <1>5, <1>7, <1>9 DEF Send
  <2>2. to_pico' \in Seq(Nat \ {0})
    BY <1>1, <1>8, <2>1, AppendFacts DEF Types
  <2>3. Types'
    BY <1>1, <1>3, <1>4, <1>5, <1>8, <2>1, <2>2 DEF Types
  <2> QED BY <1>3, <1>5, <1>6, <1>7, <2>1, <2>3, SentOK
<1>10. CASE SocketAnswer(buf[k].line, "error", 0, at) /\ to_pico' = to_pico
  <2>1. SocketAnswer(Stream[1].line, "error", 0, "process")
    BY <1>3, <1>5, <1>10
  <2>2. PICK a : a = [client |-> client, line |-> n, text |-> "error", from |-> 0]
    OBVIOUS
  <2>3. /\ waiting' = 0 /\ at' \in {"ended", "process"}
        /\ answers' = answers \/ answers' = Append(answers, a)
    BY <1>7, <2>1, <2>2 DEF SocketAnswer
  <2>4. a \in AnswerRecord
    BY <1>8, <2>2 DEF AnswerRecord
  <2>5. answers' \in Seq(AnswerRecord)
    <3>1. answers \in Seq(AnswerRecord)
      BY <1>1 DEF Types
    <3> QED BY <2>3, <2>4, <3>1, AppendFacts
  <2>6. Types'
    BY <1>1, <1>3, <1>4, <1>5, <1>10, <2>3, <2>5 DEF Types
  <2>7. UNCHANGED <<client, ready, clients, pico>>
    BY <1>3, <1>10 DEF pico
  <2>8. \A m \in Line : m <= Stream[1].line <=>
          \/ Stream' = <<>> \/ m < Stream'[1].line
          \/ m = Stream'[1].line /\ Stream'[1].place > 1
    BY <1>5 DEF LeftAfter
  <2> QED BY <1>3, <1>5, <1>6, <2>1, <2>6, <2>7, <2>8, FrontAnswered
<1> QED BY <1>3, <1>9, <1>10

LEMMA TooLongOK ==
  ASSUME Inv, LineTooLong
  PROVE  Inv'
<1>1. Types /\ ClientOK /\ StreamOK /\ OrderOK
  BY DEF Inv
<1>2. PICK next : next = then
  OBVIOUS
<1>3. /\ at = "process" /\ waiting = 0 /\ LineEnd(buf) = 0 /\ Len(buf) = BufSize /\ buf' = <<>>
      /\ SocketAnswer(buf[1].line, "error", 0, next) /\ then' = "poll"
      /\ UNCHANGED <<ready, client, clients, pico>>
      /\ UNCHANGED <<hung, knocking, sessions, socket, lines, to_pico, to_zero, calibrating, done>>
  BY <1>2 DEF LineTooLong, MayHandle, clients, pico
<1>4. /\ buf \in Seq(PieceRecord) /\ BufSize \in Nat /\ BufSize >= 1
      /\ Stream \in Seq(PieceRecord) /\ Len(Stream) = BufSize + Len(socket) /\ Len(socket) \in Nat
      /\ next \in {"poll", "accept", "timeout"}
      /\ lines \in Seq(LineRecord) /\ EndOfText(Stream, lines, client)
  BY <1>1, <1>2, <1>3, StreamFacts, RequestsAssumption DEF Types, StreamOK
<1>5. Stream # <<>> /\ buf # <<>> /\ buf[1] = Stream[1] /\ client # 0
  <2>1. Len(Stream) # 0 /\ 1 \in 1 .. Len(buf)
    BY <1>3, <1>4
  <2>2. buf # <<>> /\ Stream # <<>>
    BY <1>3, <1>4, <2>1, SeqFacts
  <2> QED BY <1>1, <2>1, <2>2, StreamFacts DEF ClientOK
<1> DEFINE n == Stream[1].line
           p == Stream[1].place
           e == FirstEnd(Stream, lines)
<1>6. e > BufSize
  BY <1>1, <1>3, <1>5, LineInFront
<1>7. /\ n \in Nat /\ p \in Nat \ {0} /\ lines[n].len \in Nat /\ n \in 1 .. Len(lines)
      /\ e \in 1 .. Len(Stream)
      /\ \A i \in 1 .. e : Stream[i] = [line |-> n, place |-> p + (i - 1)]
  BY <1>4, <1>5, FirstLine
<1>8. e = lines[n].len - p + 1
  BY DEF FirstEnd
<1> HIDE DEF n, p, e
<1>9. Stream[BufSize + 1].line = n /\ Stream[BufSize + 1].place = p + BufSize
  <2>1. BufSize + 1 \in 1 .. e /\ (BufSize + 1) - 1 = BufSize
    BY <1>4, <1>6, <1>7
  <2>2. Stream[BufSize + 1] = [line |-> n, place |-> p + BufSize]
    BY <1>7, <2>1
  <2> QED BY <2>2
<1>10. /\ buf' \in Seq(PieceRecord) /\ Len(buf') <= BufSize
       /\ Stream' \in Seq(PieceRecord) /\ IsRest(Stream', Stream, BufSize)
  <2>1. BufSize \in 0 .. Len(buf)
    BY <1>3, <1>4
  <2>2. SubSeq(buf, BufSize + 1, Len(buf)) = <<>>
    <3>1. /\ SubSeq(buf, BufSize + 1, Len(buf)) \in Seq(PieceRecord)
          /\ IsRest(SubSeq(buf, BufSize + 1, Len(buf)), buf, BufSize)
      BY <1>4, <2>1, SubSeqRest
    <3>2. Len(SubSeq(buf, BufSize + 1, Len(buf))) = 0
      BY <1>3, <1>4, <3>1 DEF IsRest
    <3> QED BY <3>1, <3>2, SeqFacts
  <2> QED BY <1>1, <1>3, <2>1, <2>2, StreamRest
<1>11. /\ Stream' # <<>> /\ Stream'[1].line = n /\ Stream'[1].place = p + BufSize
  <2>1. Len(Stream') = Len(Stream) - BufSize /\ \A i \in 1 .. Len(Stream') : Stream'[i] = Stream[i + BufSize]
    BY <1>10 DEF IsRest
  <2>2. Len(Stream') # 0 /\ 1 \in 1 .. Len(Stream') /\ 1 + BufSize = BufSize + 1
    BY <1>4, <1>6, <1>7, <2>1
  <2> QED BY <1>9, <1>10, <2>1, <2>2, SeqFacts
<1>12. StreamOK'
  <2>1. EndOfText(Stream', lines, client)
    BY <1>4, <1>10, RestOfText
  <2>2. lines[n].len > BufSize
    BY <1>4, <1>6, <1>7, <1>8
  <2> QED BY <1>3, <1>11, <2>1, <2>2 DEF StreamOK
<1>13. \A m \in Line : m <= n <=>
         \/ Stream' = <<>> \/ m < Stream'[1].line
         \/ m = Stream'[1].line /\ Stream'[1].place > 1
  <2>1. p + BufSize > 1
    BY <1>4, <1>7
  <2>2. \A m \in Line : m <= n <=> m < n \/ m = n
    BY <1>1, <1>7, Typed
  <2> QED BY <1>11, <2>1, <2>2
<1>14. SocketAnswer(n, "error", 0, next)
  BY <1>3, <1>5 DEF n
<1>15. Types'
  <2>1. PICK a : a = [client |-> client, line |-> n, text |-> "error", from |-> 0]
    OBVIOUS
  <2>2. /\ waiting' = 0 /\ at' \in {"ended", next}
        /\ answers' = answers \/ answers' = Append(answers, a)
    BY <1>14, <2>1 DEF SocketAnswer
  <2>3. a \in AnswerRecord
    BY <1>1, <1>5, <1>7, <2>1 DEF AnswerRecord, Types
  <2>4. answers' \in Seq(AnswerRecord)
    <3>1. answers \in Seq(AnswerRecord)
      BY <1>1 DEF Types
    <3> QED BY <2>2, <2>3, <3>1, AppendFacts
  <2> QED BY <1>1, <1>3, <1>4, <1>10, <2>2, <2>4 DEF Types
<1>16. next # "ended" /\ at # "ended"
  BY <1>3, <1>4
<1> QED BY <1>3, <1>5, <1>10, <1>12, <1>13, <1>14, <1>15, <1>16, FrontAnswered DEF n

-----------------------------------------------------------------------------
(* The invariant.                                                           *)

LEMMA InitOK == Init => Inv
<1> SUFFICES ASSUME Init
             PROVE  Inv
  OBVIOUS
<1>1. /\ at = "poll" /\ then = "poll" /\ ready = {} /\ client = 0 /\ buf = <<>> /\ waiting = 0
      /\ hung = FALSE /\ knocking = FALSE /\ sessions = 0 /\ socket = <<>> /\ lines = <<>>
      /\ to_pico = <<>> /\ to_zero = <<>> /\ calibrating = 0 /\ done = {} /\ answers = <<>>
  BY DEF Init
<1>2. \A S : <<>> \in Seq(S)
  OBVIOUS
<1>3. Len(<<>>) = 0 /\ DOMAIN <<>> = {} /\ <<>> \o <<>> = <<>>
  OBVIOUS
<1>4. Types
  <2>1. /\ buf \in Seq(PieceRecord) /\ socket \in Seq(PieceRecord) /\ lines \in Seq(LineRecord)
        /\ to_pico \in Seq(Nat \ {0}) /\ to_zero \in Seq(ReplyRecord)
        /\ answers \in Seq(AnswerRecord)
    BY <1>1, <1>2
  <2>2. Len(buf) <= BufSize
    BY <1>1, <1>3, RequestsAssumption
  <2> QED BY <1>1, <2>1, <2>2 DEF Types
<1>5. Line = {} /\ Stream = <<>>
  BY <1>1, <1>3 DEF Line, Stream
<1>6. ClientOK
  BY <1>1, <1>5, RequestsAssumption DEF ClientOK
<1>7. StreamOK
  BY <1>3, <1>5 DEF StreamOK, EndOfText
<1>8. \A n : ~OnItsWay(n)
  BY <1>1, <1>3 DEF OnItsWay
<1>9. OrderOK
  <2>1. AheadOK
    BY <1>1, <1>3, <1>5, <1>8 DEF AheadOK
  <2>2. OnceOK /\ DoneOK
    BY <1>1, <1>3 DEF OnceOK, DoneOK
  <2> QED BY <2>1, <2>2 DEF OrderOK
<1>10. GivenUpOK /\ TakenOK /\ OwnUnlessAbandoned
  BY <1>1, <1>3, <1>8 DEF GivenUpOK, TakenOK, OwnUnlessAbandoned
<1>11. AnswersInOrder
  BY <1>1, <1>3 DEF AnswersInOrder
<1> QED BY <1>4, <1>6, <1>7, <1>9, <1>10, <1>11 DEF Inv

LEMMA StepOK ==
  ASSUME Inv, [Next]_vars
  PROVE  Inv'
<1>1. CASE Connect \/ HangUp
  BY <1>1, ConnectOK
<1>2. CASE \E kind \in Kind, len \in LineLens : SendLine(kind, len)
  BY <1>2, SendLineOK
<1>3. CASE PicoStep
  BY <1>3, PicoDoesOK, PicoCalibratedOK DEF PicoStep
<1>4. CASE LoseRequest \/ LoseReply
  BY <1>4, LoseRequestOK, LoseReplyOK
<1>5. CASE ZeroStep
  <2>1. CASE Poll \/ LinkRead \/ LinesProcessed \/ NoRead \/ NoTimeout
    BY <2>1, LoopOK
  <2>2. CASE ReadReply
    BY <2>2, ReplyOK
  <2>3. CASE HandleLine
    BY <2>3, HandleOK
  <2>4. CASE LineTooLong
    BY <2>4, TooLongOK
  <2>5. CASE AcceptClient
    BY <2>5, AcceptOK
  <2>6. CASE ReadClient
    BY <2>6, ReadOK
  <2>7. CASE Timeout
    BY <2>7, TimeoutOK
  <2> QED BY <1>5, <2>1, <2>2, <2>3, <2>4, <2>5, <2>6, <2>7 DEF ZeroStep
<1>6. CASE UNCHANGED vars
  <2>1. Types /\ ClientOK
    BY DEF Inv
  <2>2. /\ UNCHANGED <<at, then, ready, client, buf, waiting>>
        /\ UNCHANGED <<hung, knocking, sessions, socket, lines, pico, answers>>
        /\ UNCHANGED <<to_pico, to_zero, calibrating, done, losses>>
    BY <1>6 DEF vars, zero, clients, pico
  <2>3. Stream' = Stream
    BY <2>2 DEF Stream
  <2>4. Types' /\ ClientOK'
    BY <2>1, <2>2 DEF Types, ClientOK, Line
  <2> QED BY <2>2, <2>3, <2>4, QuietStep
<1> QED BY <1>1, <1>2, <1>3, <1>4, <1>5, <1>6 DEF Next

\* What is left of the client's text, what is on its way, the answers and the
\* request that waits fit together in every state (the loop of main.c).
THEOREM RequestsInvariant == Spec => []Inv
<1>1. Init => Inv
  BY InitOK
<1>2. Inv /\ [Next]_vars => Inv'
  BY StepOK
<1> QED BY <1>1, <1>2, PTL DEF Spec

\* Every variable keeps its type: client_buf never holds more than BufSize, and
\* every request on the link, waiting or done is a line that a client wrote.
THEOREM TypeCorrect == Spec => []TypeOK
<1>1. Inv => TypeOK
  <2> SUFFICES ASSUME Inv
               PROVE  TypeOK
    OBVIOUS
  <2>1. Types /\ ClientOK /\ AheadOK /\ DoneOK
    BY DEF Inv, OrderOK
  <2>2. client \in 0 .. sessions /\ sessions \in 0 .. MaxSessions
    BY <2>1, RequestsAssumption DEF Types, ClientOK
  <2>3. calibrating \in 0 .. Len(lines)
    <3>1. calibrating \in Nat /\ Len(lines) \in Nat
      BY <2>1, Typed DEF Types
    <3>2. calibrating # 0 => calibrating \in Line
      BY <2>1, <3>1 DEF AheadOK, OnItsWay
    <3> QED BY <3>1, <3>2 DEF Line
  <2>4. \A i \in DOMAIN to_pico : to_pico[i] \in Line
    <3>1. \A i \in DOMAIN to_pico : to_pico[i] \in Nat
      BY <2>1, SeqFacts DEF Types
    <3> QED BY <2>1, <3>1 DEF AheadOK, OnItsWay
  <2>5. ASSUME NEW i \in DOMAIN to_zero
        PROVE  to_zero[i] \in [line : Line, result : {"ok", "busy"}]
    <3>1. to_zero[i] \in ReplyRecord
      BY <2>1, SeqFacts DEF Types
    <3>2. to_zero[i].line \in Nat
      BY <3>1 DEF ReplyRecord
    <3>3. to_zero[i].line \in Line
      BY <2>1, <3>2 DEF AheadOK, OnItsWay
    <3> QED BY <3>1, <3>3 DEF ReplyRecord
  <2>6. done \subseteq Line /\ waiting \in 0 .. Len(lines)
    BY <2>1 DEF AheadOK, DoneOK
  <2> QED BY <2>1, <2>2, <2>3, <2>4, <2>5, <2>6 DEF TypeOK, Types
<1> QED BY <1>1, RequestsInvariant, PTL

\* However lines, replies, losses, time-outs and clients fall, each client gets
\* the answers to its own lines, in their order and without a gap, and a line
\* has more than one answer only if it is longer than client_buf.
THEOREM AnswersAreInOrder == Spec => []AnswersInOrder
<1>1. Inv => AnswersInOrder
  BY DEF Inv
<1> QED BY <1>1, RequestsInvariant, PTL

\* A client told `ok` has the result of a request that the Pico did; it is the
\* result of another request only after one of that kind was given up.
THEOREM ResultsAreOwn == Spec => []OwnUnlessAbandoned
<1>1. Inv => OwnUnlessAbandoned
  BY DEF Inv
<1> QED BY <1>1, RequestsInvariant, PTL
=============================================================================
