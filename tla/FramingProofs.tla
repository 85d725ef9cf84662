---------------------------- MODULE FramingProofs ----------------------------
(***************************************************************************)
(* Proofs about Framing for any messages, damage, losses and number of       *)
(* frames, and for any function that computes the byte of a CRC.            *)
(***************************************************************************)
EXTENDS Framing, SequenceTheorems, FiniteSetTheorems, WellFoundedInduction, TLAPS

Symbol == [val : Byte, of : Nat]
SentRecord == [message : Message, counter : Counter]
FrameRecord == [of : Nat, last : Nat, fate : {"whole", "lost", "damaged"}]
DeliveredRecord == [of : Nat, message : Message, lost : BOOLEAN]

-----------------------------------------------------------------------------
(* Sequences and numbers.                                                   *)

LEMMA SeqFacts ==
  ASSUME NEW S, NEW q \in Seq(S)
  PROVE  /\ Len(q) \in Nat /\ DOMAIN q = 1 .. Len(q)
         /\ \A i \in 1 .. Len(q) : q[i] \in S
         /\ q = <<>> <=> Len(q) = 0
BY LenProperties, ElementOfSeq, EmptySeq

LEMMA AppendFacts ==
  ASSUME NEW S, NEW q \in Seq(S), NEW x \in S
  PROVE  /\ Append(q, x) \in Seq(S) /\ Len(Append(q, x)) = Len(q) + 1
         /\ \A i \in 1 .. Len(q) : Append(q, x)[i] = q[i]
         /\ Append(q, x)[Len(q) + 1] = x
         /\ Len(q) \in Nat
BY AppendProperties, LenProperties

\* r is what is left of q without its first k elements.
IsRest(r, q, k) ==
  /\ k \in 0 .. Len(q) /\ Len(r) = Len(q) - k
  /\ \A i \in 1 .. Len(r) : r[i] = q[i + k]

LEMMA SubSeqRest ==
  ASSUME NEW S, NEW q \in Seq(S), NEW k \in 0 .. Len(q)
  PROVE  SubSeq(q, k + 1, Len(q)) \in Seq(S) /\ IsRest(SubSeq(q, k + 1, Len(q)), q, k)
<1>1. Len(q) \in Nat /\ \A i \in 1 .. Len(q) : q[i] \in S
  BY LenProperties, ElementOfSeq
<1>2. /\ SubSeq(q, k + 1, Len(q)) \in Seq(S)
      /\ Len(SubSeq(q, k + 1, Len(q))) = IF k + 1 <= Len(q) THEN Len(q) - (k + 1) + 1 ELSE 0
      /\ \A i \in 1 .. Len(q) - (k + 1) + 1 : SubSeq(q, k + 1, Len(q))[i] = q[k + 1 + i - 1]
  BY <1>1, SubSeqProperties
<1> QED BY <1>1, <1>2 DEF IsRest

LEMMA MinExists ==
  ASSUME NEW I, I \subseteq Nat, I # {}
  PROVE  Min(I) \in I /\ \A i \in I : Min(I) <= i
<1> DEFINE R == {ss \in Nat \X Nat : ss[1] < ss[2]}
<1>1. IsWellFoundedOn(R, Nat)
  BY NatLessThanWellFounded DEF OpToRel
<1> HIDE DEF R
<1>2. PICK m \in I : \A i \in I : ~(<<i, m>> \in R)
  BY <1>1, WFMin
<1>3. \A i, j \in Nat : i < j => <<i, j>> \in R
  BY DEF R
<1>4. \A i \in I : m <= i
  <2> TAKE i \in I
  <2>1. i \in Nat /\ m \in Nat /\ ~(i < m)
    BY <1>2, <1>3
  <2> QED BY ONLY <2>1
<1> QED BY <1>4 DEF Min

LEMMA MaxExists ==
  ASSUME NEW I, NEW b \in Nat, I \subseteq 0 .. b, I # {}
  PROVE  Max(I) \in I /\ \A i \in I : i <= Max(I)
<1> DEFINE J == {b - i : i \in I}
<1>1. J \subseteq Nat /\ J # {}
  <2>1. \A i \in I : b - i \in Nat
    <3> TAKE i \in I
    <3>1. i \in 0 .. b
      OBVIOUS
    <3> QED BY <3>1
  <2> QED BY <2>1
<1>2. PICK m \in J : \A j \in J : m <= j
  BY <1>1, MinExists
<1>3. PICK x \in I : m = b - x
  OBVIOUS
<1>4. \A i \in I : i <= x
  <2> TAKE i \in I
  <2>1. m <= b - i
    BY <1>2
  <2> QED BY <1>3, <2>1
<1>5. \A i \in I : x >= i
  BY <1>4
<1> QED BY <1>4, <1>5 DEF Max

-----------------------------------------------------------------------------
(* What a frame carries.                                                    *)

LEMMA ByteFacts ==
  /\ MaxByte \in Nat /\ 0 \in Byte /\ Marker1 \in Byte /\ Marker2 \in Byte
  /\ Text \in Byte /\ Can \in Byte /\ Command \in Byte
  /\ Text # Can /\ Can # Command /\ Text # Command
  /\ CounterMod \in Nat /\ CounterMod >= 2 /\ Counter \subseteq Byte
  /\ \A b \in Byte : b \in Nat /\ b <= MaxByte
<1>1. MaxByte \in Nat /\ Types \subseteq Byte /\ {Marker1, Marker2} \subseteq Byte
  BY FramingAssumption
<1>2. CounterMod \in Nat /\ CounterMod >= 2 /\ CounterMod - 1 <= MaxByte
  BY CounterModAssumption, FramingAssumption
<1>3. Counter \subseteq Byte
  BY <1>1, <1>2 DEF Counter, Byte
<1>4. Text # Can /\ Can # Command /\ Text # Command
  BY FramingAssumption
<1>5. 0 \in Byte /\ \A b \in Byte : b \in Nat /\ b <= MaxByte
  BY <1>1 DEF Byte
<1> QED BY <1>1, <1>2, <1>3, <1>4, <1>5 DEF Types

LEMMA MessageFacts ==
  ASSUME NEW m \in Message
  PROVE  /\ m \in [type : Types, body : Seq(Byte)] /\ m.type \in {Text, Can, Command}
         /\ m.body \in Seq(Byte) /\ Len(m.body) \in Nat /\ Len(m.body) < MaxByte
         /\ m.type = Command => Len(m.body) = 2
<1>1. MessageShape(m) /\ Len(m.body) < MaxByte
  BY FramingAssumption
<1>2. m \in [type : Types, body : Seq(Byte)] /\ (m.type = Command => Len(m.body) = 2)
  BY <1>1 DEF MessageShape
<1>3. m.type \in Types /\ m.body \in Seq(Byte)
  BY <1>2
<1> QED BY <1>1, <1>2, <1>3, SeqFacts DEF Types

\* An element before a sequence.
LEMMA ConsFacts ==
  ASSUME NEW S, NEW x \in S, NEW q \in Seq(S)
  PROVE  /\ <<x>> \o q \in Seq(S) /\ Len(<<x>> \o q) = Len(q) + 1 /\ Len(q) \in Nat
         /\ <<x>> \o q # <<>> /\ Head(<<x>> \o q) = x /\ Tail(<<x>> \o q) = q
<1> DEFINE r == <<x>> \o q
           h == <<x>>
<1>1. h \in Seq(S) /\ Len(h) = 1 /\ h[1] = x
  OBVIOUS
<1> HIDE DEF h
<1>2. /\ r \in Seq(S) /\ Len(r) = 1 + Len(q) /\ Len(q) \in Nat
      /\ \A i \in 1 .. 1 + Len(q) : r[i] = IF i <= 1 THEN h[i] ELSE q[i - 1]
  <2>1. h \o q \in Seq(S) /\ Len(h \o q) = Len(h) + Len(q) /\ Len(q) \in Nat
    BY <1>1, ConcatProperties, LenProperties
  <2>2. \A i \in 1 .. Len(h) + Len(q) : (h \o q)[i] = IF i <= Len(h) THEN h[i] ELSE q[i - Len(h)]
    BY <1>1, ConcatProperties
  <2>3. r = h \o q
    BY DEF h
  <2> QED BY <1>1, <2>1, <2>2, <2>3
<1> HIDE DEF r
<1>3. r # <<>>
  BY <1>2, SeqFacts
<1>4. Head(r) = r[1] /\ r[1] = x
  BY <1>1, <1>2
<1>5. Tail(r) = q
  <2>1. /\ Tail(r) \in Seq(S) /\ Len(Tail(r)) = Len(q)
        /\ \A i \in 1 .. Len(q) : Tail(r)[i] = r[i + 1]
    BY <1>2, <1>3, HeadTailProperties
  <2>2. \A i \in 1 .. Len(q) : r[i + 1] = q[i]
    <3> TAKE i \in 1 .. Len(q)
    <3>1. i + 1 \in 1 .. 1 + Len(q) /\ ~(i + 1 <= 1) /\ (i + 1) - 1 = i
      BY <1>2
    <3> QED BY <1>2, <3>1
  <2> QED BY <2>1, <2>2, SeqEqual
<1> QED BY <1>2, <1>3, <1>4, <1>5 DEF r

LEMMA PackFacts ==
  ASSUME NEW m \in Message
  PROVE  /\ Pack(m) \in Seq(Byte) /\ Len(Pack(m)) \in 1 .. MaxByte
         /\ Unpack(m.type, Pack(m)).ok = TRUE
         /\ Unpack(m.type, Pack(m)).body = m.body
<1> DEFINE b == m.body
           p == Pack(m)
<1>1. /\ m.type \in {Text, Can, Command} /\ b \in Seq(Byte)
      /\ Len(b) \in Nat /\ Len(b) < MaxByte /\ (m.type = Command => Len(b) = 2)
  BY MessageFacts
<1>2. 0 \in Byte /\ Len(b) \in Byte /\ MaxByte \in Nat
  BY <1>1, ByteFacts DEF Byte
<1>3. CASE m.type = Text
  <2>1. p = <<0>> \o b
    BY <1>3, ByteFacts DEF Pack
  <2>2. p \in Seq(Byte) /\ Len(p) = Len(b) + 1 /\ p # <<>> /\ Tail(p) = b
    BY <1>1, <1>2, <2>1, ConsFacts
  <2> DEFINE o == p # <<>>
  <2>3. Unpack(m.type, p) = [ok |-> o, body |-> Tail(p)]
    BY <1>3, ByteFacts DEF Unpack
  <2>5. o = TRUE
    BY <2>2
  <2> HIDE DEF p, b, o
  <2>4. Unpack(m.type, p).ok = TRUE /\ Unpack(m.type, p).body = b
    BY <2>2, <2>3, <2>5
  <2> QED BY <1>1, <1>2, <2>2, <2>4 DEF p, b
<1>4. CASE m.type = Can
  <2>1. p = <<Len(b)>> \o b
    BY <1>4, ByteFacts DEF Pack
  <2>2. p \in Seq(Byte) /\ Len(p) = Len(b) + 1 /\ p # <<>> /\ Tail(p) = b /\ Head(p) = Len(b)
    BY <1>1, <1>2, <2>1, ConsFacts
  <2> DEFINE o == p # <<>> /\ Head(p) = Len(p) - 1
  <2>3. Unpack(m.type, p) = [ok |-> o, body |-> Tail(p)]
    BY <1>4, ByteFacts DEF Unpack
  <2>4. o = TRUE
    <3> HIDE DEF p, b
    <3>1. Len(b) = Len(p) - 1
      BY <1>1, <2>2
    <3> QED BY <2>2, <3>1
  <2> HIDE DEF p, b, o
  <2>5. Unpack(m.type, p).ok = TRUE /\ Unpack(m.type, p).body = b
    BY <2>2, <2>3, <2>4
  <2> QED BY <1>1, <1>2, <2>2, <2>5 DEF p, b
<1>5. CASE m.type = Command
  <2>1. p = IF b[2] = 0 THEN <<b[1]>> ELSE b
    BY <1>5, ByteFacts DEF Pack
  <2>2. Len(b) = 2 /\ b[1] \in Byte /\ b[2] \in Byte /\ MaxByte >= 2
    <3>1. Len(b) = 2 /\ 1 \in 1 .. Len(b) /\ 2 \in 1 .. Len(b)
      <4>1. Len(b) = 2
        BY <1>1, <1>5
      <4> QED BY <4>1
    <3> QED BY <1>1, <1>2, <3>1, SeqFacts
  <2> DEFINE u == <<p[1], IF Len(p) = 2 THEN p[2] ELSE 0>>
  <2> DEFINE o == Len(p) \in {1, 2}
  <2>3. Unpack(m.type, p) = [ok |-> o, body |-> u]
    BY <1>5, ByteFacts DEF Unpack
  <2> HIDE DEF p
  <2>4. p \in Seq(Byte) /\ Len(p) \in {1, 2} /\ p[1] = b[1] /\ (IF Len(p) = 2 THEN p[2] ELSE 0) = b[2]
    <3>1. CASE b[2] = 0
      <4> HIDE DEF b
      <4>1. p = <<b[1]>>
        BY <2>1, <3>1
      <4> QED BY <2>2, <3>1, <4>1
    <3>2. CASE b[2] # 0
      BY <1>1, <2>1, <2>2, <3>2
    <3> QED BY <3>1, <3>2
  <2>5. u = b
    <3> HIDE DEF b
    <3>1. u = <<b[1], b[2]>>
      BY <2>4
    <3>2. <<b[1], b[2]>> \in Seq(Byte) /\ Len(<<b[1], b[2]>>) = 2
      BY <2>2
    <3>3. \A i \in 1 .. 2 : <<b[1], b[2]>>[i] = b[i]
      OBVIOUS
    <3>4. b = <<b[1], b[2]>>
      BY <1>1, <2>2, <3>2, <3>3, SeqEqual
    <3> QED BY <3>1, <3>4
  <2>8. o = TRUE
    BY <2>4
  <2> HIDE DEF u, b, o
  <2>6. Unpack(m.type, p).ok = TRUE /\ Unpack(m.type, p).body = b
    BY <2>3, <2>5, <2>8
  <2>7. Len(p) \in 1 .. MaxByte
    BY <1>2, <2>2, <2>4
  <2> QED BY <2>4, <2>6, <2>7 DEF p, b
<1> QED BY <1>1, <1>3, <1>4, <1>5

LEMMA ContentFacts ==
  ASSUME NEW m \in Message, NEW c \in Counter
  PROVE  /\ Content(m, c) \in Seq(Byte) /\ Len(Content(m, c)) = 3 + Len(Pack(m))
         /\ Content(m, c)[1] = Len(Pack(m)) /\ Content(m, c)[2] = m.type /\ Content(m, c)[3] = c
         /\ \A i \in 1 .. Len(Pack(m)) : Content(m, c)[3 + i] = Pack(m)[i]
         /\ Len(Pack(m)) \in 1 .. MaxByte /\ CrcByte(Content(m, c)) \in Byte
<1> DEFINE p == Pack(m)
           l == Len(p)
           t == m.type
           h == <<l, t, c>>
<1>1. p \in Seq(Byte) /\ l \in 1 .. MaxByte
  BY PackFacts
<1>2. MaxByte \in Nat /\ t \in Byte /\ c \in Byte
  BY MessageFacts, ByteFacts
<1>3. l \in Byte /\ l \in Nat
  BY <1>1, <1>2 DEF Byte
<1>4. Content(m, c) = h \o p
  BY DEF Content
<1> HIDE DEF p, l, t
<1>5. h \in Seq(Byte) /\ Len(h) = 3 /\ h[1] = l /\ h[2] = t /\ h[3] = c
  BY <1>2, <1>3
<1> HIDE DEF h
<1>6. h \o p \in Seq(Byte) /\ Len(h \o p) = 3 + l
  <2>1. h \o p \in Seq(Byte) /\ Len(h \o p) = Len(h) + Len(p)
    BY <1>1, <1>5, ConcatProperties
  <2> QED BY <1>5, <2>1 DEF l
<1>7. \A i \in 1 .. 3 + l : (h \o p)[i] = IF i <= 3 THEN h[i] ELSE p[i - 3]
  <2>1. \A i \in 1 .. Len(h) + Len(p) : (h \o p)[i] = IF i <= Len(h) THEN h[i] ELSE p[i - Len(h)]
    BY <1>1, <1>5, ConcatProperties
  <2> QED BY <1>5, <2>1 DEF l
<1>8. (h \o p)[1] = l /\ (h \o p)[2] = t /\ (h \o p)[3] = c
  <2>1. /\ 1 \in 1 .. 3 + l /\ 2 \in 1 .. 3 + l /\ 3 \in 1 .. 3 + l
        /\ 1 <= 3 /\ 2 <= 3 /\ 3 <= 3
    BY <1>3
  <2>2. ASSUME NEW j \in 1 .. 3 + l, j <= 3
        PROVE  (h \o p)[j] = h[j]
    BY <1>7, <2>2
  <2>3. (h \o p)[1] = h[1] /\ (h \o p)[2] = h[2] /\ (h \o p)[3] = h[3]
    BY <2>1, <2>2, Zenon
  <2> QED BY <1>5, <2>3
<1>9. \A i \in 1 .. l : (h \o p)[3 + i] = p[i]
  <2> TAKE i \in 1 .. l
  <2>1. PICK j : j = 3 + i
    OBVIOUS
  <2>2. j \in 1 .. 3 + l /\ ~(j <= 3) /\ j - 3 = i
    BY <1>3, <2>1
  <2>3. (h \o p)[j] = p[j - 3]
    BY <1>7, <2>2
  <2> QED BY <2>1, <2>2, <2>3
<1> QED BY <1>1, <1>4, <1>6, <1>8, <1>9, CrcAssumption DEF p, l, t

LEMMA FrameFacts ==
  ASSUME NEW n \in Nat, NEW m \in Message, NEW c \in Counter
  PROVE  LET f == Frame(n, m, c)
             k == Content(m, c)
         IN  /\ f \in Seq(Symbol) /\ Len(f) = Len(k) + 3 /\ Len(k) \in Nat
             /\ f[1].val = Marker1 /\ f[2].val = Marker2
             /\ \A i \in 1 .. Len(k) : f[2 + i].val = k[i]
             /\ \A i \in 1 .. Len(k) + 2 : f[i].of = 0
             /\ f[Len(k) + 3].of = n /\ f[Len(k) + 3].val = CrcByte(k)
<1> DEFINE k == Content(m, c)
           h == <<Marker1, Marker2>>
           bytes == h \o k
           body == [i \in DOMAIN bytes |-> Plain(bytes[i])]
           crc == [val |-> CrcByte(k), of |-> n]
           f == Frame(n, m, c)
<1>1. k \in Seq(Byte) /\ CrcByte(k) \in Byte /\ Len(k) \in Nat
  BY ContentFacts, SeqFacts
<1>2. f = Append(body, crc)
  BY DEF Frame
<1>3. crc \in Symbol /\ crc.of = n /\ crc.val = CrcByte(k)
  BY <1>1 DEF Symbol
<1> HIDE DEF k, crc
<1>4. h \in Seq(Byte) /\ Len(h) = 2 /\ h[1] = Marker1 /\ h[2] = Marker2
  BY ByteFacts
<1> HIDE DEF h
<1>5. /\ bytes \in Seq(Byte) /\ Len(bytes) = Len(k) + 2
      /\ \A i \in 1 .. Len(k) + 2 : bytes[i] = IF i <= 2 THEN h[i] ELSE k[i - 2]
  <2>1. /\ h \o k \in Seq(Byte) /\ Len(h \o k) = Len(h) + Len(k)
        /\ \A i \in 1 .. Len(h) + Len(k) : (h \o k)[i] = IF i <= Len(h) THEN h[i] ELSE k[i - Len(h)]
    BY <1>1, <1>4, ConcatProperties
  <2>2. Len(h) + Len(k) = Len(k) + 2
    BY <1>1, <1>4
  <2> QED BY <1>4, <2>1, <2>2
<1> HIDE DEF bytes
<1>6. /\ DOMAIN bytes = 1 .. Len(k) + 2
      /\ \A i \in 1 .. Len(k) + 2 : bytes[i] \in Byte
  <2>1. DOMAIN bytes = 1 .. Len(bytes) /\ \A i \in 1 .. Len(bytes) : bytes[i] \in Byte
    BY <1>5, SeqFacts
  <2> QED BY <1>5, <2>1
<1>7. \A b \in Byte : Plain(b) \in Symbol /\ Plain(b).val = b /\ Plain(b).of = 0
  BY DEF Plain, Symbol
<1>8. /\ body \in Seq(Symbol) /\ Len(body) = Len(k) + 2
      /\ \A i \in 1 .. Len(k) + 2 : body[i].val = bytes[i] /\ body[i].of = 0
  <2>1. Len(k) + 2 \in Nat
    BY <1>1
  <2>2. body = [i \in 1 .. Len(k) + 2 |-> Plain(bytes[i])]
    BY <1>6
  <2>3. \A i \in 1 .. Len(k) + 2 : Plain(bytes[i]) \in Symbol
    BY <1>6, <1>7
  <2> DEFINE d == Len(k) + 2
  <2> HIDE DEF d
  <2>4. body \in [1 .. d -> Symbol]
    BY <2>2, <2>3 DEF d
  <2>5. body \in Seq(Symbol) /\ Len(body) = d
    <3>1. d \in Nat
      BY <2>1 DEF d
    <3>2. body \in Seq(Symbol)
      BY <2>4, <3>1, SeqDef
    <3>3. DOMAIN body = 1 .. d /\ DOMAIN body = 1 .. Len(body) /\ Len(body) \in Nat
      BY <2>4, <3>2, SeqFacts
    <3> QED BY <3>1, <3>2, <3>3
  <2>6. \A i \in 1 .. Len(k) + 2 : body[i].val = bytes[i] /\ body[i].of = 0
    BY <1>6, <1>7, <2>2
  <2> QED BY <2>5, <2>6 DEF d
<1> HIDE DEF body, f
<1>9. /\ f \in Seq(Symbol) /\ Len(f) = Len(k) + 2 + 1
      /\ \A i \in 1 .. Len(k) + 2 : f[i] = body[i]
      /\ f[Len(k) + 2 + 1] = crc
  BY <1>2, <1>3, <1>8, AppendFacts
<1>10. Len(k) + 2 + 1 = Len(k) + 3
  BY <1>1
<1>11. \A i \in 1 .. Len(k) + 2 : f[i].val = bytes[i] /\ f[i].of = 0
  BY <1>8, <1>9
<1>12. f[1].val = Marker1 /\ f[2].val = Marker2
  BY <1>1, <1>4, <1>5, <1>11
<1>13. \A i \in 1 .. Len(k) : f[2 + i].val = k[i]
  <2> TAKE i \in 1 .. Len(k)
  <2>1. 2 + i \in 1 .. Len(k) + 2 /\ ~(2 + i <= 2) /\ (2 + i) - 2 = i
    BY <1>1
  <2> QED BY <1>5, <1>11, <2>1
<1> QED BY <1>1, <1>3, <1>9, <1>10, <1>11, <1>12, <1>13 DEF k, f

\* What arrives of a frame: at most one symbol is a CRC, and it is that of n.
ArrivesOf(s, n) ==
  /\ s \in Seq(Symbol)
  /\ \A i \in 1 .. Len(s) : s[i].of \in {0, n}
  /\ \A i, j \in 1 .. Len(s) : s[i].of = n /\ s[j].of = n => i = j

LEMMA Arrivals ==
  ASSUME NEW n \in Nat \ {0}, NEW m \in Message, NEW c \in Counter,
         NEW s, s \in {<<>>, Frame(n, m, c)} \cup Damaged(Frame(n, m, c))
  PROVE  ArrivesOf(s, n)
<1>1. PICK f : f = Frame(n, m, c)
  OBVIOUS
<1>2. PICK l : l = Len(f)
  OBVIOUS
<1>3. /\ f \in Seq(Symbol) /\ l \in Nat /\ l >= 1 /\ DOMAIN f = 1 .. l
      /\ \A i \in 1 .. l : f[i] \in Symbol
      /\ f[l].of = n /\ \A i \in 1 .. l : i # l => f[i].of = 0
  <2>1. /\ f \in Seq(Symbol) /\ Len(f) = Len(Content(m, c)) + 3 /\ Len(Content(m, c)) \in Nat
        /\ \A i \in 1 .. Len(Content(m, c)) + 2 : f[i].of = 0
        /\ f[Len(Content(m, c)) + 3].of = n
    BY <1>1, FrameFacts
  <2>2. DOMAIN f = 1 .. l /\ \A i \in 1 .. l : f[i] \in Symbol
    BY <1>2, <2>1, SeqFacts
  <2>3. l = Len(Content(m, c)) + 3 /\ l \in Nat /\ l >= 1
    BY <1>2, <2>1
  <2>4. \A i \in 1 .. l : i # l => i \in 1 .. Len(Content(m, c)) + 2
    BY <2>1, <2>3
  <2> QED BY <1>2, <2>1, <2>2, <2>3, <2>4
<1>4. CASE s = <<>>
  <2>1. s \in Seq(Symbol) /\ Len(s) = 0
    BY <1>4
  <2> QED BY <2>1 DEF ArrivesOf
<1>5. CASE s = f
  BY <1>2, <1>3, <1>5 DEF ArrivesOf
<1>6. ASSUME NEW i \in 1 .. l, NEW b \in Noise, s = ReplaceAt(f, i, Plain(b))
      PROVE  ArrivesOf(s, n)
  <2>1. Plain(b) \in Symbol /\ Plain(b).of = 0
    BY FramingAssumption DEF Plain, Symbol
  <2>2. /\ s \in Seq(Symbol) /\ Len(s) = l
        /\ \A j \in 1 .. l : s[j] = IF j = i THEN Plain(b) ELSE f[j]
    BY <1>2, <1>3, <1>6, <2>1, ExceptSeq DEF ReplaceAt
  <2>3. \A j \in 1 .. l : s[j].of = 0 \/ (s[j].of = n /\ j = l)
    BY <1>3, <2>1, <2>2
  <2> QED BY <2>2, <2>3 DEF ArrivesOf
<1>7. ASSUME NEW a \in 1 .. l, NEW b \in 1 .. l, a <= b, s = Without(f, a, b)
      PROVE  ArrivesOf(s, n)
  <2> DEFINE x == SubSeq(f, 1, a - 1)
             y == SubSeq(f, b + 1, l)
  <2>1. /\ x \in Seq(Symbol) /\ Len(x) = a - 1
        /\ \A i \in 1 .. a - 1 : x[i] = f[i]
    <3>1. 1 \in Int /\ a - 1 \in Int /\ \A i \in 1 .. a - 1 : f[i] \in Symbol
      BY <1>3
    <3>2. /\ x \in Seq(Symbol) /\ Len(x) = IF 1 <= a - 1 THEN a - 1 - 1 + 1 ELSE 0
          /\ \A i \in 1 .. a - 1 - 1 + 1 : x[i] = f[1 + i - 1]
      BY <3>1, SubSeqProperties
    <3> QED BY <1>3, <3>2
  <2>2. y \in Seq(Symbol) /\ IsRest(y, f, b)
    <3>1. b \in 0 .. l
      BY <1>3
    <3> QED BY <1>2, <1>3, <3>1, SubSeqRest
  <2>3. s = x \o y
    BY <1>2, <1>7 DEF Without
  <2> HIDE DEF x, y
  <2>4. /\ s \in Seq(Symbol) /\ Len(s) = Len(x) + Len(y)
        /\ \A i \in 1 .. Len(x) + Len(y) : s[i] = IF i <= Len(x) THEN x[i] ELSE y[i - Len(x)]
    BY <2>1, <2>2, <2>3, ConcatProperties
  <2>5. Len(y) = l - b /\ \A i \in 1 .. l - b : y[i] = f[i + b]
    BY <1>2, <2>2 DEF IsRest
  \* Only the last symbol of what is left can be the CRC.
  <2>6. ASSUME NEW i \in 1 .. Len(s)
        PROVE  s[i].of = 0 \/ (s[i].of = n /\ i = Len(s))
    <3>1. CASE i <= a - 1
      <4>1. s[i] = f[i] /\ i \in 1 .. l /\ i # l
        BY <1>3, <2>1, <2>4, <3>1
      <4> QED BY <1>3, <4>1
    <3>2. CASE ~(i <= a - 1)
      <4>1. PICK j : j = i - (a - 1)
        OBVIOUS
      <4>2. j \in 1 .. l - b /\ j + b \in 1 .. l /\ (j + b = l => i = Len(s))
        BY <1>3, <2>1, <2>4, <2>5, <3>2, <4>1
      <4>3. s[i] = f[j + b]
        BY <2>1, <2>4, <2>5, <3>2, <4>1, <4>2
      <4> QED BY <1>3, <4>2, <4>3
    <3> QED BY <3>1, <3>2
  <2> QED BY <2>4, <2>6 DEF ArrivesOf
<1>8. \/ s = <<>> \/ s = f
      \/ \E i \in 1 .. l, b \in Noise : s = ReplaceAt(f, i, Plain(b))
      \/ \E a, b \in 1 .. l : a <= b /\ s = Without(f, a, b)
  <2>1. CASE s \in Damaged(f)
    <3>1. CASE \E i \in DOMAIN f, b \in Noise : s = ReplaceAt(f, i, Plain(b))
      BY <1>3, <3>1
    <3>2. CASE \E r \in (DOMAIN f) \X (DOMAIN f) : r[1] <= r[2] /\ s = Without(f, r[1], r[2])
      BY <1>3, <3>2
    <3> QED BY <2>1, <3>1, <3>2 DEF Damaged
  <2> QED BY <1>1, <2>1
<1> QED BY <1>4, <1>5, <1>6, <1>7, <1>8

-----------------------------------------------------------------------------
(* The symbols between the sender and the parser.                           *)

\* The CRC of message a comes before the CRC of message b: of two messages of
\* one type the earlier one was sent first, and only a text comes twice.
Follows(s, a, b) ==
  s[a].message.type = s[b].message.type =>
    a < b \/ (a = b /\ s[a].message.type = Text)

\* The CRCs in the symbols q come in the order of sending, behind those of the
\* messages delivered.
InOrder(q, s, d) ==
  /\ \A i \in 1 .. Len(q) : q[i].of # 0 => q[i].of \in 1 .. Len(s)
  /\ \A i, j \in 1 .. Len(q) :
       i < j /\ q[i].of # 0 /\ q[j].of # 0 => Follows(s, q[i].of, q[j].of)
  /\ \A k \in 1 .. Len(d), j \in 1 .. Len(q) :
       q[j].of # 0 => Follows(s, d[k].of, q[j].of)

\* Every message delivered is one that was sent.
Genuine(s, d) ==
  \A k \in 1 .. Len(d) : d[k].of \in 1 .. Len(s) /\ d[k].message = s[d[k].of].message

\* The slot for texts holds the counter of the last text delivered.
SlotIsLast(s, d, slot) ==
  \A k \in 1 .. Len(d) :
    /\ s[d[k].of].message.type = Text
    /\ \A j \in 1 .. Len(d) : s[d[j].of].message.type = Text => d[j].of <= d[k].of
    => slot = Taken(s[d[k].of].counter)

LEMMA JoinFacts ==
  ASSUME NEW S, NEW a \in Seq(S), NEW b \in Seq(S)
  PROVE  /\ a \o b \in Seq(S) /\ Len(a \o b) = Len(a) + Len(b)
         /\ Len(a) \in Nat /\ Len(b) \in Nat
         /\ \A i \in 1 .. Len(a) + Len(b) : (a \o b)[i] = IF i <= Len(a) THEN a[i] ELSE b[i - Len(a)]
BY ConcatProperties, LenProperties

LEMMA MoveOne ==
  ASSUME NEW a \in Seq(Symbol), NEW b \in Seq(Symbol), b # <<>>
  PROVE  /\ Append(a, Head(b)) \in Seq(Symbol) /\ Tail(b) \in Seq(Symbol)
         /\ Append(a, Head(b)) \o Tail(b) = a \o b
         /\ Len(Append(a, Head(b))) = Len(a) + 1 /\ Len(a) \in Nat
<1>1. PICK h \in Symbol, r \in Seq(Symbol) : h = Head(b) /\ r = Tail(b)
  BY HeadTailProperties
<1>2. /\ h = b[1] /\ Len(r) = Len(b) - 1 /\ Len(b) \in Nat \ {0}
      /\ \A i \in 1 .. Len(b) - 1 : r[i] = b[i + 1]
  <2>1. Len(b) \in Nat /\ Len(b) # 0 /\ Head(b) = b[1]
    BY SeqFacts
  <2>2. Len(r) = Len(b) - 1 /\ \A i \in 1 .. Len(r) : r[i] = b[i + 1]
    BY <1>1, HeadTailProperties
  <2> QED BY <1>1, <2>1, <2>2
<1>3. PICK x : x = Append(a, h)
  OBVIOUS
<1>4. /\ x \in Seq(Symbol) /\ Len(x) = Len(a) + 1 /\ x[Len(a) + 1] = h /\ Len(a) \in Nat
      /\ \A i \in 1 .. Len(a) : x[i] = a[i]
  BY <1>3, AppendFacts
<1>5. /\ x \o r \in Seq(Symbol) /\ Len(x \o r) = Len(x) + Len(r)
      /\ \A i \in 1 .. Len(x) + Len(r) : (x \o r)[i] = IF i <= Len(x) THEN x[i] ELSE r[i - Len(x)]
  BY <1>4, JoinFacts
<1>6. /\ a \o b \in Seq(Symbol) /\ Len(a \o b) = Len(a) + Len(b)
      /\ \A i \in 1 .. Len(a) + Len(b) : (a \o b)[i] = IF i <= Len(a) THEN a[i] ELSE b[i - Len(a)]
  BY JoinFacts
<1>7. Len(x) + Len(r) = Len(a) + Len(b)
  BY <1>2, <1>4
<1>8. ASSUME NEW i \in 1 .. Len(a) + Len(b)
      PROVE  (x \o r)[i] = (a \o b)[i]
  <2>1. (x \o r)[i] = (IF i <= Len(x) THEN x[i] ELSE r[i - Len(x)])
    BY <1>5, <1>7
  <2>2. (a \o b)[i] = (IF i <= Len(a) THEN a[i] ELSE b[i - Len(a)])
    BY <1>6
  <2>3. CASE i <= Len(a)
    <3>1. i \in 1 .. Len(a) /\ i <= Len(x)
      BY <1>4, <2>3
    <3> QED BY <1>4, <2>1, <2>2, <3>1
  <2>4. CASE i = Len(a) + 1
    <3>1. i <= Len(x) /\ ~(i <= Len(a)) /\ i - Len(a) = 1
      BY <1>4, <2>4
    <3> QED BY <1>2, <1>4, <2>1, <2>2, <2>4, <3>1
  <2>5. CASE i > Len(a) + 1
    <3>1. PICK j : j = i - Len(x)
      OBVIOUS
    <3>2. j \in 1 .. Len(b) - 1 /\ j + 1 = i - Len(a) /\ ~(i <= Len(x)) /\ ~(i <= Len(a))
      BY <1>2, <1>4, <2>5, <3>1
    <3>3. r[j] = b[j + 1]
      BY <1>2, <3>2
    <3> QED BY <2>1, <2>2, <3>1, <3>2, <3>3
  <2>6. i <= Len(a) \/ i = Len(a) + 1 \/ i > Len(a) + 1
    <3>1. i \in Nat /\ Len(a) \in Nat
      BY <1>2, <1>4
    <3> QED BY <3>1
  <2> QED BY <2>3, <2>4, <2>5, <2>6
<1>9. x \o r = a \o b
  BY <1>5, <1>6, <1>7, <1>8, SeqEqual
<1> QED BY <1>1, <1>3, <1>4, <1>9

LEMMA RestOfJoin ==
  ASSUME NEW a \in Seq(Symbol), NEW b \in Seq(Symbol), NEW r \in Seq(Symbol), NEW k, IsRest(r, a, k)
  PROVE  IsRest(r \o b, a \o b, k)
<1>1. /\ k \in 0 .. Len(a) /\ Len(r) = Len(a) - k
      /\ \A i \in 1 .. Len(r) : r[i] = a[i + k]
  BY DEF IsRest
<1>2. /\ Len(r \o b) = Len(r) + Len(b) /\ Len(r) \in Nat /\ Len(b) \in Nat
      /\ \A i \in 1 .. Len(r) + Len(b) : (r \o b)[i] = IF i <= Len(r) THEN r[i] ELSE b[i - Len(r)]
  BY JoinFacts
<1>3. /\ Len(a \o b) = Len(a) + Len(b) /\ Len(a) \in Nat
      /\ \A i \in 1 .. Len(a) + Len(b) : (a \o b)[i] = IF i <= Len(a) THEN a[i] ELSE b[i - Len(a)]
  BY JoinFacts
<1>4. k \in 0 .. Len(a \o b) /\ Len(r \o b) = Len(a \o b) - k
  BY <1>1, <1>2, <1>3
<1>5. ASSUME NEW i \in 1 .. Len(r \o b)
      PROVE  (r \o b)[i] = (a \o b)[i + k]
  <2>1. PICK j : j = i + k
    OBVIOUS
  <2>2. /\ i \in 1 .. Len(r) + Len(b) /\ j \in 1 .. Len(a) + Len(b)
        /\ (i <= Len(r)) = (j <= Len(a)) /\ i - Len(r) = j - Len(a)
    BY <1>1, <1>2, <1>3, <2>1
  <2>3. /\ (r \o b)[i] = (IF i <= Len(r) THEN r[i] ELSE b[i - Len(r)])
        /\ (a \o b)[j] = (IF j <= Len(a) THEN a[j] ELSE b[j - Len(a)])
    BY <1>2, <1>3, <2>2
  <2>4. ASSUME i <= Len(r) PROVE r[i] = a[j]
    <3>1. i \in 1 .. Len(r)
      BY <1>2, <2>4
    <3> QED BY <1>1, <2>1, <3>1
  <2>5. CASE i <= Len(r)
    BY <2>1, <2>2, <2>3, <2>4, <2>5
  <2>6. CASE ~(i <= Len(r))
    BY <2>1, <2>2, <2>3, <2>6
  <2> QED BY <2>5, <2>6
<1> QED BY <1>4, <1>5 DEF IsRest

LEMMA InOrderRest ==
  ASSUME NEW q \in Seq(Symbol), NEW s, NEW d, NEW r, NEW k,
         InOrder(q, s, d), IsRest(r, q, k)
  PROVE  InOrder(r, s, d)
<1>1. /\ k \in Nat /\ Len(q) \in Nat /\ Len(r) = Len(q) - k /\ k <= Len(q)
      /\ \A i \in 1 .. Len(r) : r[i] = q[i + k]
  BY SeqFacts DEF IsRest
<1>2. \A i \in 1 .. Len(r) : i + k \in 1 .. Len(q)
  BY <1>1
<1>3. \A i, j \in 1 .. Len(r) : i < j => i + k < j + k
  BY <1>1
<1>4. \A i \in 1 .. Len(r) : r[i].of # 0 => r[i].of \in 1 .. Len(s)
  <2> TAKE i \in 1 .. Len(r)
  <2>1. i + k \in 1 .. Len(q) /\ r[i] = q[i + k]
    BY <1>1, <1>2
  <2> QED BY <2>1 DEF InOrder
<1>5. ASSUME NEW i \in 1 .. Len(r), NEW j \in 1 .. Len(r), i < j, r[i].of # 0, r[j].of # 0
      PROVE  Follows(s, r[i].of, r[j].of)
  <2>1. i + k \in 1 .. Len(q) /\ r[i] = q[i + k] /\ j + k \in 1 .. Len(q) /\ r[j] = q[j + k]
    BY <1>1, <1>2
  <2>2. i + k < j + k
    BY <1>3, <1>5
  <2> QED BY <1>5, <2>1, <2>2 DEF InOrder
<1>6. ASSUME NEW n \in 1 .. Len(d), NEW j \in 1 .. Len(r), r[j].of # 0
      PROVE  Follows(s, d[n].of, r[j].of)
  <2>1. j + k \in 1 .. Len(q) /\ r[j] = q[j + k]
    BY <1>1, <1>2
  <2> QED BY <1>6, <2>1 DEF InOrder
<1> QED BY <1>4, <1>5, <1>6 DEF InOrder

\* A message is delivered, the symbols up to its CRC are gone.
LEMMA InOrderDeliver ==
  ASSUME NEW q \in Seq(Symbol), NEW s, NEW d \in Seq(DeliveredRecord), NEW r, NEW k,
         InOrder(q, s, d), IsRest(r, q, k), k # 0, q[k].of # 0,
         NEW x \in DeliveredRecord, x.of = q[k].of
  PROVE  InOrder(r, s, Append(d, x))
<1>1. /\ k \in 1 .. Len(q) /\ Len(q) \in Nat /\ Len(r) = Len(q) - k
      /\ \A i \in 1 .. Len(r) : r[i] = q[i + k]
  BY SeqFacts DEF IsRest
<1>2. InOrder(r, s, d)
  BY InOrderRest
<1>3. PICK e : e = Append(d, x)
  OBVIOUS
<1>4. /\ Len(e) = Len(d) + 1 /\ Len(d) \in Nat /\ e[Len(d) + 1] = x
      /\ \A i \in 1 .. Len(d) : e[i] = d[i]
  BY <1>3, AppendFacts
<1>5. ASSUME NEW n \in 1 .. Len(e), NEW j \in 1 .. Len(r), r[j].of # 0
      PROVE  Follows(s, e[n].of, r[j].of)
  <2>1. CASE n \in 1 .. Len(d)
    BY <1>2, <1>4, <1>5, <2>1 DEF InOrder
  <2>2. CASE n = Len(d) + 1
    <3>1. j + k \in 1 .. Len(q) /\ k < j + k /\ r[j] = q[j + k]
      BY <1>1
    <3>2. Follows(s, q[k].of, q[j + k].of)
      BY <1>1, <1>5, <3>1 DEF InOrder
    <3> QED BY <1>4, <2>2, <3>1, <3>2
  <2> QED BY <1>4, <2>1, <2>2
<1> QED BY <1>2, <1>3, <1>5 DEF InOrder

\* The symbols of the frame of message n go behind the others.
LEMMA InOrderArrive ==
  ASSUME NEW q \in Seq(Symbol), NEW s, NEW d, NEW n \in Nat \ {0}, NEW w,
         InOrder(q, s, d), ArrivesOf(w, n), n \in 1 .. Len(s), Len(s) \in Nat,
         \A i \in 1 .. Len(q) : q[i].of # 0 => Follows(s, q[i].of, n),
         \A k \in 1 .. Len(d) : Follows(s, d[k].of, n)
  PROVE  InOrder(q \o w, s, d)
<1>1. PICK u : u = q \o w
  OBVIOUS
<1>2. /\ w \in Seq(Symbol) /\ Len(w) \in Nat
      /\ \A i \in 1 .. Len(w) : w[i].of \in {0, n}
      /\ \A i, j \in 1 .. Len(w) : w[i].of = n /\ w[j].of = n => i = j
  BY SeqFacts DEF ArrivesOf
<1>3. /\ Len(u) = Len(q) + Len(w) /\ Len(q) \in Nat
      /\ \A i \in 1 .. Len(q) + Len(w) : u[i] = IF i <= Len(q) THEN q[i] ELSE w[i - Len(q)]
  BY <1>1, <1>2, JoinFacts
<1>4. ASSUME NEW i \in 1 .. Len(u)
      PROVE  \/ i \in 1 .. Len(q) /\ u[i] = q[i]
             \/ i > Len(q) /\ i - Len(q) \in 1 .. Len(w) /\ u[i] = w[i - Len(q)]
  BY <1>2, <1>3
<1>5. \A i \in 1 .. Len(u) : u[i].of # 0 => u[i].of \in 1 .. Len(s)
  <2> TAKE i \in 1 .. Len(u)
  <2>1. CASE i \in 1 .. Len(q) /\ u[i] = q[i]
    BY <2>1 DEF InOrder
  <2>2. CASE i - Len(q) \in 1 .. Len(w) /\ u[i] = w[i - Len(q)]
    BY <1>2, <2>2
  <2> QED BY <1>4, <2>1, <2>2
<1>6. ASSUME NEW i \in 1 .. Len(u), NEW j \in 1 .. Len(u), i < j, u[i].of # 0, u[j].of # 0
      PROVE  Follows(s, u[i].of, u[j].of)
  <2>1. CASE j \in 1 .. Len(q) /\ u[j] = q[j]
    <3>1. i \in 1 .. Len(q)
      BY <1>3, <1>6, <2>1
    <3>2. u[i] = q[i]
      <4>1. ~(i > Len(q))
        BY <1>3, <3>1
      <4> QED BY <1>4, <4>1
    <3> QED BY <1>6, <2>1, <3>1, <3>2 DEF InOrder
  <2>2. CASE j > Len(q) /\ j - Len(q) \in 1 .. Len(w) /\ u[j] = w[j - Len(q)]
    <3>1. u[j].of = n
      BY <1>2, <1>6, <2>2
    <3>2. CASE i \in 1 .. Len(q) /\ u[i] = q[i]
      BY <1>6, <3>1, <3>2
    <3>3. CASE i - Len(q) \in 1 .. Len(w) /\ u[i] = w[i - Len(q)]
      <4>1. u[i].of = n
        BY <1>2, <1>6, <3>3
      <4>2. i - Len(q) = j - Len(q)
        BY <1>2, <2>2, <3>1, <3>3, <4>1
      <4>3. i = j
        BY <1>2, <1>3, <4>2
      <4> QED BY <1>2, <1>3, <1>6, <4>3
    <3> QED BY <1>4, <3>2, <3>3
  <2> QED BY <1>4, <2>1, <2>2
<1>7. ASSUME NEW k \in 1 .. Len(d), NEW j \in 1 .. Len(u), u[j].of # 0
      PROVE  Follows(s, d[k].of, u[j].of)
  <2>1. CASE j \in 1 .. Len(q) /\ u[j] = q[j]
    BY <1>7, <2>1 DEF InOrder
  <2>2. CASE j - Len(q) \in 1 .. Len(w) /\ u[j] = w[j - Len(q)]
    <3>1. u[j].of = n
      BY <1>2, <1>7, <2>2
    <3> QED BY <3>1
  <2> QED BY <1>4, <2>1, <2>2
<1> QED BY <1>1, <1>5, <1>6, <1>7 DEF InOrder

\* A message more has been sent.
LEMMA MoreSent ==
  ASSUME NEW q \in Seq(Symbol), NEW s \in Seq(SentRecord), NEW d \in Seq(DeliveredRecord),
         NEW slot, NEW x \in SentRecord,
         InOrder(q, s, d), Genuine(s, d), SlotIsLast(s, d, slot)
  PROVE  /\ InOrder(q, Append(s, x), d) /\ Genuine(Append(s, x), d)
         /\ SlotIsLast(Append(s, x), d, slot)
<1>1. PICK t : t = Append(s, x)
  OBVIOUS
<1>2. /\ Len(t) = Len(s) + 1 /\ Len(s) \in Nat
      /\ \A i \in 1 .. Len(s) : t[i] = s[i]
  BY <1>1, AppendFacts
<1>3. \A n \in 1 .. Len(s) : n \in 1 .. Len(t) /\ t[n] = s[n]
  BY <1>2
<1>4. \A k \in 1 .. Len(d) : d[k].of \in 1 .. Len(s)
  BY DEF Genuine
<1>5. \A i \in 1 .. Len(q) : q[i].of # 0 => q[i].of \in 1 .. Len(s)
  BY DEF InOrder
<1>6. InOrder(q, t, d)
  <2>1. \A i \in 1 .. Len(q) : q[i].of # 0 => q[i].of \in 1 .. Len(t)
    BY <1>3, <1>5
  <2>2. \A a, b \in 1 .. Len(s) : Follows(s, a, b) => Follows(t, a, b)
    BY <1>3 DEF Follows
  <2>3. \A i, j \in 1 .. Len(q) :
          i < j /\ q[i].of # 0 /\ q[j].of # 0 => Follows(t, q[i].of, q[j].of)
    BY <1>5, <2>2 DEF InOrder
  <2>4. \A k \in 1 .. Len(d), j \in 1 .. Len(q) :
          q[j].of # 0 => Follows(t, d[k].of, q[j].of)
    BY <1>4, <1>5, <2>2 DEF InOrder
  <2> QED BY <2>1, <2>3, <2>4 DEF InOrder
<1>7. Genuine(t, d)
  BY <1>3, <1>4 DEF Genuine
<1>8. SlotIsLast(t, d, slot)
  <2>1. \A k \in 1 .. Len(d) : t[d[k].of] = s[d[k].of]
    BY <1>3, <1>4
  <2> QED BY <2>1 DEF SlotIsLast
<1> QED BY <1>1, <1>6, <1>7, <1>8

\* Message x is delivered and the slot is filled.
LEMMA OneDelivered ==
  ASSUME NEW s \in Seq(SentRecord), NEW d \in Seq(DeliveredRecord), NEW slot,
         NEW x \in DeliveredRecord, x.of \in 1 .. Len(s), x.message = s[x.of].message,
         Genuine(s, d), SlotIsLast(s, d, slot),
         \A k \in 1 .. Len(d) : Follows(s, d[k].of, x.of)
  PROVE  /\ Genuine(s, Append(d, x))
         /\ SlotIsLast(s, Append(d, x),
              IF s[x.of].message.type = Text THEN Taken(s[x.of].counter) ELSE slot)
<1>1. PICK e : e = Append(d, x)
  OBVIOUS
<1>2. PICK new : new = IF s[x.of].message.type = Text THEN Taken(s[x.of].counter) ELSE slot
  OBVIOUS
<1>3. /\ Len(e) = Len(d) + 1 /\ Len(d) \in Nat /\ e[Len(d) + 1] = x
      /\ \A i \in 1 .. Len(d) : e[i] = d[i]
  BY <1>1, AppendFacts
<1>4. \A k \in 1 .. Len(e) : k \in 1 .. Len(d) \/ k = Len(d) + 1
  BY <1>3
<1>5. Len(d) + 1 \in 1 .. Len(e) /\ \A k \in 1 .. Len(d) : k \in 1 .. Len(e)
  BY <1>3
<1>6. Genuine(s, e)
  BY <1>3, <1>4 DEF Genuine
<1>7. \A k \in 1 .. Len(e) : e[k].of \in Nat
  <2>1. Len(s) \in Nat
    BY SeqFacts
  <2> QED BY <1>6, <2>1 DEF Genuine
<1>8. ASSUME NEW k \in 1 .. Len(e), s[e[k].of].message.type = Text,
             \A j \in 1 .. Len(e) : s[e[j].of].message.type = Text => e[j].of <= e[k].of
      PROVE  new = Taken(s[e[k].of].counter)
  <2>1. CASE s[x.of].message.type = Text
    <3>1. x.of <= e[k].of
      BY <1>3, <1>5, <1>8, <2>1
    <3>2. e[k].of = x.of \/ e[k].of < x.of
      <4>1. CASE k = Len(d) + 1
        BY <1>3, <4>1
      <4>2. CASE k \in 1 .. Len(d)
        <5>1. Follows(s, e[k].of, x.of)
          BY <1>3, <4>2
        <5> QED BY <1>8, <2>1, <5>1 DEF Follows
      <4> QED BY <1>4, <4>1, <4>2
    <3>3. e[k].of \in Nat /\ x.of \in Nat
      BY <1>3, <1>5, <1>7
    <3>4. e[k].of = x.of
      BY <3>1, <3>2, <3>3
    <3> QED BY <1>2, <2>1, <3>4
  <2>2. CASE s[x.of].message.type # Text
    <3>1. k \in 1 .. Len(d) /\ e[k] = d[k]
      BY <1>3, <1>4, <1>8, <2>2
    <3>2. \A j \in 1 .. Len(d) : s[d[j].of].message.type = Text => d[j].of <= d[k].of
      BY <1>3, <1>5, <1>8, <3>1
    <3>3. slot = Taken(s[d[k].of].counter)
      BY <1>8, <3>1, <3>2 DEF SlotIsLast
    <3> QED BY <1>2, <2>2, <3>1, <3>3
  <2> QED BY <2>1, <2>2
<1> QED BY <1>1, <1>2, <1>6, <1>8 DEF SlotIsLast

\* A message that the slot does not take for a resent text is new: of its type
\* only earlier ones were delivered.
LEMMA NotTwice ==
  ASSUME NEW s \in Seq(SentRecord), NEW d \in Seq(DeliveredRecord), NEW slot,
         NEW n \in 1 .. Len(s), Genuine(s, d), SlotIsLast(s, d, slot),
         \A k \in 1 .. Len(d) : Follows(s, d[k].of, n),
         ~(s[n].message.type = Text /\ Resent(slot, s[n].counter)),
         NEW k \in 1 .. Len(d), s[d[k].of].message.type = s[n].message.type
  PROVE  d[k].of < n
<1>1. d[k].of < n \/ (d[k].of = n /\ s[n].message.type = Text)
  BY DEF Follows
<1>2. ASSUME d[k].of = n, s[n].message.type = Text PROVE FALSE
  <2>1. Len(s) \in Nat /\ n \in Nat
    <3>1. Len(s) \in Nat
      BY SeqFacts
    <3> QED BY <3>1
  <2>2. ASSUME NEW j \in 1 .. Len(d), s[d[j].of].message.type = Text
        PROVE  d[j].of <= d[k].of
    <3>1. d[j].of \in Nat
      BY <2>1 DEF Genuine
    <3>2. d[j].of < n \/ d[j].of = n
      BY <1>2, <2>2 DEF Follows
    <3> QED BY <1>2, <2>1, <3>1, <3>2
  <2>3. slot = Taken(s[n].counter)
    BY <1>2, <2>2 DEF SlotIsLast
  <2>4. Resent(slot, s[n].counter)
    BY <2>3 DEF Resent, Taken
  <2> QED BY <1>2, <2>4
<1> QED BY <1>1, <1>2

-----------------------------------------------------------------------------
(* The inductive invariant.                                                 *)

Typed ==
  /\ tx_counter \in [Types -> Counter]
  /\ wire \in Seq(Symbol) /\ rx_buf \in Seq(Symbol)
  /\ parsing \in BOOLEAN
  /\ rx \in [Types -> RxSlot]
  /\ errors \subseteq {"crc"}
  /\ sent \in Seq(SentRecord)
  /\ frames \in Seq(FrameRecord)
  /\ received \in Nat
  /\ delivered \in Seq(DeliveredRecord)

Bounded ==
  /\ Len(rx_buf) <= FrameMax
  /\ ~parsing => Len(rx_buf) < FrameMax
  /\ Len(rx_buf) <= received
  /\ taken \subseteq 1 .. received
  /\ Len(sent) <= Len(frames)

\* The symbols that have left the sender and not the receiver's buffer.
Stream == rx_buf \o wire

Ordered ==
  /\ InOrder(Stream, sent, delivered)
  /\ Genuine(sent, delivered)
  /\ SlotIsLast(sent, delivered, rx[Text])

IInv == Typed /\ Bounded /\ Ordered

LEMMA StreamFacts ==
  ASSUME Typed
  PROVE  /\ Stream \in Seq(Symbol) /\ Len(Stream) = Len(rx_buf) + Len(wire)
         /\ Len(rx_buf) \in Nat /\ Len(wire) \in Nat
         /\ \A i \in 1 .. Len(rx_buf) : Stream[i] = rx_buf[i]
<1>1. rx_buf \in Seq(Symbol) /\ wire \in Seq(Symbol)
  BY DEF Typed
<1>2. /\ Stream \in Seq(Symbol) /\ Len(Stream) = Len(rx_buf) + Len(wire)
      /\ Len(rx_buf) \in Nat /\ Len(wire) \in Nat
      /\ \A i \in 1 .. Len(rx_buf) + Len(wire) :
           Stream[i] = IF i <= Len(rx_buf) THEN rx_buf[i] ELSE wire[i - Len(rx_buf)]
  BY <1>1, JoinFacts DEF Stream
<1>3. \A i \in 1 .. Len(rx_buf) : i \in 1 .. Len(rx_buf) + Len(wire) /\ i <= Len(rx_buf)
  BY <1>2
<1> QED BY <1>2, <1>3

LEMMA UnmarkedFacts ==
  ASSUME Typed
  PROVE  /\ Unmarked \in 0 .. Len(rx_buf)
         /\ \A i \in 1 .. Unmarked : rx_buf[i].val # Marker1
<1> DEFINE I == {i \in 1 .. Len(rx_buf) : rx_buf[i].val = Marker1}
           first == SelectInSeq(rx_buf, LAMBDA s : s.val = Marker1)
<1>1. Len(rx_buf) \in Nat
  BY SeqFacts DEF Typed
<1>2. first = IF I # {} THEN Min(I) ELSE 0
  BY DEF SelectInSeq
<1>3. Unmarked = IF first = 0 THEN Len(rx_buf) ELSE first - 1
  BY DEF Unmarked
<1>4. I # {} => Min(I) \in 1 .. Len(rx_buf) /\ \A i \in I : Min(I) <= i
  <2>1. I \subseteq Nat /\ I \subseteq 1 .. Len(rx_buf)
    BY <1>1
  <2> HIDE DEF I
  <2> QED BY <2>1, MinExists
<1>5. \A i \in 1 .. Len(rx_buf) : rx_buf[i].val = Marker1 <=> i \in I
  OBVIOUS
<1>6. I \subseteq 1 .. Len(rx_buf)
  OBVIOUS
<1> HIDE DEF I, first
<1>7. CASE I = {}
  BY <1>1, <1>2, <1>3, <1>5, <1>7
<1>8. CASE I # {}
  <2>1. PICK k \in 1 .. Len(rx_buf) : k = Min(I) /\ Unmarked = k - 1 /\ \A i \in I : k <= i
    BY <1>1, <1>2, <1>3, <1>4, <1>8
  <2>2. \A i \in 1 .. k - 1 : i \in 1 .. Len(rx_buf) /\ ~(k <= i)
    BY <1>1
  <2> QED BY <1>1, <1>5, <2>1, <2>2
<1> QED BY <1>7, <1>8

LEMMA LastTextFacts ==
  ASSUME Typed, LastText # 0
  PROVE  /\ LastText \in 1 .. Len(sent) /\ sent[LastText].message.type = Text
         /\ \A n \in 1 .. Len(sent) : sent[n].message.type = Text => n <= LastText
<1> DEFINE I == {i \in 1 .. Len(sent) : sent[i].message.type = Text}
<1>1. Len(sent) \in Nat
  BY SeqFacts DEF Typed
<1>2. LastText = IF I # {} THEN Max(I) ELSE 0
  BY DEF LastText, SelectLastInSeq
<1>3. I # {}
  BY <1>2
<1>4. LastText \in I /\ \A n \in I : n <= LastText
  <2>1. I \subseteq 0 .. Len(sent)
    BY <1>1
  <2> HIDE DEF I
  <2> QED BY <1>1, <1>2, <1>3, <2>1, MaxExists
<1> QED BY <1>4

\* A frame that is complete and whose CRC fits carries a message as it was sent.
LEMMA GoodFacts ==
  ASSUME Typed, Ordered, AtFrame, Complete, CrcFits
  PROVE  /\ TotalLen \in 6 .. Len(rx_buf) /\ Len(rx_buf) \in Nat
         /\ BufCrc.of \in 1 .. Len(sent) /\ BufCrc.of # 0
         /\ BufType = sent[BufCrc.of].message.type /\ BufCounter = sent[BufCrc.of].counter
         /\ BufData = Pack(sent[BufCrc.of].message)
         /\ sent[BufCrc.of] \in SentRecord
<1>1. /\ rx_buf \in Seq(Symbol) /\ sent \in Seq(SentRecord)
      /\ Len(rx_buf) \in Nat /\ \A i \in 1 .. Len(rx_buf) : rx_buf[i] \in Symbol
  <2>1. rx_buf \in Seq(Symbol) /\ sent \in Seq(SentRecord)
    BY DEF Typed
  <2> QED BY <2>1, SeqFacts
<1>2. TotalLen \in 6 .. Len(rx_buf)
  <2>1. Len(rx_buf) >= 5 /\ Len(rx_buf) >= TotalLen
    BY DEF Complete, HeaderLen
  <2>2. rx_buf[3].val \in Nat
    <3>1. 3 \in 1 .. Len(rx_buf)
      BY <1>1, <2>1
    <3>2. rx_buf[3].val \in Byte
      BY <1>1, <3>1 DEF Symbol
    <3> QED BY <3>2, ByteFacts
  <2>3. TotalLen = 6 + rx_buf[3].val
    BY <2>2 DEF TotalLen, HeaderLen, CrcLen, ByteAt
  <2> QED BY <1>1, <2>1, <2>2, <2>3
<1>3. PICK t \in 6 .. Len(rx_buf) : t = TotalLen
  BY <1>2
<1>4. PICK n : n = BufCrc.of
  OBVIOUS
<1>5. n # 0 /\ n \in 1 .. Len(sent)
  <2>1. n # 0 /\ n = rx_buf[t].of
    BY <1>3, <1>4 DEF CrcFits, BufCrc
  <2>2. Stream[t] = rx_buf[t] /\ t \in 1 .. Len(Stream)
    <3>1. t \in 1 .. Len(rx_buf)
      BY <1>1, <1>3
    <3>2. /\ Len(Stream) = Len(rx_buf) + Len(wire) /\ Len(wire) \in Nat
          /\ \A i \in 1 .. Len(rx_buf) : Stream[i] = rx_buf[i]
      BY StreamFacts
    <3>3. Len(rx_buf) <= Len(Stream)
      BY <1>1, <3>2
    <3> QED BY <1>1, <3>1, <3>2, <3>3
  <2> QED BY <2>1, <2>2 DEF Ordered, InOrder
<1>6. sent[n] \in SentRecord
  BY <1>1, <1>5, SeqFacts
<1>7. PICK m, c : m = sent[n].message /\ c = sent[n].counter
  OBVIOUS
<1>8. m \in Message /\ c \in Counter
  BY <1>6, <1>7 DEF SentRecord
<1>9. PICK k : k = Content(m, c)
  OBVIOUS
<1>10. /\ k \in Seq(Byte) /\ Len(k) = 3 + Len(Pack(m)) /\ Len(Pack(m)) \in Nat
       /\ k[1] = Len(Pack(m)) /\ k[2] = m.type /\ k[3] = c
       /\ \A i \in 1 .. Len(Pack(m)) : k[3 + i] = Pack(m)[i]
       /\ Pack(m) \in Seq(Byte)
  <2>1. Pack(m) \in Seq(Byte) /\ Len(Pack(m)) \in Nat
    BY <1>8, PackFacts, SeqFacts
  <2> QED BY <1>8, <1>9, <2>1, ContentFacts
<1>11. BufContent = k
  BY <1>4, <1>7, <1>9 DEF CrcFits, Covered
<1>12. t - 3 \in Nat /\ t - 3 >= 3 /\ t - 2 - CrcLen = t - 3
  BY <1>1, <1>3 DEF CrcLen
<1>13. k = [i \in 1 .. t - 3 |-> rx_buf[2 + i].val]
  BY <1>3, <1>11, <1>12 DEF BufContent, ByteAt
<1>14. rx_buf[4].val = m.type /\ rx_buf[5].val = c
  <2>1. 2 \in 1 .. t - 3 /\ 3 \in 1 .. t - 3 /\ 2 + 2 = 4 /\ 2 + 3 = 5
    BY <1>12
  <2>2. k[2] = rx_buf[2 + 2].val /\ k[3] = rx_buf[2 + 3].val
    BY <1>13, <2>1, Zenon
  <2> QED BY <1>10, <2>1, <2>2
<1>15. SubSeq(k, 4, Len(k)) = Pack(m)
  <2>1. Len(k) \in Nat /\ 3 \in 0 .. Len(k) /\ 3 + 1 = 4
    BY <1>10
  <2>2. SubSeq(k, 3 + 1, Len(k)) \in Seq(Byte) /\ IsRest(SubSeq(k, 3 + 1, Len(k)), k, 3)
    BY <1>10, <2>1, SubSeqRest
  <2>3. PICK r : r = SubSeq(k, 4, Len(k))
    OBVIOUS
  <2>4. r \in Seq(Byte) /\ IsRest(r, k, 3)
    BY <2>1, <2>2, <2>3
  <2>5. Len(r) = Len(Pack(m)) /\ \A i \in 1 .. Len(r) : r[i] = k[i + 3]
    BY <1>10, <2>1, <2>4 DEF IsRest
  <2>6. \A i \in 1 .. Len(r) : r[i] = Pack(m)[i]
    <3> TAKE i \in 1 .. Len(r)
    <3>1. 3 + i = i + 3 /\ i \in 1 .. Len(Pack(m))
      BY <1>10, <2>5
    <3> QED BY <1>10, <2>5, <3>1
  <2>7. r = Pack(m)
    BY <1>10, <2>4, <2>5, <2>6, SeqEqual
  <2> QED BY <2>3, <2>7
<1>16. BufType = m.type /\ BufCounter = c /\ BufData = Pack(m)
  BY <1>11, <1>14, <1>15 DEF BufType, BufCounter, BufData, ByteAt
<1> QED BY <1>1, <1>2, <1>4, <1>5, <1>6, <1>7, <1>16

LEMMA DropStep ==
  ASSUME Typed, NEW k \in 0 .. Len(rx_buf), Drop(k), UNCHANGED wire
  PROVE  /\ rx_buf' \in Seq(Symbol) /\ Len(rx_buf') = Len(rx_buf) - k /\ Len(rx_buf) \in Nat
         /\ Stream \in Seq(Symbol) /\ IsRest(Stream', Stream, k)
<1>1. rx_buf \in Seq(Symbol) /\ wire \in Seq(Symbol) /\ wire' = wire
  BY DEF Typed
<1>2. rx_buf' = SubSeq(rx_buf, k + 1, Len(rx_buf)) /\ Len(rx_buf) \in Nat
  BY <1>1, SeqFacts DEF Drop
<1>3. rx_buf' \in Seq(Symbol) /\ IsRest(rx_buf', rx_buf, k)
  BY <1>1, <1>2, SubSeqRest
<1>4. IsRest(rx_buf' \o wire, rx_buf \o wire, k)
  BY <1>1, <1>3, RestOfJoin
<1> QED BY <1>1, <1>2, <1>3, <1>4, StreamFacts DEF IsRest, Stream

\* A step of parse that only drops symbols.
LEMMA DropOK ==
  ASSUME IInv, parsing, NEW k \in 0 .. Len(rx_buf), Drop(k), errors' \subseteq {"crc"},
         UNCHANGED <<tx_counter, wire, parsing, rx, sent, frames, received, delivered>>,
         taken' \subseteq 1 .. received
  PROVE  IInv'
<1>1. /\ rx_buf' \in Seq(Symbol) /\ Len(rx_buf') = Len(rx_buf) - k /\ Len(rx_buf) \in Nat
      /\ Stream \in Seq(Symbol) /\ IsRest(Stream', Stream, k)
  BY DropStep DEF IInv
<1>2. Typed'
  BY <1>1 DEF IInv, Typed
<1>3. Bounded'
  <2>1. FrameMax \in Nat /\ received \in Nat
    BY ByteFacts DEF IInv, Typed, FrameMax, HeaderLen, CrcLen
  <2>2. Len(rx_buf') <= FrameMax /\ Len(rx_buf') <= received
    BY <1>1, <2>1 DEF IInv, Bounded
  <2> QED BY <2>2 DEF IInv, Bounded
<1>4. Ordered'
  <2>1. InOrder(Stream', sent, delivered)
    BY <1>1, InOrderRest DEF IInv, Ordered
  <2> QED BY <2>1 DEF IInv, Ordered
<1> QED BY <1>2, <1>3, <1>4 DEF IInv

LEMMA SkipOK == IInv /\ Skip => IInv'
<1> SUFFICES ASSUME IInv, Skip PROVE IInv'
  OBVIOUS
<1>1. Unmarked \in 0 .. Len(rx_buf)
  BY UnmarkedFacts DEF IInv
<1>2. errors' \subseteq {"crc"} /\ taken' \subseteq 1 .. received
  BY DEF Skip, IInv, Typed, Bounded
<1> QED BY <1>1, <1>2, DropOK DEF Skip

LEMMA MarkerFacts ==
  ASSUME Typed, AtMarker
  PROVE  parsing /\ Len(rx_buf) \in Nat /\ 1 \in 0 .. Len(rx_buf)
<1>1. Len(rx_buf) \in Nat /\ (rx_buf = <<>> <=> Len(rx_buf) = 0)
  BY SeqFacts DEF Typed
<1> QED BY <1>1 DEF AtMarker

LEMMA NotMarkerOK == IInv /\ NotMarker => IInv'
<1> SUFFICES ASSUME IInv, NotMarker PROVE IInv'
  OBVIOUS
<1>1. parsing /\ 1 \in 0 .. Len(rx_buf)
  BY MarkerFacts DEF IInv, NotMarker
<1>2. errors' \subseteq {"crc"} /\ taken' \subseteq 1 .. received
  BY DEF NotMarker, IInv, Typed, Bounded
<1> QED BY <1>1, <1>2, DropOK DEF NotMarker

LEMMA BadCrcOK == IInv /\ BadCrc => IInv'
<1> SUFFICES ASSUME IInv, BadCrc PROVE IInv'
  OBVIOUS
<1>1. parsing /\ 1 \in 0 .. Len(rx_buf)
  BY MarkerFacts DEF IInv, BadCrc, AtFrame
<1>2. errors' \subseteq {"crc"} /\ taken' \subseteq 1 .. received
  BY DEF BadCrc, IInv, Typed, Bounded
<1> QED BY <1>1, <1>2, DropOK DEF BadCrc, Rescan

LEMMA ReceiveOK == IInv /\ Receive => IInv'
<1> SUFFICES ASSUME IInv, Receive PROVE IInv'
  OBVIOUS
<1>1. rx_buf \in Seq(Symbol) /\ wire \in Seq(Symbol) /\ wire # <<>>
  BY DEF IInv, Typed, Receive
<1>2. rx_buf' = Append(rx_buf, Head(wire)) /\ wire' = Tail(wire)
  BY DEF Receive
<1>3. /\ rx_buf' \in Seq(Symbol) /\ wire' \in Seq(Symbol) /\ Stream' = Stream
      /\ Len(rx_buf') = Len(rx_buf) + 1 /\ Len(rx_buf) \in Nat
  BY <1>1, <1>2, MoveOne DEF Stream
<1>4. received' = received + 1 /\ received \in Nat
  BY DEF IInv, Typed, Receive
<1>5. Typed'
  BY <1>3, <1>4 DEF IInv, Typed, Receive
<1>6. Bounded'
  <2>1. FrameMax \in Nat /\ Len(rx_buf) < FrameMax /\ Len(rx_buf) <= received
    BY ByteFacts DEF IInv, Bounded, FrameMax, HeaderLen, CrcLen, Receive
  <2>2. Len(rx_buf') <= FrameMax /\ Len(rx_buf') <= received'
    BY <1>3, <1>4, <2>1
  <2>3. 1 .. received \subseteq 1 .. received'
    BY <1>4
  <2> QED BY <2>2, <2>3 DEF IInv, Bounded, Receive
<1>7. Ordered'
  BY <1>3 DEF IInv, Ordered, Receive
<1> QED BY <1>5, <1>6, <1>7 DEF IInv

LEMMA ReturnOK == IInv /\ Return => IInv'
<1> SUFFICES ASSUME IInv, Return PROVE IInv'
  OBVIOUS
<1>1. Typed'
  BY DEF IInv, Typed, Return
<1>2. Len(rx_buf) < FrameMax
  <2>1. FrameMax = 6 + MaxByte /\ MaxByte \in Nat
    BY ByteFacts DEF FrameMax, HeaderLen, CrcLen
  <2>2. Len(rx_buf) \in Nat /\ (rx_buf = <<>> => Len(rx_buf) = 0)
    BY SeqFacts DEF IInv, Typed
  <2>3. CASE rx_buf = <<>>
    BY <2>1, <2>2, <2>3
  <2>4. CASE Len(rx_buf) < 2
    BY <2>1, <2>2, <2>4
  <2>5. CASE AtFrame /\ ~Complete
    <3>1. CASE Len(rx_buf) < 5
      BY <2>1, <2>2, <3>1
    <3>2. CASE Len(rx_buf) >= 5
      <4>1. ByteAt(3) \in Nat /\ ByteAt(3) <= MaxByte
        <5>1. 3 \in 1 .. Len(rx_buf) /\ rx_buf \in Seq(Symbol)
          BY <2>2, <3>2 DEF IInv, Typed
        <5>2. rx_buf[3] \in Symbol
          BY <5>1, SeqFacts
        <5>3. rx_buf[3].val \in Byte
          BY <5>2 DEF Symbol
        <5> QED BY <5>3, ByteFacts DEF ByteAt
      <4>2. ~(Len(rx_buf) >= 6 + ByteAt(3))
        <5>1. TotalLen = 6 + ByteAt(3)
          BY <4>1 DEF TotalLen, HeaderLen, CrcLen
        <5> QED BY <2>5, <3>2, <5>1 DEF Complete, HeaderLen
      <4> QED BY <2>1, <2>2, <4>1, <4>2
    <3> QED BY <2>2, <3>1, <3>2
  <2> QED BY <2>3, <2>4, <2>5 DEF Return
<1>3. Bounded'
  BY <1>2 DEF IInv, Bounded, Return
<1>4. Ordered'
  BY DEF IInv, Ordered, Stream, Return
<1> QED BY <1>1, <1>3, <1>4 DEF IInv

\* A frame goes on the line: the symbols that arrive of it, whatever its fate.
LEMMA TransmitFacts ==
  ASSUME Typed, NEW n \in Nat \ {0}, NEW m \in Message, NEW c \in Counter, Transmit(n, m, c)
  PROVE  /\ wire = <<>> /\ ~parsing /\ ArrivesOf(wire', n) /\ wire' \in Seq(Symbol)
         /\ Stream' = Stream \o wire'
         /\ frames' \in Seq(FrameRecord) /\ Len(frames') = Len(frames) + 1 /\ Len(frames) \in Nat
         /\ UNCHANGED <<rx_buf, parsing, rx, errors, received, taken, delivered>>
         /\ \E x \in FrameRecord :
              /\ frames' = Append(frames, x)
              /\ x.of = n /\ x.last = received + Len(wire')
              /\ x.fate = "whole" => wire' = Frame(n, m, c)
              /\ x.fate = "lost" => wire' = <<>>
<1>1. /\ wire = <<>> /\ ~parsing
      /\ UNCHANGED <<rx_buf, parsing, rx, errors, received, taken, delivered>>
  BY DEF Transmit
<1>2. PICK f : f = Frame(n, m, c)
  OBVIOUS
<1>3. PICK fate \in {"whole", "lost", "damaged"} :
        /\ wire' \in {<<>>, f} \cup Damaged(f)
        /\ fate = "whole" => wire' = f
        /\ fate = "lost" => wire' = <<>>
        /\ frames' = Append(frames, [of |-> n, last |-> received + Len(wire'), fate |-> fate])
  <2>1. \/ /\ wire' = f
           /\ frames' = Append(frames, [of |-> n, last |-> received + Len(f), fate |-> "whole"])
        \/ /\ wire' = <<>>
           /\ frames' = Append(frames, [of |-> n, last |-> received + Len(<<>>), fate |-> "lost"])
        \/ \E symbols \in Damaged(f) :
             /\ wire' = symbols
             /\ frames' = Append(
                     frames, [of |-> n, last |-> received + Len(symbols), fate |-> "damaged"])
    BY <1>2 DEF Transmit
  <2>2. CASE /\ wire' = f
             /\ frames' = Append(frames, [of |-> n, last |-> received + Len(f), fate |-> "whole"])
    BY <2>2
  <2>3. CASE /\ wire' = <<>>
             /\ frames' = Append(frames, [of |-> n, last |-> received + Len(<<>>), fate |-> "lost"])
    BY <2>3
  <2>4. CASE \E symbols \in Damaged(f) :
               /\ wire' = symbols
               /\ frames' = Append(
                       frames, [of |-> n, last |-> received + Len(symbols), fate |-> "damaged"])
    BY <2>4
  <2> QED BY <2>1, <2>2, <2>3, <2>4
<1>4. ArrivesOf(wire', n)
  BY <1>2, <1>3, Arrivals
<1>5. wire' \in Seq(Symbol)
  BY <1>4 DEF ArrivesOf
<1>6. /\ frames' \in Seq(FrameRecord) /\ Len(frames') = Len(frames) + 1 /\ Len(frames) \in Nat
      /\ \E x \in FrameRecord :
           /\ frames' = Append(frames, x)
           /\ x.of = n /\ x.last = received + Len(wire') /\ x.fate = fate
  <2>1. received \in Nat /\ Len(wire') \in Nat /\ frames \in Seq(FrameRecord)
    BY <1>5, SeqFacts DEF Typed
  <2>2. received + Len(wire') \in Nat
    BY <2>1
  <2>3. PICK x \in FrameRecord : x = [of |-> n, last |-> received + Len(wire'), fate |-> fate]
    BY <2>2 DEF FrameRecord
  <2> QED BY <1>3, <2>1, <2>3, AppendFacts
<1>7. Stream' = Stream \o wire'
  <2>1. rx_buf \in Seq(Symbol) /\ rx_buf \o <<>> = rx_buf
    BY ConcatEmptySeq DEF Typed
  <2> QED BY <1>1, <2>1 DEF Stream
<1> QED BY <1>1, <1>2, <1>3, <1>4, <1>5, <1>6, <1>7

LEMMA SendMessageFacts ==
  ASSUME Typed, SendMessage
  PROVE  \E m \in Message :
           /\ Transmit(Len(sent) + 1, m, tx_counter[m.type])
           /\ sent' = Append(sent, [message |-> m, counter |-> tx_counter[m.type]])
           /\ tx_counter' = [tx_counter EXCEPT ![m.type] = Inc(tx_counter[m.type])]
           /\ m.type \in Types /\ tx_counter[m.type] \in Counter
<1>1. PICK m \in Message :
        /\ Transmit(Len(sent) + 1, m, tx_counter[m.type])
        /\ sent' = Append(sent, [message |-> m, counter |-> tx_counter[m.type]])
        /\ tx_counter' = [tx_counter EXCEPT ![m.type] = Inc(tx_counter[m.type])]
  BY DEF SendMessage
<1>2. m.type \in Types
  BY MessageFacts DEF Types
<1>3. tx_counter[m.type] \in Counter
  BY <1>2 DEF Typed
<1> QED BY <1>1, <1>2, <1>3

LEMMA SendMessageOK == IInv /\ SendMessage => IInv'
<1> SUFFICES ASSUME IInv, SendMessage PROVE IInv'
  OBVIOUS
<1>1. PICK m \in Message :
        /\ Transmit(Len(sent) + 1, m, tx_counter[m.type])
        /\ sent' = Append(sent, [message |-> m, counter |-> tx_counter[m.type]])
        /\ tx_counter' = [tx_counter EXCEPT ![m.type] = Inc(tx_counter[m.type])]
        /\ m.type \in Types /\ tx_counter[m.type] \in Counter
  BY SendMessageFacts DEF IInv
<1>2. PICK c \in Counter : c = tx_counter[m.type]
  BY <1>1
<1>3. PICK x \in SentRecord : x = [message |-> m, counter |-> c]
  BY DEF SentRecord
<1>4. sent \in Seq(SentRecord) /\ delivered \in Seq(DeliveredRecord) /\ Len(sent) \in Nat
  BY SeqFacts DEF IInv, Typed
<1>5. /\ sent' \in Seq(SentRecord) /\ Len(sent') = Len(sent) + 1 /\ sent'[Len(sent) + 1] = x
      /\ sent' = Append(sent, x)
  <2>1. sent' = Append(sent, x)
    BY <1>1, <1>2, <1>3
  <2> QED BY <1>4, <2>1, AppendFacts
<1>6. PICK n \in Nat \ {0} : n = Len(sent) + 1
  BY <1>4
<1>7. /\ wire = <<>> /\ ~parsing /\ ArrivesOf(wire', n) /\ wire' \in Seq(Symbol)
      /\ Stream' = Stream \o wire'
      /\ frames' \in Seq(FrameRecord) /\ Len(frames') = Len(frames) + 1 /\ Len(frames) \in Nat
      /\ UNCHANGED <<rx_buf, parsing, rx, errors, received, taken, delivered>>
  <2>1. Transmit(n, m, c) /\ Typed
    BY <1>1, <1>2, <1>6 DEF IInv
  <2> QED BY <2>1, TransmitFacts
<1>8. Typed'
  <2>1. tx_counter' \in [Types -> Counter]
    <3>1. Inc(tx_counter[m.type]) \in Counter
      <4>1. c \in Nat /\ CounterMod \in Nat /\ CounterMod > 0
        BY ByteFacts DEF Counter
      <4>2. (c + 1) % CounterMod \in 0 .. CounterMod - 1
        BY <4>1
      <4> QED BY <1>2, <4>2 DEF Inc, Counter
    <3> QED BY <1>1, <3>1 DEF IInv, Typed
  <2> QED BY <1>5, <1>7, <2>1 DEF IInv, Typed
<1>9. Bounded'
  <2>1. Len(sent') <= Len(frames')
    BY <1>4, <1>5, <1>7 DEF IInv, Bounded
  <2> QED BY <1>7, <2>1 DEF IInv, Bounded
<1>10. Ordered'
  <2>1. Stream \in Seq(Symbol)
    BY StreamFacts DEF IInv
  <2>2. /\ InOrder(Stream, sent', delivered) /\ Genuine(sent', delivered)
        /\ SlotIsLast(sent', delivered, rx[Text])
    BY <1>4, <1>5, <2>1, MoreSent DEF IInv, Ordered
  <2>3. \A i \in 1 .. Len(Stream) : Stream[i].of # 0 => Follows(sent', Stream[i].of, n)
    <3>1. \A i \in 1 .. Len(Stream) : Stream[i].of # 0 => Stream[i].of \in 1 .. Len(sent)
      BY DEF IInv, Ordered, InOrder
    <3> QED BY <1>4, <1>6, <3>1 DEF Follows
  <2>4. \A k \in 1 .. Len(delivered) : Follows(sent', delivered[k].of, n)
    <3>1. \A k \in 1 .. Len(delivered) : delivered[k].of \in 1 .. Len(sent)
      BY DEF IInv, Ordered, Genuine
    <3> QED BY <1>4, <1>6, <3>1 DEF Follows
  <2>5. n \in 1 .. Len(sent') /\ Len(sent') \in Nat
    BY <1>4, <1>5, <1>6
  <2>6. InOrder(Stream \o wire', sent', delivered)
    BY <1>7, <2>1, <2>2, <2>3, <2>4, <2>5, InOrderArrive
  <2> QED BY <1>7, <2>2, <2>6 DEF Ordered
<1> QED BY <1>8, <1>9, <1>10 DEF IInv

LEMMA ResendTextOK == IInv /\ ResendText => IInv'
<1> SUFFICES ASSUME IInv, ResendText PROVE IInv'
  OBVIOUS
<1>1. PICK n : n = LastText
  OBVIOUS
<1>2. /\ n \in 1 .. Len(sent) /\ sent[n].message.type = Text
      /\ \A a \in 1 .. Len(sent) : sent[a].message.type = Text => a <= n
  BY <1>1, LastTextFacts DEF IInv, ResendText
<1>3. sent \in Seq(SentRecord) /\ Len(sent) \in Nat
  BY SeqFacts DEF IInv, Typed
<1>4. sent[n] \in SentRecord
  BY <1>2, <1>3, SeqFacts
<1>5. PICK m \in Message, c \in Counter : m = sent[n].message /\ c = sent[n].counter
  BY <1>4 DEF SentRecord
<1>6. /\ n \in Nat \ {0} /\ Transmit(n, m, c) /\ UNCHANGED <<sent, tx_counter>>
  BY <1>1, <1>2, <1>3, <1>5 DEF ResendText
<1>7. /\ wire = <<>> /\ ~parsing /\ ArrivesOf(wire', n) /\ wire' \in Seq(Symbol)
      /\ Stream' = Stream \o wire'
      /\ frames' \in Seq(FrameRecord) /\ Len(frames') = Len(frames) + 1 /\ Len(frames) \in Nat
      /\ UNCHANGED <<rx_buf, parsing, rx, errors, received, taken, delivered>>
  BY <1>6, TransmitFacts DEF IInv
<1>8. Typed'
  BY <1>6, <1>7 DEF IInv, Typed
<1>9. Bounded'
  <2>1. Len(sent') <= Len(frames')
    BY <1>3, <1>6, <1>7 DEF IInv, Bounded
  <2> QED BY <1>7, <2>1 DEF IInv, Bounded
<1>10. Ordered'
  <2>1. Stream \in Seq(Symbol) /\ InOrder(Stream, sent, delivered)
    BY StreamFacts DEF IInv, Ordered
  <2>2. \A a \in 1 .. Len(sent) : Follows(sent, a, n)
    BY <1>2, <1>3 DEF Follows
  <2>3. \A i \in 1 .. Len(Stream) : Stream[i].of # 0 => Follows(sent, Stream[i].of, n)
    BY <2>1, <2>2 DEF InOrder
  <2>4. \A k \in 1 .. Len(delivered) : Follows(sent, delivered[k].of, n)
    BY <2>2 DEF IInv, Ordered, Genuine
  <2>5. InOrder(Stream \o wire', sent, delivered)
    BY <1>2, <1>3, <1>6, <1>7, <2>1, <2>3, <2>4, InOrderArrive
  <2> QED BY <1>6, <1>7, <2>5 DEF IInv, Ordered
<1> QED BY <1>8, <1>9, <1>10 DEF IInv

\* The bytes of the frame are gone, its last symbol is recorded as taken.
LEMMA GoodFrameFacts ==
  ASSUME IInv, GoodFrame, UNCHANGED <<wire, received>>
  PROVE  /\ TotalLen \in 6 .. Len(rx_buf) /\ parsing
         /\ rx_buf' \in Seq(Symbol) /\ Len(rx_buf') = Len(rx_buf) - TotalLen
         /\ Len(rx_buf) \in Nat /\ Stream[TotalLen] = BufCrc
         /\ Stream \in Seq(Symbol) /\ IsRest(Stream', Stream, TotalLen)
         /\ taken' \subseteq 1 .. received /\ Len(rx_buf') <= received'
         /\ Len(rx_buf') <= FrameMax
<1>1. Typed /\ Ordered /\ AtFrame /\ Complete /\ CrcFits /\ Drop(TotalLen)
  BY DEF IInv, GoodFrame
<1>2. TotalLen \in 6 .. Len(rx_buf) /\ Len(rx_buf) \in Nat
  BY <1>1, GoodFacts
<1>3. PICK t \in 6 .. Len(rx_buf) : t = TotalLen
  BY <1>2
<1>4. t \in 0 .. Len(rx_buf) /\ Drop(t)
  BY <1>1, <1>2, <1>3
<1>5. /\ rx_buf' \in Seq(Symbol) /\ Len(rx_buf') = Len(rx_buf) - t
      /\ Stream \in Seq(Symbol) /\ IsRest(Stream', Stream, t)
  BY <1>1, <1>4, DropStep
<1>6. /\ received \in Nat /\ received' = received /\ taken \subseteq 1 .. received
      /\ Len(rx_buf) <= received /\ Len(rx_buf) <= FrameMax /\ FrameMax \in Nat
  BY ByteFacts DEF IInv, Typed, Bounded, FrameMax, HeaderLen, CrcLen
<1>7. taken' \subseteq 1 .. received
  <2>1. taken' = taken \cup {received - Len(rx_buf) + t}
    BY <1>3 DEF GoodFrame
  <2>2. received - Len(rx_buf) + t \in 1 .. received
    BY <1>2, <1>3, <1>6
  <2> QED BY <1>6, <2>1, <2>2
<1>8. Len(rx_buf') <= received' /\ Len(rx_buf') <= FrameMax
  BY <1>2, <1>5, <1>6
<1>9. Stream[t] = BufCrc
  <2>1. t \in 1 .. Len(rx_buf)
    BY <1>2, <1>3
  <2> QED BY <1>1, <1>3, <2>1, StreamFacts DEF BufCrc
<1> QED BY <1>1, <1>2, <1>3, <1>5, <1>7, <1>8, <1>9 DEF AtFrame, AtMarker

LEMMA HandleResentOK == IInv /\ HandleResent => IInv'
<1> SUFFICES ASSUME IInv, HandleResent PROVE IInv'
  OBVIOUS
<1>1. PICK k : k = TotalLen
  OBVIOUS
<1>2. k \in 0 .. Len(rx_buf) /\ parsing /\ taken' \subseteq 1 .. received /\ Drop(k)
  <2>1. GoodFrame /\ UNCHANGED <<wire, received>>
    BY DEF HandleResent
  <2>2. k \in 6 .. Len(rx_buf) /\ parsing /\ taken' \subseteq 1 .. received /\ Len(rx_buf) \in Nat
    BY <1>1, <2>1, GoodFrameFacts
  <2> QED BY <1>1, <2>1, <2>2 DEF GoodFrame
<1>3. errors' \subseteq {"crc"}
  BY DEF HandleResent, IInv, Typed
<1> QED BY <1>2, <1>3, DropOK DEF HandleResent

\* The message that HandleNew delivers is one that was sent, and no message of
\* its type that was sent later, or this one, has been delivered.
LEMMA HandleNewFacts ==
  ASSUME IInv, HandleNew
  PROVE  \E x \in DeliveredRecord :
           /\ x.of \in 1 .. Len(sent) /\ x.of # 0 /\ x.of = BufCrc.of
           /\ x.message = sent[x.of].message /\ sent[x.of] \in SentRecord
           /\ delivered' = Append(delivered, x) /\ UNCHANGED errors
           /\ rx' = [rx EXCEPT ![sent[x.of].message.type] = Taken(sent[x.of].counter)]
           /\ \A k \in 1 .. Len(delivered) : Follows(sent, delivered[k].of, x.of)
           /\ \A k \in 1 .. Len(delivered) :
                delivered[k].message.type = x.message.type => delivered[k].of < x.of
           /\ x.lost = Lost(rx[x.message.type], sent[x.of].counter)
<1>1. Typed /\ Ordered /\ AtFrame /\ Complete /\ CrcFits /\ GoodFrame
  BY DEF IInv, HandleNew, GoodFrame
<1>2. PICK n : n = BufCrc.of
  OBVIOUS
<1>3. /\ n \in 1 .. Len(sent) /\ n # 0 /\ sent[n] \in SentRecord
      /\ BufType = sent[n].message.type /\ BufCounter = sent[n].counter
      /\ BufData = Pack(sent[n].message)
  BY <1>1, <1>2, GoodFacts
<1>4. PICK m \in Message, c \in Counter : m = sent[n].message /\ c = sent[n].counter
  BY <1>3 DEF SentRecord
<1>5. /\ Unpack(BufType, BufData).ok = TRUE
      /\ Unpack(BufType, BufData).body = m.body
  BY <1>3, <1>4, PackFacts
<1>6. [type |-> BufType, body |-> m.body] = m
  <2>1. m \in [type : Types, body : Seq(Byte)] /\ BufType = m.type
    BY <1>3, <1>4, MessageFacts
  <2> QED BY <2>1
<1>7. PICK lost \in BOOLEAN : lost = Lost(rx[BufType], BufCounter)
  BY DEF Lost
<1>8. PICK x : x = [of |-> n, message |-> m, lost |-> lost]
  OBVIOUS
<1>9. n \in Nat
  <2>1. Len(sent) \in Nat
    BY <1>1, SeqFacts DEF Typed
  <2> QED BY <1>3, <2>1
<1>10. x \in DeliveredRecord /\ x.of = n /\ x.message = m
  BY <1>8, <1>9 DEF DeliveredRecord
<1>t. BufType \in Types
  <2>1. m.type \in Types
    BY MessageFacts DEF Types
  <2> QED BY <1>3, <1>4, <2>1
<1>11. delivered' = Append(delivered, x) /\ UNCHANGED errors
  <2>1. Deliver
    BY <1>t DEF HandleNew
  <2>2. /\ delivered' = Append(delivered,
             [of |-> BufCrc.of, message |-> [type |-> BufType, body |-> Unpack(BufType, BufData).body],
              lost |-> Lost(rx[BufType], BufCounter)])
        /\ UNCHANGED errors
    BY <1>5, <2>1 DEF Deliver
  <2> QED BY <1>2, <1>5, <1>6, <1>7, <1>8, <2>2
<1>12. rx' = [rx EXCEPT ![sent[n].message.type] = Taken(sent[n].counter)]
  BY <1>3, <1>t DEF HandleNew, FillSlot
<1>13. \A k \in 1 .. Len(delivered) : Follows(sent, delivered[k].of, n)
  <2>1. /\ TotalLen \in 6 .. Len(rx_buf) /\ Len(rx_buf) \in Nat /\ Stream[TotalLen] = BufCrc
        /\ Len(Stream) = Len(rx_buf) + Len(wire) /\ Len(wire) \in Nat
    BY <1>1, GoodFrameFacts, StreamFacts DEF HandleNew
  <2>2. TotalLen \in 1 .. Len(Stream)
    BY <2>1
  <2> QED BY <1>1, <1>2, <1>3, <2>1, <2>2 DEF Ordered, InOrder
<1>14. ASSUME NEW k \in 1 .. Len(delivered), delivered[k].message.type = m.type
       PROVE  delivered[k].of < n
  <2>1. Genuine(sent, delivered) /\ SlotIsLast(sent, delivered, rx[Text])
    BY <1>1 DEF Ordered
  <2>2. ~(sent[n].message.type = Text /\ Resent(rx[Text], sent[n].counter))
    BY <1>3 DEF HandleNew
  <2>3. sent[delivered[k].of].message.type = sent[n].message.type
    BY <1>4, <1>14, <2>1 DEF Genuine
  <2>4. sent \in Seq(SentRecord) /\ delivered \in Seq(DeliveredRecord)
    BY <1>1 DEF Typed
  <2> QED BY <1>3, <1>13, <2>1, <2>2, <2>3, <2>4, NotTwice
<1>15. x.lost = Lost(rx[x.message.type], sent[x.of].counter)
  BY <1>3, <1>4, <1>7, <1>8, <1>10
<1> QED BY <1>2, <1>3, <1>4, <1>10, <1>11, <1>12, <1>13, <1>14, <1>15

LEMMA HandleNewOK == IInv /\ HandleNew => IInv'
<1> SUFFICES ASSUME IInv, HandleNew PROVE IInv'
  OBVIOUS
<1>1. PICK x \in DeliveredRecord :
        /\ x.of \in 1 .. Len(sent) /\ x.of # 0 /\ x.of = BufCrc.of
        /\ x.message = sent[x.of].message /\ sent[x.of] \in SentRecord
        /\ delivered' = Append(delivered, x) /\ UNCHANGED errors
        /\ rx' = [rx EXCEPT ![sent[x.of].message.type] = Taken(sent[x.of].counter)]
        /\ \A k \in 1 .. Len(delivered) : Follows(sent, delivered[k].of, x.of)
  BY HandleNewFacts
<1>2. GoodFrame /\ UNCHANGED <<tx_counter, wire, parsing, sent, frames, received>>
  BY DEF HandleNew
<1>3. PICK t : t = TotalLen
  OBVIOUS
<1>4. /\ t \in 6 .. Len(rx_buf) /\ parsing
      /\ rx_buf' \in Seq(Symbol) /\ Stream[t] = BufCrc
      /\ Stream \in Seq(Symbol) /\ IsRest(Stream', Stream, t)
      /\ taken' \subseteq 1 .. received /\ Len(rx_buf') <= received'
      /\ Len(rx_buf') <= FrameMax
  BY <1>2, <1>3, GoodFrameFacts
<1>5. sent \in Seq(SentRecord) /\ delivered \in Seq(DeliveredRecord) /\ rx \in [Types -> RxSlot]
  BY DEF IInv, Typed
<1>6. PICK y \in Types, c \in Counter : y = sent[x.of].message.type /\ c = sent[x.of].counter
  <2>1. sent[x.of].message \in Message /\ sent[x.of].counter \in Counter
    BY <1>1 DEF SentRecord
  <2>2. sent[x.of].message.type \in Types
    BY <2>1, MessageFacts DEF Types
  <2> QED BY <2>1, <2>2
<1>7. Taken(c) \in RxSlot
  BY DEF Taken, RxSlot
<1>8. rx' = [rx EXCEPT ![y] = Taken(c)]
  BY <1>1, <1>6
<1>9. Typed'
  <2>1. delivered' \in Seq(DeliveredRecord)
    BY <1>1, <1>5, AppendFacts
  <2>2. rx' \in [Types -> RxSlot]
    BY <1>5, <1>7, <1>8
  <2> QED BY <1>1, <1>2, <1>4, <2>1, <2>2 DEF IInv, Typed
<1>10. Bounded'
  BY <1>2, <1>4 DEF IInv, Bounded
<1>11. Ordered'
  <2>1. InOrder(Stream', sent, Append(delivered, x))
    <3>1. Stream[t].of = x.of /\ t # 0
      BY <1>1, <1>4
    <3>2. InOrder(Stream, sent, delivered)
      BY DEF IInv, Ordered
    <3> QED BY <1>1, <1>4, <1>5, <3>1, <3>2, InOrderDeliver
  <2>2. /\ Genuine(sent, Append(delivered, x))
        /\ SlotIsLast(sent, Append(delivered, x),
             IF sent[x.of].message.type = Text THEN Taken(sent[x.of].counter) ELSE rx[Text])
    <3>1. Genuine(sent, delivered) /\ SlotIsLast(sent, delivered, rx[Text])
      BY DEF IInv, Ordered
    <3> QED BY <1>1, <1>5, <3>1, OneDelivered
  <2>3. rx'[Text] = IF sent[x.of].message.type = Text THEN Taken(sent[x.of].counter) ELSE rx[Text]
    BY <1>5, <1>6, <1>8 DEF Types
  <2> QED BY <1>1, <1>2, <2>1, <2>2, <2>3 DEF Ordered
<1> QED BY <1>9, <1>10, <1>11 DEF IInv

LEMMA InitOK == Init => IInv
<1> SUFFICES ASSUME Init PROVE IInv
  OBVIOUS
<1>1. Len(<<>>) = 0 /\ wire = <<>> /\ rx_buf = <<>> /\ sent = <<>> /\ frames = <<>> /\ delivered = <<>>
  BY DEF Init
<1>2. Typed
  <2>1. 0 \in Counter /\ RxOpen \in RxSlot
    BY ByteFacts DEF Counter, RxOpen, RxSlot
  <2>2. /\ wire \in Seq(Symbol) /\ rx_buf \in Seq(Symbol) /\ sent \in Seq(SentRecord)
        /\ frames \in Seq(FrameRecord) /\ delivered \in Seq(DeliveredRecord)
    BY <1>1
  <2>3. tx_counter \in [Types -> Counter] /\ rx \in [Types -> RxSlot]
    BY <2>1 DEF Init
  <2> QED BY <2>2, <2>3 DEF Init, Typed
<1>3. Bounded
  <2>1. FrameMax \in Nat /\ 0 < FrameMax
    BY ByteFacts DEF FrameMax, HeaderLen, CrcLen
  <2> QED BY <1>1, <2>1 DEF Init, Bounded
<1>4. Ordered
  <2>1. Len(Stream) = 0
    BY <1>1, <1>2, StreamFacts
  <2> QED BY <1>1, <2>1 DEF Ordered, InOrder, Genuine, SlotIsLast
<1> QED BY <1>2, <1>3, <1>4 DEF IInv

LEMMA Inductive == IInv /\ [Next]_vars => IInv'
<1> SUFFICES ASSUME IInv, [Next]_vars PROVE IInv'
  OBVIOUS
<1>1. CASE UNCHANGED vars
  BY <1>1 DEF vars, IInv, Typed, Bounded, Ordered, Stream
<1> QED BY <1>1, SendMessageOK, ResendTextOK, ReceiveOK, SkipOK, ReturnOK, NotMarkerOK, BadCrcOK,
           HandleResentOK, HandleNewOK DEF Next, Parse

\* What the bytes on the line, the buffer and the slots have to do with what
\* was sent: the invariant the other theorems follow from.
THEOREM FramingInvariant == Spec => []IInv
BY InitOK, Inductive, PTL DEF Spec

\* Every variable has its type, and rx_buf never overflows: after every byte
\* parse leaves room for one more.
THEOREM TypeCorrect == Spec => []TypeOK
<1>1. IInv => TypeOK
  BY DEF IInv, Typed, Bounded, TypeOK
<1> QED BY <1>1, FramingInvariant, PTL

\* What comm_send packs always has a type and a length that handle_frame knows: no
\* frame whose CRC fits is given up for one of them.
THEOREM OnlyCrcErrors == Spec => [](errors \subseteq {"crc"})
<1>1. IInv => errors \subseteq {"crc"}
  BY DEF IInv, Typed
<1> QED BY <1>1, FramingInvariant, PTL

-----------------------------------------------------------------------------
(* The line loses messages of a type but keeps their order.                  *)

\* The variables of LossyLine.
Messages(s) == [n \in DOMAIN s |-> s[n].message]
Got(d) == [k \in DOMAIN d |-> [of |-> d[k].of, message |-> d[k].message]]

LEMMA MapFacts ==
  ASSUME NEW S, NEW q \in Seq(S), NEW f, NEW T,
         f = [n \in DOMAIN f |-> f[n]], DOMAIN f = DOMAIN q, \A n \in 1 .. Len(q) : f[n] \in T
  PROVE  f \in Seq(T) /\ Len(f) = Len(q)
<1>1. Len(q) \in Nat /\ DOMAIN q = 1 .. Len(q)
  BY SeqFacts
<1>2. PICK l \in Nat : l = Len(q)
  BY <1>1
<1>3. f \in [1 .. l -> T]
  BY <1>1, <1>2
<1>4. f \in Seq(T)
  BY <1>2, <1>3, SeqDef
<1>5. DOMAIN f = 1 .. Len(f) /\ Len(f) \in Nat
  BY <1>4, SeqFacts
<1>6. 1 .. Len(f) = 1 .. l
  BY <1>1, <1>2, <1>5
<1>7. Len(f) = l
  BY <1>5, <1>6
<1> QED BY <1>2, <1>4, <1>7

LEMMA MessagesFacts ==
  ASSUME NEW s \in Seq(SentRecord)
  PROVE  /\ Messages(s) \in Seq(Message) /\ Len(Messages(s)) = Len(s)
         /\ DOMAIN Messages(s) = 1 .. Len(s)
         /\ \A n \in 1 .. Len(s) : Messages(s)[n] = s[n].message
<1>1. DOMAIN s = 1 .. Len(s) /\ \A n \in 1 .. Len(s) : s[n] \in SentRecord
  BY SeqFacts
<1>2. DOMAIN Messages(s) = 1 .. Len(s) /\ \A n \in 1 .. Len(s) : Messages(s)[n] = s[n].message
  BY <1>1 DEF Messages
<1>3. \A n \in 1 .. Len(s) : Messages(s)[n] \in Message
  BY <1>1, <1>2 DEF SentRecord
<1>4. Messages(s) = [n \in DOMAIN Messages(s) |-> Messages(s)[n]]
  BY DEF Messages
<1> QED BY <1>1, <1>2, <1>3, <1>4, MapFacts

GotRecord == [of : Nat, message : Message]

LEMMA GotFacts ==
  ASSUME NEW d \in Seq(DeliveredRecord)
  PROVE  /\ Got(d) \in Seq(GotRecord) /\ Len(Got(d)) = Len(d)
         /\ DOMAIN Got(d) = 1 .. Len(d)
         /\ \A k \in 1 .. Len(d) : Got(d)[k] = [of |-> d[k].of, message |-> d[k].message]
<1>1. DOMAIN d = 1 .. Len(d) /\ \A k \in 1 .. Len(d) : d[k] \in DeliveredRecord
  BY SeqFacts
<1>2. /\ DOMAIN Got(d) = 1 .. Len(d)
      /\ \A k \in 1 .. Len(d) : Got(d)[k] = [of |-> d[k].of, message |-> d[k].message]
  BY <1>1 DEF Got
<1>3. \A k \in 1 .. Len(d) : Got(d)[k] \in GotRecord
  BY <1>1, <1>2 DEF DeliveredRecord, GotRecord
<1>4. Got(d) = [k \in DOMAIN Got(d) |-> Got(d)[k]]
  BY DEF Got
<1> QED BY <1>1, <1>2, <1>3, <1>4, MapFacts

LEMMA MessagesAppend ==
  ASSUME NEW s \in Seq(SentRecord), NEW x \in SentRecord
  PROVE  Messages(Append(s, x)) = Append(Messages(s), x.message)
<1>1. PICK t : t = Append(s, x)
  OBVIOUS
<1>2. /\ t \in Seq(SentRecord) /\ Len(t) = Len(s) + 1 /\ Len(s) \in Nat /\ t[Len(s) + 1] = x
      /\ \A i \in 1 .. Len(s) : t[i] = s[i]
  BY <1>1, AppendFacts
<1>3. PICK u : u = Append(Messages(s), x.message)
  OBVIOUS
<1>4. /\ Messages(s) \in Seq(Message) /\ Len(Messages(s)) = Len(s)
      /\ \A n \in 1 .. Len(s) : Messages(s)[n] = s[n].message
  BY MessagesFacts
<1>5. /\ u \in Seq(Message) /\ Len(u) = Len(s) + 1 /\ u[Len(s) + 1] = x.message
      /\ \A i \in 1 .. Len(s) : u[i] = s[i].message
  <2>1. x.message \in Message
    BY DEF SentRecord
  <2>2. /\ u \in Seq(Message) /\ Len(u) = Len(Messages(s)) + 1
        /\ u[Len(Messages(s)) + 1] = x.message
        /\ \A i \in 1 .. Len(Messages(s)) : u[i] = Messages(s)[i]
    BY <1>3, <1>4, <2>1, AppendFacts
  <2> QED BY <1>4, <2>2
<1>6. /\ Messages(t) \in Seq(Message) /\ Len(Messages(t)) = Len(s) + 1
      /\ \A n \in 1 .. Len(s) + 1 : Messages(t)[n] = t[n].message
  BY <1>2, MessagesFacts
<1>7. \A n \in 1 .. Len(s) + 1 : Messages(t)[n] = u[n]
  <2> TAKE n \in 1 .. Len(s) + 1
  <2>1. n \in 1 .. Len(s) \/ n = Len(s) + 1
    BY <1>2
  <2> QED BY <1>2, <1>5, <1>6, <2>1
<1>8. Messages(t) = u
  BY <1>5, <1>6, <1>7, SeqEqual
<1> QED BY <1>1, <1>3, <1>8

LEMMA GotAppend ==
  ASSUME NEW d \in Seq(DeliveredRecord), NEW x \in DeliveredRecord
  PROVE  Got(Append(d, x)) = Append(Got(d), [of |-> x.of, message |-> x.message])
<1>1. PICK t : t = Append(d, x)
  OBVIOUS
<1>2. /\ t \in Seq(DeliveredRecord) /\ Len(t) = Len(d) + 1 /\ Len(d) \in Nat /\ t[Len(d) + 1] = x
      /\ \A i \in 1 .. Len(d) : t[i] = d[i]
  BY <1>1, AppendFacts
<1>3. PICK y \in GotRecord : y = [of |-> x.of, message |-> x.message]
  BY DEF DeliveredRecord, GotRecord
<1>4. PICK u : u = Append(Got(d), y)
  OBVIOUS
<1>5. /\ Got(d) \in Seq(GotRecord) /\ Len(Got(d)) = Len(d)
      /\ \A k \in 1 .. Len(d) : Got(d)[k] = [of |-> d[k].of, message |-> d[k].message]
  BY GotFacts
<1>6. /\ u \in Seq(GotRecord) /\ Len(u) = Len(d) + 1 /\ u[Len(d) + 1] = y
      /\ \A k \in 1 .. Len(d) : u[k] = [of |-> d[k].of, message |-> d[k].message]
  <2>1. /\ u \in Seq(GotRecord) /\ Len(u) = Len(Got(d)) + 1 /\ u[Len(Got(d)) + 1] = y
        /\ \A k \in 1 .. Len(Got(d)) : u[k] = Got(d)[k]
    BY <1>4, <1>5, AppendFacts
  <2> QED BY <1>5, <2>1
<1>7. /\ Got(t) \in Seq(GotRecord) /\ Len(Got(t)) = Len(d) + 1
      /\ \A k \in 1 .. Len(d) + 1 : Got(t)[k] = [of |-> t[k].of, message |-> t[k].message]
  BY <1>2, GotFacts
<1>8. \A k \in 1 .. Len(d) + 1 : Got(t)[k] = u[k]
  <2> TAKE k \in 1 .. Len(d) + 1
  <2>1. k \in 1 .. Len(d) \/ k = Len(d) + 1
    BY <1>2
  <2> QED BY <1>2, <1>3, <1>6, <1>7, <2>1
<1>9. Got(t) = u
  BY <1>6, <1>7, <1>8, SeqEqual
<1> QED BY <1>1, <1>3, <1>4, <1>9

LEMMA LineInit == Init => Line!Init
<1> SUFFICES ASSUME Init PROVE Line!Init
  OBVIOUS
<1>1. /\ sent \in Seq(SentRecord) /\ delivered \in Seq(DeliveredRecord)
      /\ Len(sent) = 0 /\ Len(delivered) = 0
  BY DEF Init
<1>2. Messages(sent) \in Seq(Message) /\ Len(Messages(sent)) = 0
  BY <1>1, MessagesFacts
<1>3. Got(delivered) \in Seq(GotRecord) /\ Len(Got(delivered)) = 0
  BY <1>1, GotFacts
<1>4. Messages(sent) = <<>> /\ Got(delivered) = <<>>
  BY <1>2, <1>3, SeqFacts
<1> QED BY <1>4 DEF Line!Init, Messages, Got

\* comm_send is a Send of the line.
LEMMA LineSend == IInv /\ SendMessage => Line!Send
<1> SUFFICES ASSUME IInv, SendMessage PROVE Line!Send
  OBVIOUS
<1>1. PICK m \in Message :
        /\ Transmit(Len(sent) + 1, m, tx_counter[m.type])
        /\ sent' = Append(sent, [message |-> m, counter |-> tx_counter[m.type]])
        /\ m.type \in Types /\ tx_counter[m.type] \in Counter
  BY SendMessageFacts DEF IInv
<1>2. PICK x \in SentRecord : x = [message |-> m, counter |-> tx_counter[m.type]]
  BY <1>1 DEF SentRecord
<1>3. Messages(sent') = Append(Messages(sent), m)
  <2>1. sent \in Seq(SentRecord) /\ sent' = Append(sent, x) /\ x.message = m
    BY <1>1, <1>2 DEF IInv, Typed
  <2> QED BY <2>1, MessagesAppend
<1>4. Got(delivered') = Got(delivered)
  <2>1. delivered' = delivered
    BY <1>1 DEF Transmit
  <2> QED BY <2>1
<1> QED BY <1>3, <1>4 DEF Line!Send, Messages, Got

\* A frame that handle_frame takes for a new message is a Deliver of the line.
LEMMA LineDeliver == IInv /\ HandleNew => Line!Deliver
<1> SUFFICES ASSUME IInv, HandleNew PROVE Line!Deliver
  OBVIOUS
<1>1. PICK x \in DeliveredRecord :
        /\ x.of \in 1 .. Len(sent) /\ x.message = sent[x.of].message
        /\ delivered' = Append(delivered, x)
        /\ \A k \in 1 .. Len(delivered) :
             delivered[k].message.type = x.message.type => delivered[k].of < x.of
  BY HandleNewFacts
<1>2. sent \in Seq(SentRecord) /\ delivered \in Seq(DeliveredRecord)
  BY DEF IInv, Typed
<1>3. PICK n : n = x.of
  OBVIOUS
<1>4. n \in DOMAIN Messages(sent) /\ Messages(sent)[n] = x.message
  BY <1>1, <1>2, <1>3, MessagesFacts
<1>5. \A k \in DOMAIN Got(delivered) :
        Got(delivered)[k].message.type = Messages(sent)[n].type => Got(delivered)[k].of < n
  <2>1. /\ DOMAIN Got(delivered) = 1 .. Len(delivered)
        /\ \A k \in 1 .. Len(delivered) :
             Got(delivered)[k] = [of |-> delivered[k].of, message |-> delivered[k].message]
    BY <1>2, GotFacts
  <2> QED BY <1>1, <1>3, <1>4, <2>1
<1>6. Got(delivered') = Append(Got(delivered), [of |-> n, message |-> Messages(sent)[n]])
  BY <1>1, <1>2, <1>3, <1>4, GotAppend
<1>7. Messages(sent') = Messages(sent)
  <2>1. sent' = sent
    BY DEF HandleNew
  <2> QED BY <2>1
<1> QED BY <1>4, <1>5, <1>6, <1>7 DEF Line!Deliver, Messages, Got

\* The bytes on the serial line are a line that loses messages and nothing
\* else: what is delivered was sent, at most once and in order, whatever was
\* damaged, lost or sent again (comm_send, parse and handle_frame).
THEOREM LineImplemented == Spec => ImplementsLine
<1>1. IInv /\ [Next]_vars => [Line!Next]_(Line!vars)
  <2> SUFFICES ASSUME IInv, [Next]_vars PROVE [Line!Next]_(Line!vars)
    OBVIOUS
  <2>1. CASE SendMessage
    BY <2>1, LineSend DEF Line!Next
  <2>2. CASE HandleNew
    BY <2>2, LineDeliver DEF Line!Next
  <2>3. CASE \/ ResendText \/ Receive \/ Skip \/ Return \/ NotMarker
            \/ BadCrc \/ HandleResent \/ UNCHANGED vars
    <3>1. UNCHANGED <<sent, delivered>>
      BY <2>3 DEF ResendText, Transmit, Receive, Skip, Return, NotMarker, BadCrc, HandleResent, vars
    <3> QED BY <3>1 DEF Line!vars
  <2> QED BY <2>1, <2>2, <2>3 DEF Next, Parse
<1> QED BY <1>1, LineInit, FramingInvariant, PTL DEF Spec, ImplementsLine, Line!Spec

-----------------------------------------------------------------------------
(* Whole frames are found again.                                             *)

\* The number of symbols that have left rx_buf.
Begin == received - Len(rx_buf)

\* The symbols of a frame, as they were sent.
FrameOf(f) ==
  LET s == sent[frames[f].of] IN Frame(frames[f].of, s.message, s.counter)
FrameLen(f) == Len(FrameOf(f))

\* All symbols of this frame lie one behind the other in the stream.
Intact(f) ==
  /\ frames[f].last - FrameLen(f) >= Begin
  /\ frames[f].last <= received + Len(wire)
  /\ \A i \in 1 .. FrameLen(f) :
       Stream[frames[f].last - FrameLen(f) - Begin + i] = FrameOf(f)[i]

\* A whole frame has been taken, or nothing of it is gone.
WholeOK ==
  \A f \in 1 .. Len(frames) :
    frames[f].fate = "whole" =>
      \/ frames[f].last <= Begin /\ frames[f].last \in taken
      \/ Intact(f)

\* The place behind which a frame begins.
Before(f) == IF f = 1 THEN 0 ELSE frames[f - 1].last

\* The frames lie one behind the other.
Tiled ==
  /\ Before(Len(frames) + 1) = received + Len(wire)
  /\ \A f \in 1 .. Len(frames) :
       /\ frames[f].of \in 1 .. Len(sent)
       /\ frames[f].last <= received + Len(wire)
       /\ frames[f].fate = "whole" => frames[f].last = Before(f) + FrameLen(f)
       /\ frames[f].fate = "lost" => frames[f].last = Before(f)
  /\ \A f, g \in 1 .. Len(frames) : f <= g => frames[f].last <= frames[g].last

\* Between two bytes the buffer does not begin with a frame it has all of.
Waiting ==
  ~parsing => \A f \in 1 .. Len(frames) :
    frames[f].fate = "whole" /\ frames[f].last - FrameLen(f) = Begin => frames[f].last > received

\* Errors are reported only after damage.
NoFalseErrors == errors # {} => \E f \in 1 .. Len(frames) : frames[f].fate = "damaged"

PlaceInv == WholeOK /\ Tiled /\ Waiting /\ NoFalseErrors

\* No frame lies in the data of another message.
NoFrameInside ==
  \A m1, m2 \in Message, c1, c2 \in Counter, o \in Nat :
    LET f == Frame(1, m2, c2)
        c == Content(m1, c1)
    IN  o + Len(f) <= Len(c) => \E i \in 1 .. Len(f) : c[o + i] # f[i].val

\* The frame f of message n with content k.
Shape(f, n, k) ==
  /\ f \in Seq(Symbol) /\ Len(f) \in Nat /\ Len(f) >= 7
  /\ f[1].val = Marker1 /\ f[2].val = Marker2 /\ f[3].val = Len(f) - 6
  /\ Len(k) = Len(f) - 3
  /\ \A i \in 1 .. Len(f) - 3 : f[2 + i].val = k[i]
  /\ \A i \in 1 .. Len(f) - 1 : f[i].of = 0
  /\ f[Len(f)].of = n /\ f[Len(f)].val = CrcByte(k)

LEMMA FrameShape ==
  ASSUME NEW n \in Nat, NEW m \in Message, NEW c \in Counter
  PROVE  Shape(Frame(n, m, c), n, Content(m, c))
<1>1. PICK k, f : k = Content(m, c) /\ f = Frame(n, m, c)
  OBVIOUS
<1>2. /\ f \in Seq(Symbol) /\ Len(f) = Len(k) + 3 /\ Len(k) \in Nat
      /\ f[1].val = Marker1 /\ f[2].val = Marker2
      /\ \A i \in 1 .. Len(k) : f[2 + i].val = k[i]
      /\ \A i \in 1 .. Len(k) + 2 : f[i].of = 0
      /\ f[Len(k) + 3].of = n /\ f[Len(k) + 3].val = CrcByte(k)
  BY <1>1, FrameFacts
<1>3. PICK l \in Nat : l = Len(k)
  BY <1>2
<1>4. k[1] = l - 3 /\ l >= 4
  <2>1. Len(k) = 3 + Len(Pack(m)) /\ k[1] = Len(Pack(m)) /\ Len(Pack(m)) \in 1 .. MaxByte
    BY <1>1, ContentFacts
  <2>2. PICK p \in Nat : p = Len(Pack(m)) /\ p >= 1
    BY <2>1, ByteFacts
  <2> QED BY <1>3, <2>1, <2>2
<1>5. f[3].val = l - 3
  <2>1. 1 \in 1 .. l
    BY <1>4
  <2>2. f[2 + 1].val = k[1]
    BY <1>2, <1>3, <2>1
  <2> QED BY <1>4, <2>2
<1>6. Len(f) = l + 3 /\ Len(f) - 3 = l /\ Len(f) - 1 = l + 2 /\ Len(f) - 6 = l - 3 /\ Len(f) >= 7
  BY <1>2, <1>3, <1>4
<1>7. Shape(f, n, k)
  BY <1>2, <1>3, <1>5, <1>6 DEF Shape
<1> QED BY <1>1, <1>7

\* Only the number in the last symbol depends on n.
LEMMA SameValues ==
  ASSUME NEW n \in Nat, NEW m \in Message, NEW c \in Counter
  PROVE  /\ Len(Frame(n, m, c)) = Len(Frame(1, m, c))
         /\ \A i \in 1 .. Len(Frame(n, m, c)) : Frame(n, m, c)[i].val = Frame(1, m, c)[i].val
<1>1. PICK f, g, k : f = Frame(n, m, c) /\ g = Frame(1, m, c) /\ k = Content(m, c)
  OBVIOUS
<1>2. /\ Len(f) \in Nat /\ Len(f) >= 7 /\ Len(k) = Len(f) - 3
      /\ f[1].val = Marker1 /\ f[2].val = Marker2
      /\ \A i \in 1 .. Len(f) - 3 : f[2 + i].val = k[i]
      /\ f[Len(f)].val = CrcByte(k)
  <2>1. Shape(f, n, k)
    BY <1>1, FrameShape
  <2> QED BY <2>1 DEF Shape
<1>3. /\ Len(g) \in Nat /\ Len(g) >= 7 /\ Len(k) = Len(g) - 3
      /\ g[1].val = Marker1 /\ g[2].val = Marker2
      /\ \A i \in 1 .. Len(g) - 3 : g[2 + i].val = k[i]
      /\ g[Len(g)].val = CrcByte(k)
  <2>1. Shape(g, 1, k)
    BY <1>1, FrameShape
  <2> QED BY <2>1 DEF Shape
<1>4. Len(f) = Len(g)
  BY <1>2, <1>3
<1>5. ASSUME NEW i \in 1 .. Len(f)
      PROVE  f[i].val = g[i].val
  <2>1. i \in {1, 2} \/ i - 2 \in 1 .. Len(f) - 3 \/ i = Len(f)
    BY <1>2
  <2>2. CASE i - 2 \in 1 .. Len(f) - 3
    <3>1. PICK j \in 1 .. Len(f) - 3 : j = i - 2
      BY <2>2
    <3>2. i = 2 + j
      BY <1>2, <3>1
    <3> QED BY <1>2, <1>3, <1>4, <3>2
  <2>3. CASE i \in {1, 2}
    BY <1>2, <1>3, <2>3
  <2>4. CASE i = Len(f)
    BY <1>2, <1>3, <1>4, <2>4
  <2> QED BY <2>1, <2>2, <2>3, <2>4
<1> QED BY <1>1, <1>4, <1>5

\* The message of a frame.
LEMMA FrameOfFacts ==
  ASSUME Typed, Tiled, NEW f \in 1 .. Len(frames)
  PROVE  \E m \in Message, c \in Counter, n \in Nat \ {0} :
           /\ n = frames[f].of /\ n \in 1 .. Len(sent)
           /\ m = sent[n].message /\ c = sent[n].counter
           /\ FrameOf(f) = Frame(n, m, c) /\ FrameLen(f) = Len(Frame(n, m, c))
           /\ FrameLen(f) \in Nat /\ FrameLen(f) >= 7
           /\ frames[f].last \in Nat
<1>1. PICK n : n = frames[f].of
  OBVIOUS
<1>2. /\ n \in 1 .. Len(sent) /\ Len(sent) \in Nat
      /\ sent \in Seq(SentRecord) /\ frames \in Seq(FrameRecord)
  BY <1>1, SeqFacts DEF Tiled, Typed
<1>3. n \in Nat \ {0}
  BY <1>2
<1>4. sent[n] \in SentRecord
  BY <1>2, SeqFacts
<1>5. PICK m \in Message, c \in Counter : m = sent[n].message /\ c = sent[n].counter
  BY <1>4 DEF SentRecord
<1>6. FrameOf(f) = Frame(n, m, c)
  BY <1>1, <1>5 DEF FrameOf
<1>7. Len(Frame(n, m, c)) \in Nat /\ Len(Frame(n, m, c)) >= 7
  BY FrameShape, <1>3 DEF Shape
<1>8. frames[f].last \in Nat
  <2>1. frames[f] \in FrameRecord
    BY <1>2, SeqFacts
  <2> QED BY <2>1 DEF FrameRecord
<1> QED BY <1>1, <1>2, <1>3, <1>5, <1>6, <1>7, <1>8 DEF FrameLen

\* The number of symbols in front of a frame that is intact.
Offset(f) == frames[f].last - FrameLen(f) - Begin

LEMMA IntactFacts ==
  ASSUME IInv, Tiled, NEW f \in 1 .. Len(frames), Intact(f)
  PROVE  /\ Offset(f) \in Nat /\ FrameLen(f) \in Nat /\ FrameLen(f) >= 7
         /\ frames[f].last = Begin + Offset(f) + FrameLen(f)
         /\ Begin \in Nat /\ received = Begin + Len(rx_buf) /\ Len(rx_buf) \in Nat
         /\ Offset(f) + FrameLen(f) <= Len(Stream) /\ Len(Stream) \in Nat
         /\ \A i \in 1 .. FrameLen(f) : Stream[Offset(f) + i] = FrameOf(f)[i]
         /\ \A i \in 1 .. FrameLen(f) :
              Offset(f) + i <= Len(rx_buf) => rx_buf[Offset(f) + i] = FrameOf(f)[i]
<1>1. FrameLen(f) \in Nat /\ FrameLen(f) >= 7 /\ frames[f].last \in Nat
  BY FrameOfFacts DEF IInv
<1>2. /\ Len(Stream) = Len(rx_buf) + Len(wire) /\ Len(rx_buf) \in Nat /\ Len(wire) \in Nat
      /\ \A i \in 1 .. Len(rx_buf) : Stream[i] = rx_buf[i]
  BY StreamFacts DEF IInv
<1>3. received \in Nat /\ Len(rx_buf) <= received /\ Begin = received - Len(rx_buf)
  BY DEF IInv, Typed, Bounded, Begin
<1>4. /\ frames[f].last - FrameLen(f) >= Begin /\ frames[f].last <= received + Len(wire)
      /\ \A i \in 1 .. FrameLen(f) : Stream[Offset(f) + i] = FrameOf(f)[i]
  BY DEF Intact, Offset
<1>5. PICK b, l, e, r, w :
        b = Begin /\ l = FrameLen(f) /\ e = frames[f].last /\ r = Len(rx_buf) /\ w = Len(wire)
  OBVIOUS
<1>10. b \in Nat /\ l \in Nat /\ e \in Nat /\ r \in Nat /\ w \in Nat /\ received = b + r
  BY <1>1, <1>2, <1>3, <1>5
<1>6. PICK o : o = Offset(f)
  OBVIOUS
<1>7. o = e - l - b /\ e - l >= b /\ e <= received + w
  BY <1>4, <1>5, <1>6 DEF Offset
<1>8. o \in Nat /\ e = b + o + l /\ o + l <= r + w
  BY <1>7, <1>10
<1>9. ASSUME NEW i \in 1 .. l, o + i <= r
      PROVE  rx_buf[o + i] = FrameOf(f)[i]
  <2>1. o + i \in 1 .. r
    BY <1>8, <1>9, <1>10
  <2> QED BY <1>2, <1>4, <1>5, <1>6, <2>1
<1> QED BY <1>1, <1>2, <1>4, <1>5, <1>6, <1>8, <1>9, <1>10

\* A frame at the start of the buffer is found there: its length is right, and
\* when all of it is in the buffer its CRC fits.
LEMMA AtStart ==
  ASSUME IInv, Tiled, NEW f \in 1 .. Len(frames), Intact(f), Offset(f) = 0
  PROVE  /\ Len(rx_buf) >= 2 => ByteAt(1) = Marker1 /\ ByteAt(2) = Marker2
         /\ Len(rx_buf) >= 5 => TotalLen = FrameLen(f)
         /\ Len(rx_buf) >= FrameLen(f) => CrcFits
<1>1. PICK m \in Message, c \in Counter, n \in Nat \ {0} :
        /\ n \in 1 .. Len(sent)
        /\ m = sent[n].message /\ c = sent[n].counter
        /\ FrameOf(f) = Frame(n, m, c) /\ FrameLen(f) = Len(Frame(n, m, c))
  BY FrameOfFacts DEF IInv
<1>2. PICK g, l : g = Frame(n, m, c) /\ l = Len(g) /\ g = FrameOf(f) /\ l = FrameLen(f)
  BY <1>1
<1>3. /\ l \in Nat /\ l >= 7
      /\ g[1].val = Marker1 /\ g[2].val = Marker2 /\ g[3].val = l - 6
      /\ Len(Content(m, c)) = l - 3
      /\ \A i \in 1 .. l - 3 : g[2 + i].val = Content(m, c)[i]
      /\ g[l].of = n
  <2>1. Shape(g, n, Content(m, c))
    BY <1>2, FrameShape
  <2> QED BY <1>2, <2>1 DEF Shape
<1>4. Len(rx_buf) \in Nat /\ \A i \in 1 .. l : i <= Len(rx_buf) => rx_buf[i] = g[i]
  <2>1. /\ Len(rx_buf) \in Nat
        /\ \A i \in 1 .. l : 0 + i <= Len(rx_buf) => rx_buf[0 + i] = g[i]
    BY <1>2, IntactFacts, SMTT(30)
  <2>2. \A i \in 1 .. l : 0 + i = i
    BY <1>3
  <2> QED BY <2>1, <2>2
<1>5. Len(rx_buf) >= 2 => ByteAt(1) = Marker1 /\ ByteAt(2) = Marker2
  <2> SUFFICES ASSUME Len(rx_buf) >= 2 PROVE ByteAt(1) = Marker1 /\ ByteAt(2) = Marker2
    OBVIOUS
  <2>1. /\ 1 \in 1 .. l /\ 1 <= Len(rx_buf)
        /\ 2 \in 1 .. l /\ 2 <= Len(rx_buf)
    BY <1>3, <1>4
  <2>2. rx_buf[1] = g[1] /\ rx_buf[2] = g[2]
    BY <1>4, <2>1, Zenon
  <2> QED BY <1>3, <2>2 DEF ByteAt
<1>6. ASSUME Len(rx_buf) >= 5 PROVE TotalLen = l
  <2>1. 3 \in 1 .. l /\ 3 <= Len(rx_buf)
    BY <1>3, <1>4, <1>6
  <2>2. rx_buf[3].val = l - 6
    BY <1>3, <1>4, <2>1
  <2> QED BY <1>3, <2>2 DEF TotalLen, HeaderLen, CrcLen, ByteAt
<1>7. ASSUME Len(rx_buf) >= l PROVE CrcFits
  <2>1. TotalLen = l
    BY <1>3, <1>4, <1>6, <1>7
  <2>2. BufCrc.of = n
    <3>1. l \in 1 .. l /\ l <= Len(rx_buf)
      BY <1>3, <1>7
    <3> QED BY <1>3, <1>4, <2>1, <3>1 DEF BufCrc
  <2>3. BufContent = Content(m, c)
    <3>1. BufContent = [i \in 1 .. l - 3 |-> rx_buf[2 + i].val]
      <4>1. TotalLen - 2 - CrcLen = l - 3
        BY <1>3, <2>1 DEF CrcLen
      <4> QED BY <4>1 DEF BufContent, ByteAt
    <3>2. ASSUME NEW i \in 1 .. l - 3
          PROVE  rx_buf[2 + i].val = Content(m, c)[i]
      <4>1. 2 + i \in 1 .. l /\ 2 + i <= Len(rx_buf)
        BY <1>3, <1>4, <1>7
      <4> QED BY <1>3, <1>4, <4>1
    <3>3. PICK k : k = Content(m, c)
      OBVIOUS
    <3>4. k = [i \in 1 .. l - 3 |-> k[i]]
      <4>1. k \in Seq(Byte) /\ Len(k) = l - 3
        BY <1>3, <3>3, ContentFacts
      <4> QED BY <4>1
    <3>5. \A i \in 1 .. l - 3 : rx_buf[2 + i].val = k[i]
      BY <3>2, <3>3
    <3> QED BY <3>1, <3>3, <3>4, <3>5
  <2> QED BY <1>1, <2>2, <2>3 DEF CrcFits
<1> QED BY <1>2, <1>5, <1>6, <1>7

LEMMA SameFrames ==
  ASSUME UNCHANGED <<sent, frames>>, NEW f
  PROVE  /\ FrameOf(f)' = FrameOf(f) /\ FrameLen(f)' = FrameLen(f) /\ Before(f)' = Before(f)
BY DEF FrameOf, FrameLen, Before

\* A step of parse keeps the whole frames if what it drops ends in front of each
\* of them or takes it.
LEMMA DropKeepsFrames ==
  ASSUME IInv, PlaceInv, parsing, NEW k \in 0 .. Len(rx_buf), Drop(k),
         UNCHANGED <<wire, parsing, sent, frames, received>>, taken \subseteq taken',
         NoFalseErrors',
         \A f \in 1 .. Len(frames) :
           frames[f].fate = "whole" /\ Intact(f) =>
             \/ k <= Offset(f)
             \/ k >= Offset(f) + FrameLen(f) /\ frames[f].last \in taken'
  PROVE  PlaceInv'
<1>1. /\ Len(rx_buf') = Len(rx_buf) - k /\ Len(rx_buf) \in Nat
      /\ Stream \in Seq(Symbol) /\ IsRest(Stream', Stream, k)
  BY DropStep DEF IInv
<1>2. received \in Nat /\ Len(rx_buf) <= received /\ received' = received
  BY DEF IInv, Typed, Bounded
<1>3. Begin' = Begin + k /\ Begin \in Nat /\ k \in Nat
  BY <1>1, <1>2 DEF Begin
<1>4. Tiled'
  BY SameFrames DEF PlaceInv, Tiled
<1>5. Waiting'
  BY DEF Waiting
<1>6. ASSUME NEW f \in 1 .. Len(frames), frames[f].fate = "whole"
      PROVE  (frames[f].last <= Begin' /\ frames[f].last \in taken') \/ Intact(f)'
  <2>1. /\ FrameOf(f)' = FrameOf(f) /\ FrameLen(f)' = FrameLen(f)
        /\ frames' = frames /\ wire' = wire
    BY SameFrames
  <2>2. FrameLen(f) \in Nat /\ frames[f].last \in Nat
    BY FrameOfFacts DEF IInv, PlaceInv
  <2>3. CASE frames[f].last <= Begin /\ frames[f].last \in taken
    BY <1>3, <2>2, <2>3
  <2>4. CASE Intact(f)
    <3>1. /\ Offset(f) \in Nat
          /\ frames[f].last = Begin + Offset(f) + FrameLen(f)
          /\ Offset(f) + FrameLen(f) <= Len(Stream) /\ Len(Stream) \in Nat
          /\ \A i \in 1 .. FrameLen(f) : Stream[Offset(f) + i] = FrameOf(f)[i]
      BY <2>4, IntactFacts DEF PlaceInv
    <3>2. PICK o, l, b, e \in Nat :
            o = Offset(f) /\ l = FrameLen(f) /\ b = Begin /\ e = frames[f].last
      <4>1. Offset(f) \in Nat /\ FrameLen(f) \in Nat /\ Begin \in Nat /\ frames[f].last \in Nat
        BY <1>3, <2>2, <3>1
      <4> QED BY <4>1
    <3>3. CASE k >= Offset(f) + FrameLen(f) /\ frames[f].last \in taken'
      <4>1. e = b + o + l /\ k >= o + l
        BY <3>1, <3>2, <3>3
      <4>2. e <= b + k
        BY <1>3, <3>2, <4>1, SMTT(30)
      <4> QED BY <1>3, <3>2, <3>3, <4>2
    <3>4. CASE k <= Offset(f)
      <4>1. k <= o /\ e = b + o + l /\ o + l <= Len(Stream)
        BY <3>1, <3>2, <3>4
      <4>2. frames'[f].last - FrameLen(f)' >= Begin'
        <5>1. e - l >= b + k
          BY <1>3, <3>2, <4>1, SMTT(30)
        <5> QED BY <1>3, <2>1, <3>2, <5>1
      <4>3. frames'[f].last <= received' + Len(wire')
        BY <1>2, <2>1, <2>4 DEF Intact
      <4>4. Len(Stream') = Len(Stream) - k /\ \A i \in 1 .. Len(Stream') : Stream'[i] = Stream[i + k]
        BY <1>1 DEF IsRest
      <4>5. ASSUME NEW i \in 1 .. l
            PROVE  Stream'[e - l - (b + k) + i] = FrameOf(f)[i]
        <5>1. PICK j : j = e - l - (b + k) + i
          OBVIOUS
        <5>2. j \in 1 .. Len(Stream) - k /\ j + k = o + i
          <6>1. /\ o \in Nat /\ l \in Nat /\ b \in Nat /\ e \in Nat /\ k \in Nat
                /\ Len(Stream) \in Nat /\ i \in Nat /\ 1 <= i /\ i <= l
                /\ k <= o /\ e = b + o + l /\ o + l <= Len(Stream)
            BY <1>3, <3>1, <4>1
          <6>2. j = (o - k) + i
            BY <5>1, <6>1
          <6> QED BY <6>1, <6>2
        <5>3. Stream'[j] = Stream[o + i]
          BY <4>4, <5>2
        <5> QED BY <3>1, <3>2, <5>1, <5>3
      <4>6. \A i \in 1 .. FrameLen(f)' :
              Stream'[frames'[f].last - FrameLen(f)' - Begin' + i] = FrameOf(f)'[i]
        BY <1>3, <2>1, <3>2, <4>5
      <4> QED BY <4>2, <4>3, <4>6 DEF Intact
    <3>5. k <= Offset(f) \/ (k >= Offset(f) + FrameLen(f) /\ frames[f].last \in taken')
      BY <1>6, <2>4
    <3> QED BY <3>3, <3>4, <3>5
  <2> QED BY <1>6, <2>3, <2>4 DEF PlaceInv, WholeOK
<1>7. WholeOK'
  BY <1>6 DEF WholeOK
<1> QED BY <1>4, <1>5, <1>7 DEF PlaceInv

LEMMA SkipKeeps == IInv /\ PlaceInv /\ Skip => PlaceInv'
<1> SUFFICES ASSUME IInv, PlaceInv, Skip PROVE PlaceInv'
  OBVIOUS
<1>1. Unmarked \in 0 .. Len(rx_buf) /\ \A i \in 1 .. Unmarked : rx_buf[i].val # Marker1
  BY UnmarkedFacts DEF IInv
<1>2. ASSUME NEW f \in 1 .. Len(frames), Intact(f)
      PROVE  Unmarked <= Offset(f)
  <2>1. /\ Offset(f) \in Nat /\ FrameLen(f) \in Nat /\ FrameLen(f) >= 7 /\ Len(rx_buf) \in Nat
        /\ \A i \in 1 .. FrameLen(f) :
             Offset(f) + i <= Len(rx_buf) => rx_buf[Offset(f) + i] = FrameOf(f)[i]
    BY <1>2, IntactFacts DEF PlaceInv
  <2>2. ASSUME Unmarked > Offset(f) PROVE FALSE
    <3>1. 1 \in 1 .. FrameLen(f) /\ Offset(f) + 1 <= Len(rx_buf) /\ Offset(f) + 1 \in 1 .. Unmarked
      BY <1>1, <2>1, <2>2
    <3>2. rx_buf[Offset(f) + 1] = FrameOf(f)[1]
      BY <2>1, <3>1
    <3>3. FrameOf(f)[1].val = Marker1
      <4>1. PICK m \in Message, c \in Counter, n \in Nat \ {0} : FrameOf(f) = Frame(n, m, c)
        BY FrameOfFacts DEF IInv, PlaceInv
      <4>2. Shape(FrameOf(f), n, Content(m, c))
        BY <4>1, FrameShape
      <4> QED BY <4>2 DEF Shape
    <3> QED BY <1>1, <3>1, <3>2, <3>3
  <2> QED BY <1>1, <2>1, <2>2
<1>3. /\ parsing /\ Drop(Unmarked) /\ taken' = taken
      /\ UNCHANGED <<wire, parsing, sent, frames, received, errors>>
  BY DEF Skip
<1>4. NoFalseErrors'
  BY <1>3 DEF PlaceInv, NoFalseErrors
<1> QED BY <1>1, <1>2, <1>3, <1>4, DropKeepsFrames

LEMMA NotMarkerKeeps == IInv /\ PlaceInv /\ NotMarker => PlaceInv'
<1> SUFFICES ASSUME IInv, PlaceInv, NotMarker PROVE PlaceInv'
  OBVIOUS
<1>1. parsing /\ 1 \in 0 .. Len(rx_buf) /\ Len(rx_buf) >= 2 /\ ByteAt(2) # Marker2
  BY MarkerFacts DEF IInv, NotMarker
<1>2. ASSUME NEW f \in 1 .. Len(frames), Intact(f)
      PROVE  1 <= Offset(f)
  <2>1. Offset(f) \in Nat
    BY <1>2, IntactFacts DEF PlaceInv
  <2>2. Offset(f) # 0
    BY <1>1, <1>2, AtStart DEF PlaceInv
  <2> QED BY <2>1, <2>2
<1>3. /\ Drop(1) /\ taken' = taken
      /\ UNCHANGED <<wire, parsing, sent, frames, received, errors>>
  BY DEF NotMarker
<1>4. NoFalseErrors'
  BY <1>3 DEF PlaceInv, NoFalseErrors
<1> QED BY <1>1, <1>2, <1>3, <1>4, DropKeepsFrames

\* When nothing has been damaged up to a frame that is not gone, the stream
\* begins with a whole frame.
LEMMA FrontFrame ==
  ASSUME IInv, PlaceInv, NEW g \in 1 .. Len(frames), frames[g].last > Begin,
         \A h \in 1 .. g : frames[h].fate # "damaged"
  PROVE  \E h \in 1 .. g : frames[h].fate = "whole" /\ Intact(h) /\ Offset(h) = 0
<1> DEFINE I == {h \in 1 .. g : frames[h].last > Begin}
<1>1. frames \in Seq(FrameRecord) /\ Len(frames) \in Nat /\ g \in Nat /\ g <= Len(frames)
  <2>1. frames \in Seq(FrameRecord)
    BY DEF IInv, Typed
  <2> QED BY <2>1, SeqFacts
<1>2. \A h \in 1 .. Len(frames) : frames[h] \in FrameRecord
  BY <1>1, SeqFacts
<1>3. Begin \in Nat
  <2>1. received \in Nat /\ Len(rx_buf) <= received /\ Len(rx_buf) \in Nat
    BY SeqFacts DEF IInv, Typed, Bounded
  <2> QED BY <2>1 DEF Begin
<1>4. PICK h \in I : \A i \in I : h <= i
  <2>1. I \subseteq Nat /\ g \in I
    BY <1>1
  <2> HIDE DEF I
  <2> QED BY <2>1, MinExists
<1>5. h \in 1 .. g /\ h \in 1 .. Len(frames) /\ frames[h].last > Begin /\ h \in Nat
  BY <1>1, <1>4
<1>6. Before(h) <= Begin
  <2>1. CASE h = 1
    BY <1>3, <2>1 DEF Before
  <2>2. CASE h # 1
    <3>1. h - 1 \in 1 .. g /\ h - 1 \in 1 .. Len(frames) /\ ~(h <= h - 1)
      BY <1>1, <1>5, <2>2
    <3>2. ~(frames[h - 1].last > Begin)
      BY <1>4, <3>1
    <3>3. frames[h - 1].last \in Nat
      BY <1>2, <3>1 DEF FrameRecord
    <3> QED BY <1>3, <2>2, <3>2, <3>3 DEF Before
  <2> QED BY <2>1, <2>2
<1>7. frames[h].last \in Nat /\ frames[h].fate \in {"whole", "lost", "damaged"}
  BY <1>2, <1>5 DEF FrameRecord
<1>8. frames[h].fate = "whole"
  <2>1. frames[h].fate # "lost"
    <3>1. frames[h].fate = "lost" => frames[h].last = Before(h)
      BY <1>5 DEF PlaceInv, Tiled
    <3> QED BY <1>3, <1>5, <1>6, <1>7, <3>1
  <2> QED BY <1>5, <1>7, <2>1
<1>9. Intact(h)
  <2>1. ~(frames[h].last <= Begin)
    BY <1>3, <1>5, <1>7
  <2> QED BY <1>5, <1>8, <2>1 DEF PlaceInv, WholeOK
<1>10. Offset(h) = 0
  <2>1. FrameLen(h) \in Nat /\ frames[h].last - FrameLen(h) >= Begin
    BY <1>5, <1>9, IntactFacts DEF PlaceInv, Intact
  <2>2. frames[h].last = Before(h) + FrameLen(h)
    BY <1>5, <1>8 DEF PlaceInv, Tiled
  <2>3. Before(h) \in Nat
    <3>1. CASE h = 1
      BY <3>1 DEF Before
    <3>2. CASE h # 1
      <4>1. h - 1 \in 1 .. Len(frames)
        BY <1>1, <1>5, <3>2
      <4> QED BY <1>2, <3>2, <4>1 DEF Before, FrameRecord
    <3> QED BY <3>1, <3>2
  <2>4. frames[h].last - FrameLen(h) = Begin
    BY <1>3, <1>6, <1>7, <2>1, <2>2, <2>3
  <2> QED BY <1>3, <2>4 DEF Offset
<1> QED BY <1>5, <1>8, <1>9, <1>10

LEMMA BadCrcKeeps == IInv /\ PlaceInv /\ BadCrc => PlaceInv'
<1> SUFFICES ASSUME IInv, PlaceInv, BadCrc PROVE PlaceInv'
  OBVIOUS
<1>1. /\ parsing /\ 1 \in 0 .. Len(rx_buf) /\ Len(rx_buf) \in Nat
      /\ AtFrame /\ Len(rx_buf) >= 5 /\ Len(rx_buf) >= TotalLen /\ ~CrcFits
  BY MarkerFacts DEF IInv, BadCrc, AtFrame, Complete, HeaderLen
<1>2. ASSUME NEW f \in 1 .. Len(frames), Intact(f)
      PROVE  Offset(f) \in Nat /\ 1 <= Offset(f)
  <2>1. Offset(f) \in Nat
    BY <1>2, IntactFacts DEF PlaceInv
  <2>2. Offset(f) # 0
    BY <1>1, <1>2, AtStart DEF PlaceInv
  <2> QED BY <2>1, <2>2
<1>3. /\ Drop(1) /\ taken' = taken
      /\ UNCHANGED <<wire, parsing, sent, frames, received>>
  BY DEF BadCrc, Rescan
<1>4. \E f \in 1 .. Len(frames) : frames[f].fate = "damaged"
  <2> SUFFICES ASSUME \A f \in 1 .. Len(frames) : frames[f].fate # "damaged" PROVE FALSE
    OBVIOUS
  <2>1. PICK g : g = Len(frames)
    OBVIOUS
  <2>2. g \in Nat /\ received \in Nat /\ Len(rx_buf) <= received /\ Len(wire) \in Nat
    <3>1. /\ frames \in Seq(FrameRecord) /\ wire \in Seq(Symbol)
          /\ received \in Nat /\ Len(rx_buf) <= received
      BY DEF IInv, Typed, Bounded
    <3> QED BY <2>1, <3>1, SeqFacts
  <2>3. Before(g + 1) = received + Len(wire)
    BY <2>1 DEF PlaceInv, Tiled
  <2>4. Begin \in Nat /\ received + Len(wire) > Begin
    BY <1>1, <2>2 DEF Begin
  <2>5. g + 1 # 1
    BY <2>2, <2>3, <2>4 DEF Before
  <2>6. g \in 1 .. Len(frames) /\ g + 1 - 1 = g
    BY <2>1, <2>2, <2>5
  <2>7. frames[g].last > Begin
    BY <2>3, <2>4, <2>5, <2>6 DEF Before
  <2>8. PICK h \in 1 .. g : Intact(h) /\ Offset(h) = 0
    BY <2>1, <2>6, <2>7, FrontFrame
  <2>9. h \in 1 .. Len(frames)
    BY <2>1
  <2> QED BY <1>2, <2>8, <2>9
<1>5. NoFalseErrors'
  BY <1>3, <1>4 DEF NoFalseErrors
<1> QED BY <1>1, <1>2, <1>3, <1>5, DropKeepsFrames

\* A frame that is taken ends in front of a whole frame, or is that frame: it
\* cannot end inside, where no symbol is a CRC, nor behind, unless the whole
\* frame lies in its data.
LEMMA GoodFrameEnds ==
  ASSUME IInv, PlaceInv, NoFrameInside, GoodFrame, NEW f \in 1 .. Len(frames), Intact(f)
  PROVE  \/ TotalLen <= Offset(f)
         \/ TotalLen >= Offset(f) + FrameLen(f) /\ frames[f].last \in taken'
<1>1. Typed /\ Ordered /\ AtFrame /\ Complete /\ CrcFits
  BY DEF IInv, GoodFrame
<1>2. /\ TotalLen \in 6 .. Len(rx_buf) /\ Len(rx_buf) \in Nat
      /\ BufCrc.of \in 1 .. Len(sent) /\ BufCrc.of # 0 /\ sent[BufCrc.of] \in SentRecord
  BY <1>1, GoodFacts
<1>3. PICK m1 \in Message, c1 \in Counter : BufContent = Content(m1, c1)
  <2>1. BufContent = Content(sent[BufCrc.of].message, sent[BufCrc.of].counter)
    BY <1>1 DEF CrcFits, Covered
  <2> QED BY <1>2, <2>1 DEF SentRecord
<1>4. PICK m2 \in Message, c2 \in Counter, n \in Nat \ {0} :
        FrameOf(f) = Frame(n, m2, c2) /\ FrameLen(f) = Len(Frame(n, m2, c2))
  BY FrameOfFacts DEF IInv, PlaceInv
<1>5. PICK g : g = FrameOf(f)
  OBVIOUS
<1>6. Shape(g, n, Content(m2, c2))
  BY <1>4, <1>5, FrameShape
<1>7. /\ Offset(f) \in Nat /\ FrameLen(f) \in Nat /\ FrameLen(f) >= 7 /\ FrameLen(f) = Len(g)
      /\ frames[f].last = Begin + Offset(f) + FrameLen(f)
      /\ Begin \in Nat /\ received = Begin + Len(rx_buf)
      /\ \A i \in 1 .. FrameLen(f) :
           Offset(f) + i <= Len(rx_buf) => rx_buf[Offset(f) + i] = g[i]
  BY <1>4, <1>5, IntactFacts DEF PlaceInv
<1>8. PICK t, o, l, b \in Nat :
        t = TotalLen /\ o = Offset(f) /\ l = FrameLen(f) /\ b = Begin /\ t >= 6 /\ t <= Len(rx_buf)
  <2>1. TotalLen \in Nat /\ TotalLen >= 6 /\ TotalLen <= Len(rx_buf)
    BY <1>2
  <2> QED BY <1>7, <2>1
<1>9. /\ l >= 7 /\ l = Len(g) /\ frames[f].last = b + o + l /\ received = b + Len(rx_buf)
      /\ \A i \in 1 .. l : o + i <= Len(rx_buf) => rx_buf[o + i] = g[i]
  BY <1>7, <1>8
<1>10. ASSUME t > o, t < o + l PROVE FALSE
  <2>1. PICK j : j = t - o
    OBVIOUS
  <2>2. j \in 1 .. l /\ j \in 1 .. Len(g) - 1 /\ o + j = t /\ o + j <= Len(rx_buf)
    <3>1. /\ t \in Nat /\ o \in Nat /\ l \in Nat /\ t > o /\ t < o + l
          /\ t <= Len(rx_buf) /\ l = Len(g)
      BY <1>8, <1>9, <1>10
    <3>2. j \in 1 .. l /\ j \in 1 .. l - 1 /\ o + j = t
      BY <2>1, <3>1
    <3> QED BY <3>1, <3>2
  <2>3. rx_buf[t] = g[j]
    BY <1>9, <2>2
  <2>4. g[j].of = 0
    BY <1>6, <2>2 DEF Shape
  <2> QED BY <1>2, <1>8, <2>3, <2>4 DEF BufCrc
<1>11. ASSUME t > o + l PROVE FALSE
  <2>1. o # 0
    <3>1. ASSUME o = 0 PROVE FALSE
      <4>1. Len(rx_buf) >= 5
        BY <1>2, <1>8
      <4>2. TotalLen = FrameLen(f)
        BY <1>8, <3>1, <4>1, AtStart DEF PlaceInv
      <4> QED BY <1>8, <1>11, <3>1, <4>2
    <3> QED BY <3>1
  <2>2. o # 1
    <3>1. ASSUME o = 1 PROVE FALSE
      <4>1. 1 \in 1 .. l /\ o + 1 <= Len(rx_buf) /\ o + 1 = 2
        BY <1>2, <1>8, <1>9, <3>1
      <4>2. rx_buf[o + 1] = g[1]
        BY <1>9, <4>1
      <4>3. g[1].val = Marker1 /\ rx_buf[2].val = Marker2
        BY <1>1, <1>6 DEF Shape, AtFrame, ByteAt
      <4> QED BY <4>1, <4>2, <4>3, FramingAssumption
    <3> QED BY <3>1
  <2>3. PICK p \in Nat : p = o - 2
    BY <1>8, <2>1, <2>2
  <2>4. PICK h : h = Frame(1, m2, c2)
    OBVIOUS
  <2>5. Len(h) = l /\ \A i \in 1 .. l : h[i].val = g[i].val
    <3>1. /\ Len(Frame(n, m2, c2)) = Len(h)
          /\ \A i \in 1 .. Len(Frame(n, m2, c2)) : Frame(n, m2, c2)[i].val = h[i].val
      BY <2>4, SameValues
    <3>2. g = Frame(n, m2, c2) /\ l = Len(Frame(n, m2, c2))
      BY <1>4, <1>5, <1>8
    <3> QED BY <3>1, <3>2
  <2>6. PICK c : c = Content(m1, c1)
    OBVIOUS
  <2>7. c = [i \in 1 .. t - 3 |-> rx_buf[2 + i].val] /\ Len(c) = t - 3
    <3>1. TotalLen - 2 - CrcLen = t - 3 /\ t - 3 \in Nat
      BY <1>8 DEF CrcLen
    <3>2. c = [i \in 1 .. t - 3 |-> rx_buf[2 + i].val]
      BY <1>3, <2>6, <3>1 DEF BufContent, ByteAt
    <3>3. c \in Seq(Byte) /\ DOMAIN c = 1 .. Len(c) /\ Len(c) \in Nat
      BY <2>6, ContentFacts, SeqFacts
    <3>4. DOMAIN c = 1 .. t - 3
      BY <3>2
    <3>5. Len(c) = t - 3
      BY <3>1, <3>3, <3>4
    <3> QED BY <3>2, <3>5
  <2>8. p + l <= t - 3
    BY <1>8, <1>11, <2>3, SMTT(20)
  <2>9. ASSUME NEW i \in 1 .. l
        PROVE  c[p + i] = h[i].val
    <3>1. p + i \in 1 .. t - 3 /\ 2 + (p + i) = o + i /\ o + i <= Len(rx_buf)
      <4>1. /\ p \in Nat /\ o \in Nat /\ t \in Nat /\ l \in Nat /\ i \in Nat
            /\ 1 <= i /\ i <= l /\ p = o - 2 /\ p + l <= t - 3
            /\ t <= Len(rx_buf) /\ Len(rx_buf) \in Nat
        BY <1>2, <1>8, <2>3, <2>8
      <4> QED BY <4>1
    <3>2. c[p + i] = rx_buf[2 + (p + i)].val
      BY <2>7, <3>1
    <3> QED BY <1>9, <2>5, <3>1, <3>2
  <2>10. p + Len(h) <= Len(c) => \E i \in 1 .. Len(h) : c[p + i] # h[i].val
    <3>1. p + Len(Frame(1, m2, c2)) <= Len(Content(m1, c1)) =>
            \E i \in 1 .. Len(Frame(1, m2, c2)) : Content(m1, c1)[p + i] # Frame(1, m2, c2)[i].val
      BY DEF NoFrameInside
    <3> QED BY <2>4, <2>6, <3>1
  <2>11. p + Len(h) <= Len(c)
    BY <2>5, <2>7, <2>8
  <2>12. PICK i \in 1 .. Len(h) : c[p + i] # h[i].val
    BY <2>10, <2>11
  <2> QED BY <2>5, <2>9, <2>12
<1>12. ASSUME t = o + l PROVE frames[f].last \in taken'
  <2>1. taken' = taken \cup {received - Len(rx_buf) + t}
    BY <1>8 DEF GoodFrame
  <2>2. received - Len(rx_buf) + t = frames[f].last
    <3>1. PICK r : r = Len(rx_buf)
      OBVIOUS
    <3>2. /\ received = b + r /\ frames[f].last = b + o + l
          /\ b \in Nat /\ r \in Nat /\ o \in Nat /\ l \in Nat
      BY <1>2, <1>8, <1>9, <3>1
    <3>3. (b + r) - r + (o + l) = b + o + l
      BY <3>2
    <3> QED BY <1>12, <3>1, <3>2, <3>3
  <2> QED BY <2>1, <2>2
<1>13. t <= o \/ (t > o /\ t < o + l) \/ t = o + l \/ t > o + l
  BY <1>8
<1>14. t <= o \/ (t >= o + l /\ frames[f].last \in taken')
  BY <1>8, <1>10, <1>11, <1>12, <1>13
<1> QED BY <1>8, <1>14

LEMMA GoodFrameKeeps ==
  ASSUME IInv, PlaceInv, NoFrameInside, GoodFrame,
         UNCHANGED <<wire, parsing, errors, sent, frames, received>>
  PROVE  PlaceInv'
<1>1. PICK k : k = TotalLen
  OBVIOUS
<1>2. k \in 0 .. Len(rx_buf) /\ parsing /\ Drop(k)
  <2>1. k \in 6 .. Len(rx_buf) /\ parsing /\ Len(rx_buf) \in Nat
    BY <1>1, GoodFrameFacts
  <2> QED BY <1>1, <2>1 DEF GoodFrame
<1>3. taken \subseteq taken'
  BY DEF GoodFrame
<1>4. NoFalseErrors'
  BY DEF PlaceInv, NoFalseErrors
<1>5. \A f \in 1 .. Len(frames) :
        frames[f].fate = "whole" /\ Intact(f) =>
          \/ k <= Offset(f)
          \/ k >= Offset(f) + FrameLen(f) /\ frames[f].last \in taken'
  BY <1>1, GoodFrameEnds
<1> QED BY <1>2, <1>3, <1>4, <1>5, DropKeepsFrames

LEMMA ReceiveKeeps == IInv /\ PlaceInv /\ Receive => PlaceInv'
<1> SUFFICES ASSUME IInv, PlaceInv, Receive PROVE PlaceInv'
  OBVIOUS
<1>1. /\ rx_buf \in Seq(Symbol) /\ wire \in Seq(Symbol) /\ wire # <<>>
      /\ rx_buf' = Append(rx_buf, Head(wire)) /\ wire' = Tail(wire)
      /\ received' = received + 1 /\ received \in Nat
      /\ UNCHANGED <<sent, frames, taken, errors>> /\ parsing'
  BY DEF IInv, Typed, Receive
<1>2. Stream' = Stream /\ Len(rx_buf') = Len(rx_buf) + 1 /\ Len(rx_buf) \in Nat
  BY <1>1, MoveOne DEF Stream
<1>3. Begin' = Begin
  BY <1>1, <1>2 DEF Begin
<1>4. received' + Len(wire') = received + Len(wire)
  <2>1. Len(wire) \in Nat /\ Len(wire') = Len(wire) - 1
    BY <1>1, HeadTailProperties, SeqFacts
  <2> QED BY <1>1, <2>1
<1>5. \A f : FrameOf(f)' = FrameOf(f) /\ FrameLen(f)' = FrameLen(f) /\ Before(f)' = Before(f)
  BY <1>1, SameFrames
<1>6. Tiled'
  BY <1>1, <1>4, <1>5 DEF PlaceInv, Tiled
<1>7. WholeOK'
  <2>1. \A f : Intact(f) => Intact(f)'
    BY <1>1, <1>2, <1>3, <1>4, <1>5 DEF Intact
  <2> QED BY <1>1, <1>3, <2>1 DEF PlaceInv, WholeOK
<1>8. Waiting' /\ NoFalseErrors'
  BY <1>1 DEF PlaceInv, Waiting, NoFalseErrors
<1> QED BY <1>6, <1>7, <1>8 DEF PlaceInv

LEMMA ReturnKeeps == IInv /\ PlaceInv /\ Return => PlaceInv'
<1> SUFFICES ASSUME IInv, PlaceInv, Return PROVE PlaceInv'
  OBVIOUS
<1>1. UNCHANGED <<wire, rx_buf, errors, sent, frames, received, taken>>
  BY DEF Return
<1>2. \A f : FrameOf(f)' = FrameOf(f) /\ FrameLen(f)' = FrameLen(f) /\ Before(f)' = Before(f)
  BY <1>1, SameFrames
<1>3. Stream' = Stream /\ Begin' = Begin
  BY <1>1 DEF Stream, Begin
<1>4. Tiled' /\ NoFalseErrors'
  BY <1>1, <1>2 DEF PlaceInv, Tiled, NoFalseErrors
<1>5. WholeOK'
  <2>1. \A f : Intact(f) => Intact(f)'
    BY <1>1, <1>2, <1>3 DEF Intact
  <2> QED BY <1>1, <1>3, <2>1 DEF PlaceInv, WholeOK
<1>6. ASSUME NEW f \in 1 .. Len(frames), frames[f].fate = "whole",
             frames[f].last - FrameLen(f) = Begin
      PROVE  frames[f].last > received
  <2> SUFFICES ASSUME ~(frames[f].last > received) PROVE FALSE
    OBVIOUS
  <2>1. FrameLen(f) \in Nat /\ FrameLen(f) >= 7 /\ frames[f].last \in Nat
    BY FrameOfFacts DEF IInv, PlaceInv
  <2>2. /\ received \in Nat /\ Begin = received - Len(rx_buf) /\ Len(rx_buf) <= received
        /\ rx_buf \in Seq(Symbol)
    BY DEF IInv, Typed, Bounded, Begin
  <2>3. Len(rx_buf) \in Nat /\ (rx_buf = <<>> <=> Len(rx_buf) = 0)
    BY <2>2, SeqFacts
  <2>4. FrameLen(f) <= Len(rx_buf)
    BY <1>6, <2>1, <2>2, <2>3
  <2>5. Intact(f) /\ Offset(f) = 0
    <3>1. ~(frames[f].last <= Begin)
      BY <1>6, <2>1, <2>2, <2>3
    <3>2. Intact(f)
      BY <1>6, <3>1 DEF PlaceInv, WholeOK
    <3>3. Offset(f) = 0
      BY <1>6, <2>2, <2>3 DEF Offset
    <3> QED BY <3>2, <3>3
  <2>6. Len(rx_buf) >= 5 /\ TotalLen = FrameLen(f)
    <3>1. Len(rx_buf) >= 5
      BY <2>1, <2>3, <2>4
    <3> QED BY <2>5, <3>1, AtStart DEF PlaceInv
  <2>7. Complete
    BY <2>1, <2>3, <2>4, <2>6 DEF Complete, HeaderLen
  <2>8. rx_buf = <<>> \/ Len(rx_buf) < 2
    BY <2>7 DEF Return
  <2> QED BY <2>3, <2>6, <2>8
<1>7. Waiting'
  BY <1>1, <1>2, <1>3, <1>6 DEF Waiting
<1> QED BY <1>4, <1>5, <1>7 DEF PlaceInv

\* The next frame goes behind the others.
LEMMA TransmitKeeps ==
  ASSUME IInv, PlaceInv, NEW n \in Nat \ {0}, NEW m \in Message, NEW c \in Counter,
         Transmit(n, m, c),
         n \in 1 .. Len(sent'), Len(sent') >= Len(sent),
         sent'[n].message = m, sent'[n].counter = c,
         \A i \in 1 .. Len(sent) : i \in 1 .. Len(sent') /\ sent'[i] = sent[i]
  PROVE  PlaceInv'
<1>1. /\ wire = <<>> /\ ~parsing /\ wire' \in Seq(Symbol) /\ Stream' = Stream \o wire'
      /\ Len(frames') = Len(frames) + 1 /\ Len(frames) \in Nat
      /\ UNCHANGED <<rx_buf, parsing, rx, errors, received, taken, delivered>>
  BY TransmitFacts DEF IInv
<1>2. PICK x \in FrameRecord :
        /\ frames' = Append(frames, x)
        /\ x.of = n /\ x.last = received + Len(wire')
        /\ x.fate = "whole" => wire' = Frame(n, m, c)
        /\ x.fate = "lost" => wire' = <<>>
  BY TransmitFacts DEF IInv
<1>3. PICK g : g = Len(frames) + 1
  OBVIOUS
<1>4. /\ g \in Nat /\ g \in 1 .. Len(frames') /\ Len(frames') = g /\ frames'[g] = x
      /\ \A f \in 1 .. Len(frames) : frames'[f] = frames[f]
      /\ \A f \in 1 .. Len(frames') : f \in 1 .. Len(frames) \/ f = g
      /\ \A f \in 1 .. Len(frames) : f \in 1 .. Len(frames')
  <2>1. frames \in Seq(FrameRecord)
    BY DEF IInv, Typed
  <2> QED BY <1>1, <1>2, <1>3, <2>1, AppendFacts
<1>5. PICK r, w \in Nat : r = received /\ w = Len(wire') /\ x.last = r + w
  <2>1. received \in Nat /\ Len(wire') \in Nat
    BY <1>1, SeqFacts DEF IInv, Typed
  <2> QED BY <1>2, <2>1
<1>6. received' = r /\ received + Len(wire) = r /\ Before(g) = r
  <2>1. Len(wire) = 0
    BY <1>1
  <2> QED BY <1>1, <1>3, <1>5, <2>1 DEF PlaceInv, Tiled
<1>7. Begin' = Begin /\ Begin \in Nat /\ Begin + Len(rx_buf) = r /\ Len(rx_buf) \in Nat
  <2>1. Len(rx_buf) \in Nat /\ Len(rx_buf) <= received
    BY SeqFacts DEF IInv, Typed, Bounded
  <2> QED BY <1>1, <1>5, <2>1 DEF Begin
<1>8. /\ Stream \in Seq(Symbol) /\ Len(Stream) = Len(rx_buf)
      /\ \A i \in 1 .. Len(rx_buf) + w :
           Stream'[i] = IF i <= Len(rx_buf) THEN Stream[i] ELSE wire'[i - Len(rx_buf)]
  <2>1. Stream \in Seq(Symbol) /\ Len(Stream) = Len(rx_buf) + 0
    <3>1. Len(wire) = 0
      BY <1>1
    <3> QED BY <3>1, StreamFacts DEF IInv
  <2>2. Len(Stream) = Len(rx_buf)
    BY <1>7, <2>1
  <2>3. \A i \in 1 .. Len(Stream) + Len(wire') :
          (Stream \o wire')[i] = IF i <= Len(Stream) THEN Stream[i] ELSE wire'[i - Len(Stream)]
    BY <1>1, <2>1, JoinFacts
  <2> QED BY <1>1, <1>5, <2>1, <2>2, <2>3
\* The frames before.
<1>9. ASSUME NEW f \in 1 .. Len(frames)
      PROVE  /\ FrameOf(f)' = FrameOf(f) /\ FrameLen(f)' = FrameLen(f) /\ Before(f)' = Before(f)
             /\ frames'[f] = frames[f] /\ frames[f].of \in 1 .. Len(sent')
             /\ frames[f].last <= r /\ frames[f].last \in Nat
  <2>1. frames'[f] = frames[f] /\ frames[f].of \in 1 .. Len(sent) /\ frames[f].last <= r
    BY <1>4, <1>6 DEF PlaceInv, Tiled
  <2>2. FrameOf(f)' = FrameOf(f) /\ FrameLen(f)' = FrameLen(f)
    BY <2>1 DEF FrameOf, FrameLen
  <2>3. Before(f)' = Before(f)
    <3>1. f = 1 \/ f - 1 \in 1 .. Len(frames)
      BY <1>1
    <3> QED BY <1>4, <3>1 DEF Before
  <2>4. frames[f].last \in Nat
    BY FrameOfFacts DEF IInv, PlaceInv
  <2> QED BY <2>1, <2>2, <2>3, <2>4
<1>10. Before(g)' = r
  <2>1. CASE g = 1
    BY <1>6, <2>1 DEF Before
  <2>2. CASE g # 1
    <3>1. g - 1 \in 1 .. Len(frames)
      BY <1>1, <1>3, <2>2
    <3> QED BY <1>4, <1>6, <2>2, <3>1 DEF Before
  <2> QED BY <2>1, <2>2
\* The new frame.
<1>11. FrameOf(g)' = Frame(n, m, c) /\ FrameLen(g)' = Len(Frame(n, m, c))
  BY <1>2, <1>4 DEF FrameOf, FrameLen
<1>12. /\ x.fate = "whole" => w = FrameLen(g)' /\ w >= 7
       /\ x.fate = "lost" => w = 0
  <2>1. x.fate = "whole" => w = FrameLen(g)' /\ Len(Frame(n, m, c)) >= 7
    BY <1>2, <1>5, <1>11, FrameShape DEF Shape
  <2>2. x.fate = "lost" => w = 0
    BY <1>2, <1>5
  <2> QED BY <1>11, <2>1, <2>2
<1>13. Tiled'
  <2>1. Before(g + 1)' = r + w
    <3>1. g + 1 # 1 /\ g + 1 - 1 = g
      BY <1>1, <1>3
    <3> QED BY <1>4, <1>5, <3>1 DEF Before
  <2>2. ASSUME NEW f \in 1 .. Len(frames')
        PROVE  /\ frames'[f].of \in 1 .. Len(sent')
               /\ frames'[f].last <= r + w
               /\ frames'[f].fate = "whole" => frames'[f].last = Before(f)' + FrameLen(f)'
               /\ frames'[f].fate = "lost" => frames'[f].last = Before(f)'
    <3>1. CASE f \in 1 .. Len(frames)
      <4>1. frames[f].last <= r + w
        BY <1>5, <1>9, <3>1
      <4> QED BY <1>9, <3>1, <4>1 DEF PlaceInv, Tiled
    <3>2. CASE f = g
      <4>1. /\ frames'[g].of = n /\ frames'[g].last = r + w
            /\ frames'[g].fate = "whole" => w = FrameLen(g)'
            /\ frames'[g].fate = "lost" => w = 0
        BY <1>2, <1>4, <1>5, <1>12
      <4>2. r + w <= r + w /\ (w = 0 => r + w = r)
        BY <1>5
      <4> QED BY <1>10, <3>2, <4>1, <4>2
    <3> QED BY <1>4, <3>1, <3>2
  <2>3. ASSUME NEW f \in 1 .. Len(frames'), NEW h \in 1 .. Len(frames'), f <= h
        PROVE  frames'[f].last <= frames'[h].last
    <3>1. CASE h \in 1 .. Len(frames)
      <4>1. f \in 1 .. Len(frames)
        BY <1>1, <2>3, <3>1
      <4> QED BY <1>4, <2>3, <3>1, <4>1 DEF PlaceInv, Tiled
    <3>2. CASE h = g
      BY <1>4, <1>5, <2>2, <3>2
    <3> QED BY <1>4, <3>1, <3>2
  <2>4. received' + Len(wire') = r + w
    BY <1>5, <1>6
  <2> QED BY <1>4, <2>1, <2>2, <2>3, <2>4 DEF Tiled
<1>14. WholeOK'
  <2>1. ASSUME NEW f \in 1 .. Len(frames), frames[f].fate = "whole"
        PROVE  (frames[f].last <= Begin /\ frames[f].last \in taken) \/ Intact(f)'
    <3> SUFFICES ASSUME Intact(f) PROVE Intact(f)'
      BY <2>1 DEF PlaceInv, WholeOK
    <3>1. /\ Offset(f) \in Nat /\ FrameLen(f) \in Nat
          /\ Offset(f) + FrameLen(f) <= Len(Stream)
          /\ \A i \in 1 .. FrameLen(f) : Stream[Offset(f) + i] = FrameOf(f)[i]
      BY IntactFacts DEF PlaceInv
    <3>2. ASSUME NEW i \in 1 .. FrameLen(f)
          PROVE  Stream'[Offset(f) + i] = FrameOf(f)[i]
      <4>1. Offset(f) + i \in 1 .. Len(rx_buf) + w /\ Offset(f) + i <= Len(rx_buf)
        BY <1>5, <1>7, <1>8, <3>1, SMTT(30)
      <4> QED BY <1>8, <3>1, <4>1
    <3>3. Offset(f)' = Offset(f)
      BY <1>7, <1>9 DEF Offset
    <3>4. frames[f].last <= r + w
      BY <1>5, <1>9
    <3> QED BY <1>5, <1>6, <1>7, <1>9, <3>2, <3>3, <3>4 DEF Intact, Offset
  <2>2. ASSUME x.fate = "whole"
        PROVE  Intact(g)'
    <3>1. PICK l : l = FrameLen(g)'
      OBVIOUS
    <3>2. l = w /\ wire' = FrameOf(g)' /\ frames'[g].last = r + w
      BY <1>2, <1>4, <1>5, <1>11, <1>12, <2>2, <3>1
    <3>3. frames'[g].last - l >= Begin'
      BY <1>5, <1>7, <3>2
    <3>4. frames'[g].last <= received' + Len(wire')
      BY <1>5, <1>6, <3>2
    <3>5. ASSUME NEW i \in 1 .. w
          PROVE  Stream'[frames'[g].last - l - Begin' + i] = wire'[i]
      <4>1. PICK j : j = Len(rx_buf) + i
        OBVIOUS
      <4>2. /\ j \in 1 .. Len(rx_buf) + w /\ ~(j <= Len(rx_buf)) /\ j - Len(rx_buf) = i
        BY <1>5, <1>7, <4>1
      <4>3. frames'[g].last - l - Begin' + i = j
        <5>1. PICK b, e : b = Begin /\ e = Len(rx_buf)
          OBVIOUS
        <5>2. b \in Nat /\ e \in Nat /\ r \in Nat /\ w \in Nat /\ i \in Nat /\ b + e = r
          BY <1>5, <1>7, <5>1
        <5>3. (r + w) - w - b + i = e + i
          BY <5>2
        <5>4. frames'[g].last - l - Begin' + i = (r + w) - w - b + i
          <6>1. frames'[g].last = r + w /\ l = w /\ Begin' = b
            BY <1>7, <3>2, <5>1
          <6> QED BY <6>1, Zenon
        <5> QED BY <4>1, <5>1, <5>3, <5>4
      <4> QED BY <1>8, <4>2, <4>3
    <3> QED BY <3>1, <3>2, <3>3, <3>4, <3>5 DEF Intact
  <2>3. ASSUME NEW f \in 1 .. Len(frames'), frames'[f].fate = "whole"
        PROVE  (frames'[f].last <= Begin' /\ frames'[f].last \in taken') \/ Intact(f)'
    <3>1. CASE f \in 1 .. Len(frames)
      BY <1>1, <1>4, <1>7, <2>1, <2>3, <3>1
    <3>2. CASE f = g
      BY <1>4, <2>2, <2>3, <3>2
    <3> QED BY <1>4, <3>1, <3>2
  <2> QED BY <2>3 DEF WholeOK
<1>15. Waiting'
  <2>1. ASSUME NEW f \in 1 .. Len(frames'), frames'[f].fate = "whole",
               frames'[f].last - FrameLen(f)' = Begin'
        PROVE  frames'[f].last > received'
    <3>1. CASE f \in 1 .. Len(frames)
      BY <1>1, <1>7, <1>9, <2>1, <3>1 DEF PlaceInv, Waiting
    <3>2. CASE f = g
      <4>1. frames'[f].last = r + w /\ w >= 7
        BY <1>4, <1>5, <1>12, <2>1, <3>2
      <4> QED BY <1>5, <1>6, <4>1
    <3> QED BY <1>4, <3>1, <3>2
  <2> QED BY <2>1 DEF Waiting
<1>16. NoFalseErrors'
  BY <1>1, <1>4 DEF PlaceInv, NoFalseErrors
<1> QED BY <1>13, <1>14, <1>15, <1>16 DEF PlaceInv

LEMMA SendMessageKeeps == IInv /\ PlaceInv /\ SendMessage => PlaceInv'
<1> SUFFICES ASSUME IInv, PlaceInv, SendMessage PROVE PlaceInv'
  OBVIOUS
<1>1. PICK m \in Message :
        /\ Transmit(Len(sent) + 1, m, tx_counter[m.type])
        /\ sent' = Append(sent, [message |-> m, counter |-> tx_counter[m.type]])
        /\ m.type \in Types /\ tx_counter[m.type] \in Counter
  BY SendMessageFacts DEF IInv
<1>2. PICK c \in Counter : c = tx_counter[m.type]
  BY <1>1
<1>3. PICK x \in SentRecord : x = [message |-> m, counter |-> c]
  BY DEF SentRecord
<1>4. sent \in Seq(SentRecord) /\ Len(sent) \in Nat
  BY SeqFacts DEF IInv, Typed
<1>5. PICK n \in Nat \ {0} : n = Len(sent) + 1
  BY <1>4
<1>6. /\ Len(sent') = n /\ sent'[n] = x
      /\ \A i \in 1 .. Len(sent) : sent'[i] = sent[i]
  <2>1. sent' = Append(sent, x)
    BY <1>1, <1>2, <1>3
  <2> QED BY <1>4, <1>5, <2>1, AppendFacts
<1>7. Transmit(n, m, c)
  BY <1>1, <1>2, <1>5
<1>8. n \in 1 .. Len(sent') /\ Len(sent') >= Len(sent) /\ \A i \in 1 .. Len(sent) : i \in 1 .. Len(sent')
  BY <1>4, <1>5, <1>6
<1>9. sent'[n].message = m /\ sent'[n].counter = c
  BY <1>3, <1>6
<1> QED BY <1>6, <1>7, <1>8, <1>9, TransmitKeeps

LEMMA ResendTextKeeps == IInv /\ PlaceInv /\ ResendText => PlaceInv'
<1> SUFFICES ASSUME IInv, PlaceInv, ResendText PROVE PlaceInv'
  OBVIOUS
<1>1. PICK n : n = LastText
  OBVIOUS
<1>2. n \in 1 .. Len(sent)
  BY <1>1, LastTextFacts DEF IInv, ResendText
<1>3. sent \in Seq(SentRecord) /\ Len(sent) \in Nat
  BY SeqFacts DEF IInv, Typed
<1>4. sent[n] \in SentRecord /\ n \in Nat \ {0}
  BY <1>2, <1>3, SeqFacts
<1>5. PICK m \in Message, c \in Counter : m = sent[n].message /\ c = sent[n].counter
  BY <1>4 DEF SentRecord
<1>6. Transmit(n, m, c) /\ sent' = sent
  BY <1>1, <1>5 DEF ResendText
<1>7. n \in 1 .. Len(sent') /\ Len(sent') >= Len(sent)
  BY <1>2, <1>3, <1>6
<1> QED BY <1>4, <1>5, <1>6, <1>7, TransmitKeeps

LEMMA PlaceInit == Init => PlaceInv
<1> SUFFICES ASSUME Init PROVE PlaceInv
  OBVIOUS
<1>1. Len(frames) = 0 /\ Len(wire) = 0 /\ received = 0 /\ errors = {}
  BY DEF Init
<1>2. Before(Len(frames) + 1) = received + Len(wire)
  BY <1>1 DEF Before
<1> QED BY <1>1, <1>2 DEF PlaceInv, WholeOK, Tiled, Waiting, NoFalseErrors

LEMMA PlaceInductive == NoFrameInside /\ IInv /\ PlaceInv /\ [Next]_vars => PlaceInv'
<1> SUFFICES ASSUME NoFrameInside, IInv, PlaceInv, [Next]_vars PROVE PlaceInv'
  OBVIOUS
<1>1. CASE UNCHANGED vars
  <2>1. UNCHANGED <<wire, rx_buf, parsing, errors, sent, frames, received, taken>>
    BY <1>1 DEF vars
  <2>2. \A f : FrameOf(f)' = FrameOf(f) /\ FrameLen(f)' = FrameLen(f) /\ Before(f)' = Before(f)
    BY <2>1, SameFrames
  <2>3. Stream' = Stream /\ Begin' = Begin
    BY <2>1 DEF Stream, Begin
  <2>4. \A f : Intact(f) => Intact(f)'
    BY <2>1, <2>2, <2>3 DEF Intact
  <2>5. WholeOK'
    BY <2>1, <2>3, <2>4 DEF PlaceInv, WholeOK
  <2>6. Tiled' /\ Waiting' /\ NoFalseErrors'
    BY <2>1, <2>2, <2>3 DEF PlaceInv, Tiled, Waiting, NoFalseErrors
  <2> QED BY <2>5, <2>6 DEF PlaceInv
<1>2. CASE HandleResent
  BY <1>2, GoodFrameKeeps DEF HandleResent
<1>3. CASE HandleNew
  <2>1. UNCHANGED errors
    BY <1>3, HandleNewFacts
  <2> QED BY <1>3, <2>1, GoodFrameKeeps DEF HandleNew
<1> QED BY <1>1, <1>2, <1>3, SendMessageKeeps, ResendTextKeeps, ReceiveKeeps, SkipKeeps, ReturnKeeps,
           NotMarkerKeeps, BadCrcKeeps DEF Next, Parse

LEMMA PlacesKept == NoFrameInside => (Spec => []PlaceInv)
<1>1. NoFrameInside /\ IInv /\ PlaceInv /\ [Next]_vars => PlaceInv'
  BY PlaceInductive
<1>2. Init => PlaceInv
  BY PlaceInit
<1>3. Spec => []IInv
  BY FramingInvariant
<1>4. NoFrameInside => []NoFrameInside
  OBVIOUS
<1> QED BY <1>1, <1>2, <1>3, <1>4, PTL DEF Spec

\* A whole frame is never lost to the damage around it, however much there is:
\* when parse has moved past its last byte it has taken it, and as long as
\* nothing was damaged it takes a frame with its last byte (parse, which scans
\* the same bytes again behind a marker that was none).  The data of a message
\* must not hold another frame: behind the remains of a frame such data could
\* be completed by a frame that is whole.
THEOREM NothingIsMissed == NoFrameInside => (Spec => []NothingMissed)
<1>1. IInv /\ PlaceInv => NothingMissed
  <2> SUFFICES ASSUME IInv, PlaceInv, NEW f \in DOMAIN frames, frames[f].fate = "whole",
                      \/ frames[f].last <= received - Len(rx_buf)
                      \/ /\ frames[f].last <= received /\ ~parsing
                         /\ \A g \in 1 .. f : frames[g].fate # "damaged"
               PROVE  frames[f].last \in taken
    BY DEF NothingMissed
  <2>1. f \in 1 .. Len(frames) /\ Len(frames) \in Nat
    BY SeqFacts DEF IInv, Typed
  <2>2. FrameLen(f) \in Nat /\ FrameLen(f) >= 7 /\ frames[f].last \in Nat
    BY <2>1, FrameOfFacts DEF IInv, PlaceInv
  <2>3. Begin \in Nat /\ received \in Nat
    <3>1. received \in Nat /\ Len(rx_buf) <= received /\ Len(rx_buf) \in Nat
      BY SeqFacts DEF IInv, Typed, Bounded
    <3> QED BY <3>1 DEF Begin
  <2>4. frames[f].last <= Begin
    <3>1. CASE frames[f].last <= received - Len(rx_buf)
      BY <3>1 DEF Begin
    <3>2. CASE frames[f].last <= received /\ ~parsing /\ \A g \in 1 .. f : frames[g].fate # "damaged"
      <4> SUFFICES ASSUME frames[f].last > Begin PROVE FALSE
        BY <2>2, <2>3
      <4>1. PICK h \in 1 .. f : frames[h].fate = "whole" /\ Intact(h) /\ Offset(h) = 0
        BY <2>1, <3>2, FrontFrame
      <4>2. h \in 1 .. Len(frames) /\ h <= f
        BY <2>1, <4>1
      <4>3. frames[h].last <= frames[f].last
        BY <2>1, <4>2 DEF PlaceInv, Tiled
      <4>4. frames[h].last - FrameLen(h) = Begin
        <5>1. FrameLen(h) \in Nat /\ frames[h].last \in Nat
          BY <4>2, FrameOfFacts DEF IInv, PlaceInv
        <5> QED BY <2>3, <4>1, <5>1 DEF Offset
      <4>5. frames[h].last > received
        BY <3>2, <4>1, <4>2, <4>4 DEF PlaceInv, Waiting
      <4>6. frames[h].last \in Nat
        BY <4>2, FrameOfFacts DEF IInv, PlaceInv
      <4> QED BY <2>2, <2>3, <3>2, <4>3, <4>5, <4>6
    <3> QED BY <3>1, <3>2
  <2>5. ~Intact(f)
    <3>1. ~(frames[f].last - FrameLen(f) >= Begin)
      BY <2>2, <2>3, <2>4
    <3> QED BY <3>1 DEF Intact
  <2> QED BY <2>1, <2>5 DEF PlaceInv, WholeOK
<1>2. NoFrameInside => (Spec => []PlaceInv)
  BY PlacesKept
<1>3. Spec => []IInv
  BY FramingInvariant
<1> QED BY <1>1, <1>2, <1>3, PTL

\* Without damage on the line no error is reported (parse, handle_frame).
THEOREM ErrorsNeedDamage ==
  NoFrameInside =>
    (Spec => [](errors # {} => \E f \in DOMAIN frames : frames[f].fate = "damaged"))
<1>1. IInv /\ PlaceInv => (errors # {} => \E f \in DOMAIN frames : frames[f].fate = "damaged")
  <2> SUFFICES ASSUME IInv, PlaceInv, errors # {}
               PROVE  \E f \in DOMAIN frames : frames[f].fate = "damaged"
    OBVIOUS
  <2>1. DOMAIN frames = 1 .. Len(frames)
    BY SeqFacts DEF IInv, Typed
  <2> QED BY <2>1 DEF PlaceInv, NoFalseErrors
<1>2. NoFrameInside => (Spec => []PlaceInv)
  BY PlacesKept
<1>3. Spec => []IInv
  BY FramingInvariant
<1> QED BY <1>1, <1>2, <1>3, PTL

-----------------------------------------------------------------------------
(* The reports of lost messages.                                            *)

\* The messages of type t among the first n.
OfType(s, t, n) == {i \in 1 .. n : s[i].message.type = t}

\* The messages of a type are numbered one after the other.
Numbered(s, next) ==
  /\ \A n \in 1 .. Len(s) :
       s[n].counter = Cardinality(OfType(s, s[n].message.type, n - 1)) % CounterMod
  /\ \A t \in Types : next[t] = Cardinality(OfType(s, t, Len(s))) % CounterMod

\* Between the deliveries i and j there is none of type t.
NoneWithin(d, t, i, j) == \A x \in i + 1 .. j - 1 : d[x].message.type # t

\* The messages of a type are delivered in the order of sending.
InTurn(d) ==
  \A j, k \in 1 .. Len(d) :
    j < k /\ d[j].message.type = d[k].message.type => d[j].of < d[k].of

\* The slot of a type holds the counter of the last message of it delivered.
SlotsTell(s, d, slots) ==
  \A t \in Types :
    /\ NoneWithin(d, t, 0, Len(d) + 1) => ~slots[t].seen
    /\ \A k \in 1 .. Len(d) :
         d[k].message.type = t /\ NoneWithin(d, t, k, Len(d) + 1)
           => slots[t] = Taken(s[d[k].of].counter)

\* A loss was reported by comparing with the message of the type before.
Told(s, d) ==
  \A k \in 1 .. Len(d) :
    /\ NoneWithin(d, d[k].message.type, 0, k) => ~d[k].lost
    /\ \A j \in 1 .. k - 1 :
         d[j].message.type = d[k].message.type /\ NoneWithin(d, d[k].message.type, j, k)
           => (d[k].lost <=> s[d[k].of].counter # Inc(s[d[j].of].counter))

CountInv ==
  /\ Numbered(sent, tx_counter)
  /\ InTurn(delivered)
  /\ SlotsTell(sent, delivered, rx)
  /\ Told(sent, delivered)
  /\ Len(sent) <= MaxMessages

LEMMA DivMod ==
  ASSUME NEW a \in Int, NEW n \in Nat \ {0}
  PROVE  /\ a \div n \in Int
         /\ a % n \in 0 .. n - 1
         /\ a = n * (a \div n) + (a % n)
OBVIOUS

LEMMA ModUnique ==
  ASSUME NEW n \in Nat \ {0}, NEW q \in Int, NEW r \in 0 .. n - 1
  PROVE  (n * q + r) % n = r
OBVIOUS

LEMMA NextRest ==
  ASSUME NEW n \in Nat \ {0}, NEW a \in Nat
  PROVE  ((a % n) + 1) % n = (a + 1) % n
<1> DEFINE p == a \div n
           r == a % n
<1>1. p \in Int /\ r \in 0 .. n - 1 /\ a = n * p + r
  BY DivMod
<1> HIDE DEF p, r
<1>2. r + 1 \in Int
  BY <1>1
<1> DEFINE q == (r + 1) \div n
           v == (r + 1) % n
<1>3. q \in Int /\ v \in 0 .. n - 1 /\ r + 1 = n * q + v
  BY <1>2, DivMod
<1> HIDE DEF q, v
<1>4. p + q \in Int /\ a + 1 = n * (p + q) + v
  BY <1>1, <1>3
<1>5. (n * (p + q) + v) % n = v
  BY <1>3, <1>4, ModUnique
<1>6. (a + 1) % n = v
  BY <1>4, <1>5
<1> QED BY <1>6 DEF r, v

\* d steps lead back to the same rest when n divides d.
LEMMA SameRest ==
  ASSUME NEW n \in Nat \ {0}, NEW a \in Nat, NEW d \in Nat
  PROVE  (a + d) % n = a % n <=> d % n = 0
<1> DEFINE p == a \div n
           r == a % n
           q == d \div n
           v == d % n
           u == (a + d) \div n
           w == (a + d) % n
<1>1. p \in Int /\ r \in 0 .. n - 1 /\ a = n * p + r
  BY DivMod
<1>2. q \in Int /\ v \in 0 .. n - 1 /\ d = n * q + v
  BY DivMod
<1>3. u \in Int /\ w \in 0 .. n - 1 /\ a + d = n * u + w
  <2>1. a + d \in Int
    OBVIOUS
  <2> QED BY <2>1, DivMod
<1>4. ASSUME w = r PROVE v = 0
  <2> HIDE DEF p, q, u, r, w, v
  <2>1. u - p \in Int /\ d = n * (u - p) + 0 /\ 0 \in 0 .. n - 1
    BY <1>1, <1>3, <1>4
  <2>2. (n * (u - p) + 0) % n = 0
    BY <2>1, ModUnique
  <2>3. d % n = 0
    BY <2>1, <2>2
  <2> QED BY <2>3 DEF v
<1>5. ASSUME v = 0 PROVE w = r
  <2> HIDE DEF p, q, u, r, w, v
  <2>1. p + q \in Int /\ a + d = n * (p + q) + r
    BY <1>1, <1>2, <1>5
  <2>2. (n * (p + q) + r) % n = r
    BY <1>1, <2>1, ModUnique
  <2>3. (a + d) % n = r
    BY <2>1, <2>2
  <2> QED BY <2>3 DEF w
<1> QED BY <1>4, <1>5

LEMMA OfTypeFacts ==
  ASSUME NEW s, NEW t, NEW n \in Nat
  PROVE  /\ IsFiniteSet(OfType(s, t, n)) /\ Cardinality(OfType(s, t, n)) \in Nat
         /\ Cardinality(OfType(s, t, n)) <= n
<1>1. IsFiniteSet(1 .. n) /\ Cardinality(1 .. n) = IF 1 > n THEN 0 ELSE n - 1 + 1
  BY FS_Interval
<1>2. OfType(s, t, n) \in SUBSET (1 .. n)
  BY DEF OfType
<1>3. /\ IsFiniteSet(OfType(s, t, n))
      /\ Cardinality(OfType(s, t, n)) <= Cardinality(1 .. n)
  BY <1>1, <1>2, FS_Subset
<1>4. Cardinality(OfType(s, t, n)) \in Nat
  BY <1>3, FS_CardinalityType
<1> QED BY <1>1, <1>3, <1>4

LEMMA OneOfTypeMore ==
  ASSUME NEW s, NEW t, NEW n \in Nat
  PROVE  Cardinality(OfType(s, t, n + 1)) =
           IF s[n + 1].message.type = t THEN Cardinality(OfType(s, t, n)) + 1
                                        ELSE Cardinality(OfType(s, t, n))
<1>1. IsFiniteSet(OfType(s, t, n)) /\ n + 1 \notin OfType(s, t, n)
  <2>1. n + 1 \notin 1 .. n
    OBVIOUS
  <2>2. n + 1 \notin OfType(s, t, n)
    BY <2>1 DEF OfType
  <2> QED BY <2>2, OfTypeFacts
<1>2. 1 .. n + 1 = (1 .. n) \cup {n + 1}
  OBVIOUS
<1>3. CASE s[n + 1].message.type = t
  <2>1. OfType(s, t, n + 1) = OfType(s, t, n) \cup {n + 1}
    BY <1>2, <1>3 DEF OfType
  <2> QED BY <1>1, <1>3, <2>1, FS_AddElement
<1>4. CASE s[n + 1].message.type # t
  <2>1. OfType(s, t, n + 1) = OfType(s, t, n)
    BY <1>2, <1>4 DEF OfType
  <2> QED BY <1>4, <2>1
<1> QED BY <1>3, <1>4

\* The messages of type t behind a and before b.
Apart(s, t, a, b) == {n \in a + 1 .. b - 1 : s[n].message.type = t}

\* Of two messages of a type, the counter of the later one is the next one when
\* the number of messages of the type between them is a multiple of CounterMod.
LEMMA NumbersApart ==
  ASSUME NEW s, NEW next, Numbered(s, next), Len(s) \in Nat,
         NEW a \in 1 .. Len(s), NEW b \in 1 .. Len(s), a < b,
         NEW t, s[a].message.type = t, s[b].message.type = t,
         NEW B, B = Apart(s, t, a, b)
  PROVE  /\ s[b].counter = Inc(s[a].counter) <=> Cardinality(B) % CounterMod = 0
         /\ IsFiniteSet(B) /\ Cardinality(B) \in Nat /\ Cardinality(B) + 2 <= Len(s)
<1>1. CounterMod \in Nat \ {0}
  BY ByteFacts
<1>2. a - 1 \in Nat /\ b - 1 \in Nat /\ a \in Nat /\ b \in Nat
  OBVIOUS
<1>3. IsFiniteSet(B) /\ Cardinality(B) \in Nat /\ Cardinality(B) <= b - a - 1
  <2>1. /\ IsFiniteSet(a + 1 .. b - 1)
        /\ Cardinality(a + 1 .. b - 1) = IF a + 1 > b - 1 THEN 0 ELSE b - 1 - (a + 1) + 1
    <3>1. PICK lo \in Int, hi \in Int : lo = a + 1 /\ hi = b - 1
      BY <1>2
    <3> QED BY <3>1, FS_Interval
  <2>2. B \in SUBSET (a + 1 .. b - 1)
    BY DEF Apart
  <2>3. IsFiniteSet(B) /\ Cardinality(B) <= Cardinality(a + 1 .. b - 1)
    BY <2>1, <2>2, FS_Subset
  <2>4. Cardinality(B) \in Nat
    BY <2>3, FS_CardinalityType
  <2> QED BY <1>2, <2>1, <2>3, <2>4
<1>4. PICK p \in Nat : p = Cardinality(OfType(s, t, a - 1))
  BY <1>2, OfTypeFacts
<1>5. PICK c \in Nat : c = Cardinality(B)
  BY <1>3
<1>6. Cardinality(OfType(s, t, b - 1)) = p + 1 + c
  <2>1. Cardinality(OfType(s, t, a)) = p + 1 /\ IsFiniteSet(OfType(s, t, a))
    <3>1. PICK z \in Nat : z = a - 1 /\ z + 1 = a
      BY <1>2
    <3>2. Cardinality(OfType(s, t, z + 1)) = Cardinality(OfType(s, t, z)) + 1
      BY <3>1, OneOfTypeMore
    <3>3. IsFiniteSet(OfType(s, t, a))
      BY <1>2, OfTypeFacts
    <3> QED BY <1>4, <3>1, <3>2, <3>3
  <2>2. OfType(s, t, b - 1) = OfType(s, t, a) \cup B
    <3>1. 1 .. b - 1 = (1 .. a) \cup (a + 1 .. b - 1)
      BY <1>2
    <3> QED BY <3>1 DEF OfType, Apart
  <2>3. OfType(s, t, a) \cap B = {}
    BY <1>2 DEF OfType, Apart
  <2>4. PICK A : A = OfType(s, t, a)
    OBVIOUS
  <2>5. IsFiniteSet(A) /\ Cardinality(A) = p + 1 /\ A \cap B = {}
    BY <2>1, <2>3, <2>4
  <2>6. Cardinality(A \cup B) = Cardinality(A) + Cardinality(B) - Cardinality(A \cap B)
    BY <1>3, <2>5, FS_Union
  <2>7. Cardinality(A \cap B) = 0
    BY <2>5, FS_EmptySet
  <2>8. Cardinality(A \cup B) = p + 1 + c
    BY <1>5, <2>5, <2>6, <2>7
  <2> QED BY <2>2, <2>4, <2>8
<1>7. s[a].counter = p % CounterMod /\ s[b].counter = (p + 1 + c) % CounterMod
  BY <1>4, <1>6 DEF Numbered
<1>8. Inc(s[a].counter) = (p + 1) % CounterMod
  BY <1>1, <1>7, NextRest DEF Inc
<1>9. (p + 1 + c) % CounterMod = (p + 1) % CounterMod <=> c % CounterMod = 0
  <2>1. p + 1 \in Nat
    OBVIOUS
  <2> QED BY <1>1, <2>1, SameRest
<1> QED BY <1>2, <1>3, <1>5, <1>7, <1>8, <1>9

\* Message x is sent.
LEMMA NumberedMore ==
  ASSUME NEW s \in Seq(SentRecord), NEW next \in [Types -> Counter], NEW x \in SentRecord,
         NEW t \in Types, t = x.message.type, x.counter = next[t], Numbered(s, next)
  PROVE  Numbered(Append(s, x), [next EXCEPT ![t] = Inc(next[t])])
<1>1. PICK e : e = Append(s, x)
  OBVIOUS
<1>2. /\ Len(e) = Len(s) + 1 /\ Len(s) \in Nat /\ e[Len(s) + 1] = x
      /\ \A i \in 1 .. Len(s) : e[i] = s[i]
  BY <1>1, AppendFacts
<1>3. ASSUME NEW u, NEW n \in 0 .. Len(s) PROVE OfType(e, u, n) = OfType(s, u, n)
  <2>1. \A i \in 1 .. n : i \in 1 .. Len(s)
    BY <1>2
  <2> QED BY <1>2, <2>1 DEF OfType
<1>4. ASSUME NEW n \in 1 .. Len(e)
      PROVE  e[n].counter = Cardinality(OfType(e, e[n].message.type, n - 1)) % CounterMod
  <2>1. CASE n \in 1 .. Len(s)
    <3>1. n - 1 \in 0 .. Len(s) /\ e[n] = s[n]
      BY <1>2, <2>1
    <3> QED BY <1>3, <2>1, <3>1 DEF Numbered
  <2>2. CASE n = Len(s) + 1
    <3>1. n - 1 = Len(s) /\ Len(s) \in 0 .. Len(s) /\ e[n] = x
      BY <1>2, <2>2
    <3> QED BY <1>3, <3>1 DEF Numbered
  <2> QED BY <1>2, <2>1, <2>2
<1>5. ASSUME NEW u \in Types
      PROVE  [next EXCEPT ![t] = Inc(next[t])][u] = Cardinality(OfType(e, u, Len(e))) % CounterMod
  <2>1. PICK c \in Nat : c = Cardinality(OfType(s, u, Len(s)))
    BY <1>2, OfTypeFacts
  <2>2. OfType(e, u, Len(s)) = OfType(s, u, Len(s)) /\ next[u] = c % CounterMod
    BY <1>2, <1>3, <2>1 DEF Numbered
  <2>3. CASE u = t
    <3>1. Cardinality(OfType(e, u, Len(e))) = c + 1
      BY <1>2, <2>1, <2>2, <2>3, OneOfTypeMore
    <3>2. CounterMod \in Nat \ {0}
      BY ByteFacts
    <3>3. Inc(next[t]) = (c + 1) % CounterMod
      BY <2>2, <2>3, <3>2, NextRest DEF Inc
    <3> QED BY <2>3, <3>1, <3>3
  <2>4. CASE u # t
    <3>1. Cardinality(OfType(e, u, Len(e))) = c
      BY <1>2, <2>1, <2>2, <2>4, OneOfTypeMore
    <3> QED BY <2>2, <2>4, <3>1
  <2> QED BY <2>3, <2>4
<1> QED BY <1>1, <1>4, <1>5 DEF Numbered

LEMMA ToldStill ==
  ASSUME NEW s, NEW z, NEW d, Len(d) \in Nat, Told(s, d),
         \A k \in 1 .. Len(d) : z[d[k].of] = s[d[k].of]
  PROVE  Told(z, d)
<1> SUFFICES ASSUME NEW k \in 1 .. Len(d)
             PROVE  /\ NoneWithin(d, d[k].message.type, 0, k) => ~d[k].lost
                    /\ \A j \in 1 .. k - 1 :
                         /\ d[j].message.type = d[k].message.type
                         /\ NoneWithin(d, d[k].message.type, j, k)
                         => (d[k].lost <=> z[d[k].of].counter # Inc(z[d[j].of].counter))
  BY DEF Told
<1>1. \A j \in 1 .. k - 1 : j \in 1 .. Len(d)
  OBVIOUS
<1>2. /\ NoneWithin(d, d[k].message.type, 0, k) => ~d[k].lost
      /\ \A j \in 1 .. k - 1 :
           /\ d[j].message.type = d[k].message.type
           /\ NoneWithin(d, d[k].message.type, j, k)
           => (d[k].lost <=> s[d[k].of].counter # Inc(s[d[j].of].counter))
  BY DEF Told
<1>3. z[d[k].of] = s[d[k].of] /\ \A j \in 1 .. k - 1 : z[d[j].of] = s[d[j].of]
  BY <1>1
<1> QED BY <1>2, <1>3

LEMMA SendMessageCounts == IInv /\ CountInv /\ SendMessage => CountInv'
<1> SUFFICES ASSUME IInv, CountInv, SendMessage PROVE CountInv'
  OBVIOUS
<1>1. PICK m \in Message :
        /\ Transmit(Len(sent) + 1, m, tx_counter[m.type])
        /\ sent' = Append(sent, [message |-> m, counter |-> tx_counter[m.type]])
        /\ tx_counter' = [tx_counter EXCEPT ![m.type] = Inc(tx_counter[m.type])]
        /\ m.type \in Types /\ tx_counter[m.type] \in Counter
  BY SendMessageFacts DEF IInv
<1>2. PICK t \in Types, c \in Counter : t = m.type /\ c = tx_counter[t]
  BY <1>1
<1>3. PICK x \in SentRecord : x = [message |-> m, counter |-> c]
  BY DEF SentRecord
<1>4. sent \in Seq(SentRecord) /\ tx_counter \in [Types -> Counter]
  BY DEF IInv, Typed
<1>5. sent' = Append(sent, x) /\ tx_counter' = [tx_counter EXCEPT ![t] = Inc(tx_counter[t])]
  BY <1>1, <1>2, <1>3
<1>6. Numbered(sent', tx_counter')
  <2>1. Numbered(sent, tx_counter) /\ t = x.message.type /\ x.counter = tx_counter[t]
    BY <1>2, <1>3 DEF CountInv
  <2> QED BY <1>4, <1>5, <2>1, NumberedMore
<1>7. rx' = rx /\ delivered' = delivered
  BY <1>1 DEF Transmit
<1>8. \A k \in 1 .. Len(delivered) : sent'[delivered[k].of] = sent[delivered[k].of]
  <2>1. \A i \in 1 .. Len(sent) : sent'[i] = sent[i]
    BY <1>4, <1>5, AppendFacts
  <2> QED BY <2>1 DEF IInv, Ordered, Genuine
<1>9. SlotsTell(sent', delivered, rx)
  BY <1>8 DEF CountInv, SlotsTell
<1>10. Told(sent', delivered)
  <2>1. Len(delivered) \in Nat
    BY SeqFacts DEF IInv, Typed
  <2>2. Told(sent, delivered)
    BY DEF CountInv
  <2> QED BY <1>8, <2>1, <2>2, ToldStill
<1>11. Len(sent') <= MaxMessages
  <2>1. Len(sent') = Len(sent) + 1 /\ Len(sent) \in Nat
    BY <1>4, <1>5, AppendFacts
  <2>2. Len(sent) < MaxMessages /\ MaxMessages \in Nat
    BY FramingAssumption DEF SendMessage
  <2> QED BY <2>1, <2>2
<1> QED BY <1>6, <1>7, <1>9, <1>10, <1>11 DEF CountInv

\* Message x is delivered.
LEMMA DeliverTells ==
  ASSUME NEW s \in Seq(SentRecord), NEW d \in Seq(DeliveredRecord), NEW slots \in [Types -> RxSlot],
         NEW x \in DeliveredRecord, NEW t \in Types, t = x.message.type,
         x.lost = Lost(slots[t], s[x.of].counter),
         InTurn(d), SlotsTell(s, d, slots), Told(s, d),
         \A k \in 1 .. Len(d) : d[k].message.type = t => d[k].of < x.of
  PROVE  /\ InTurn(Append(d, x)) /\ Told(s, Append(d, x))
         /\ SlotsTell(s, Append(d, x), [slots EXCEPT ![t] = Taken(s[x.of].counter)])
<1>1. PICK e : e = Append(d, x)
  OBVIOUS
<1>2. PICK n \in Nat : n = Len(d)
  BY SeqFacts
<1>3. /\ Len(e) = n + 1 /\ e[n + 1] = x
      /\ \A i \in 1 .. n : e[i] = d[i]
  BY <1>1, <1>2, AppendFacts
<1>4. ASSUME NEW u, NEW i \in Nat, NEW j \in 0 .. n + 1
      PROVE  NoneWithin(e, u, i, j) <=> NoneWithin(d, u, i, j)
  <2>1. \A y \in i + 1 .. j - 1 : y \in 1 .. n
    OBVIOUS
  <2> QED BY <1>3, <2>1 DEF NoneWithin
<1>5. \A k \in 1 .. Len(e) : k \in 1 .. n \/ k = n + 1
  BY <1>3
<1>6. InTurn(e)
  <2> SUFFICES ASSUME NEW j \in 1 .. Len(e), NEW k \in 1 .. Len(e),
                      j < k, e[j].message.type = e[k].message.type
               PROVE  e[j].of < e[k].of
    BY DEF InTurn
  <2>1. j \in 1 .. n
    BY <1>3
  <2>2. CASE k \in 1 .. n
    BY <1>2, <1>3, <2>1, <2>2 DEF InTurn
  <2>3. CASE k = n + 1
    BY <1>2, <1>3, <2>1, <2>3
  <2> QED BY <1>5, <2>2, <2>3
<1>7. Told(s, e)
  <2> SUFFICES ASSUME NEW k \in 1 .. Len(e)
               PROVE  /\ NoneWithin(e, e[k].message.type, 0, k) => ~e[k].lost
                      /\ \A j \in 1 .. k - 1 :
                           /\ e[j].message.type = e[k].message.type
                           /\ NoneWithin(e, e[k].message.type, j, k)
                           => (e[k].lost <=> s[e[k].of].counter # Inc(s[e[j].of].counter))
    BY DEF Told
  <2>1. k \in 0 .. n + 1 /\ 0 \in Nat /\ \A j \in 1 .. k - 1 : j \in Nat /\ j \in 1 .. n
    BY <1>3
  <2>2. CASE k \in 1 .. n
    <3>1. e[k] = d[k] /\ \A j \in 1 .. k - 1 : e[j] = d[j]
      BY <1>3, <2>1, <2>2
    <3> QED BY <1>2, <1>4, <2>1, <2>2, <3>1 DEF Told
  <2>3. CASE k = n + 1
    <3>1. e[k] = x /\ \A j \in 1 .. k - 1 : e[j] = d[j]
      BY <1>3, <2>1, <2>3
    <3>2. ASSUME NoneWithin(e, t, 0, k) PROVE ~x.lost
      <4>1. NoneWithin(d, t, 0, n + 1)
        BY <1>4, <2>1, <2>3, <3>2
      <4>2. ~slots[t].seen
        BY <1>2, <4>1 DEF SlotsTell
      <4> QED BY <4>2 DEF Lost
    <3>3. ASSUME NEW j \in 1 .. k - 1, d[j].message.type = t, NoneWithin(e, t, j, k)
          PROVE  x.lost <=> s[x.of].counter # Inc(s[d[j].of].counter)
      <4>1. NoneWithin(d, t, j, n + 1) /\ j \in 1 .. n
        BY <1>4, <2>1, <2>3, <3>3
      <4>2. slots[t] = Taken(s[d[j].of].counter)
        BY <1>2, <3>3, <4>1 DEF SlotsTell
      <4>3. slots[t].seen = TRUE /\ slots[t].counter = s[d[j].of].counter
        BY <4>2 DEF Taken
      <4>4. Lost(slots[t], s[x.of].counter) <=> s[x.of].counter # Inc(s[d[j].of].counter)
        BY <4>3 DEF Lost
      <4> QED BY <4>4
    <3> QED BY <3>1, <3>2, <3>3
  <2> QED BY <1>5, <2>2, <2>3
<1>8. SlotsTell(s, e, [slots EXCEPT ![t] = Taken(s[x.of].counter)])
  <2>1. PICK new : new = [slots EXCEPT ![t] = Taken(s[x.of].counter)]
    OBVIOUS
  <2>2. new[t] = Taken(s[x.of].counter) /\ \A u \in Types : u # t => new[u] = slots[u]
    BY <2>1
  <2>3. ASSUME NEW u \in Types, NEW i \in 0 .. n, NoneWithin(e, u, i, Len(e) + 1)
        PROVE  u # t /\ NoneWithin(d, u, i, n + 1)
    <3>1. n + 1 \in i + 1 .. Len(e) + 1 - 1
      BY <1>3
    <3>2. u # t
      BY <1>3, <2>3, <3>1 DEF NoneWithin
    <3>3. NoneWithin(e, u, i, n + 1)
      <4>1. \A y \in i + 1 .. n + 1 - 1 : y \in i + 1 .. Len(e) + 1 - 1
        BY <1>3
      <4> QED BY <2>3, <4>1 DEF NoneWithin
    <3>4. i \in Nat /\ n + 1 \in 0 .. n + 1
      OBVIOUS
    <3> QED BY <1>4, <3>2, <3>3, <3>4
  <2>4. ASSUME NEW u \in Types, NoneWithin(e, u, 0, Len(e) + 1)
        PROVE  ~new[u].seen
    <3>1. 0 \in 0 .. n
      OBVIOUS
    <3> QED BY <1>2, <2>2, <2>3, <2>4, <3>1 DEF SlotsTell
  <2>5. ASSUME NEW u \in Types, NEW k \in 1 .. Len(e), e[k].message.type = u,
               NoneWithin(e, u, k, Len(e) + 1)
        PROVE  new[u] = Taken(s[e[k].of].counter)
    <3>1. CASE k \in 1 .. n
      <4>1. k \in 0 .. n /\ e[k] = d[k]
        BY <1>3, <3>1
      <4>2. u # t /\ NoneWithin(d, u, k, n + 1)
        BY <2>3, <2>5, <4>1
      <4> QED BY <1>2, <2>2, <2>5, <3>1, <4>1, <4>2 DEF SlotsTell
    <3>2. CASE k = n + 1
      BY <1>3, <2>2, <2>5, <3>2
    <3> QED BY <1>5, <3>1, <3>2
  <2> QED BY <2>1, <2>4, <2>5 DEF SlotsTell
<1> QED BY <1>1, <1>6, <1>7, <1>8

LEMMA HandleNewCounts == IInv /\ CountInv /\ HandleNew => CountInv'
<1> SUFFICES ASSUME IInv, CountInv, HandleNew PROVE CountInv'
  OBVIOUS
<1>1. PICK x \in DeliveredRecord :
        /\ x.of \in 1 .. Len(sent) /\ x.message = sent[x.of].message /\ sent[x.of] \in SentRecord
        /\ delivered' = Append(delivered, x)
        /\ rx' = [rx EXCEPT ![sent[x.of].message.type] = Taken(sent[x.of].counter)]
        /\ \A k \in 1 .. Len(delivered) :
             delivered[k].message.type = x.message.type => delivered[k].of < x.of
        /\ x.lost = Lost(rx[x.message.type], sent[x.of].counter)
  BY HandleNewFacts
<1>2. PICK t \in Types : t = x.message.type
  BY <1>1, MessageFacts DEF SentRecord, Types
<1>3. sent \in Seq(SentRecord) /\ delivered \in Seq(DeliveredRecord) /\ rx \in [Types -> RxSlot]
  BY DEF IInv, Typed
<1>4. InTurn(delivered) /\ SlotsTell(sent, delivered, rx) /\ Told(sent, delivered)
  BY DEF CountInv
<1>5. rx' = [rx EXCEPT ![t] = Taken(sent[x.of].counter)]
  BY <1>1, <1>2
<1>6. InTurn(delivered') /\ Told(sent, delivered') /\ SlotsTell(sent, delivered', rx')
  <2>1. PICK d : d = delivered
    OBVIOUS
  <2>2. /\ d \in Seq(DeliveredRecord) /\ InTurn(d) /\ SlotsTell(sent, d, rx) /\ Told(sent, d)
        /\ \A k \in 1 .. Len(d) : d[k].message.type = t => d[k].of < x.of
    BY <1>1, <1>2, <1>3, <1>4, <2>1
  <2>3. x.lost = Lost(rx[t], sent[x.of].counter)
    BY <1>1, <1>2
  <2>4. /\ InTurn(Append(d, x)) /\ Told(sent, Append(d, x))
        /\ SlotsTell(sent, Append(d, x), [rx EXCEPT ![t] = Taken(sent[x.of].counter)])
    BY <1>2, <1>3, <2>2, <2>3, DeliverTells
  <2> QED BY <1>1, <1>5, <2>1, <2>4
<1>7. sent' = sent /\ tx_counter' = tx_counter
  BY DEF HandleNew
<1> QED BY <1>6, <1>7 DEF CountInv

LEMMA CountInit == Init => CountInv
<1> SUFFICES ASSUME Init PROVE CountInv
  OBVIOUS
<1>1. sent = <<>> /\ delivered = <<>> /\ Len(<<>>) = 0
  BY DEF Init
<1>2. Numbered(sent, tx_counter)
  <2>1. ASSUME NEW t \in Types PROVE tx_counter[t] = Cardinality(OfType(sent, t, 0)) % CounterMod
    <3>1. Cardinality(OfType(sent, t, 0)) = 0
      BY FS_EmptySet DEF OfType
    <3>2. CounterMod \in Nat \ {0}
      BY ByteFacts
    <3>3. 0 % CounterMod = 0
      BY <3>2
    <3> QED BY <3>1, <3>3 DEF Init
  <2> QED BY <1>1, <2>1 DEF Numbered
<1>3. SlotsTell(sent, delivered, rx)
  BY <1>1 DEF Init, RxOpen, SlotsTell
<1>4. Len(sent) <= MaxMessages
  BY <1>1, FramingAssumption
<1> QED BY <1>1, <1>2, <1>3, <1>4 DEF CountInv, InTurn, Told

LEMMA CountInductive == IInv /\ CountInv /\ [Next]_vars => CountInv'
<1> SUFFICES ASSUME IInv, CountInv, [Next]_vars PROVE CountInv'
  OBVIOUS
<1>1. CASE UNCHANGED <<tx_counter, sent, rx, delivered>>
  BY <1>1 DEF CountInv
<1>2. CASE ResendText
  BY <1>1, <1>2 DEF ResendText, Transmit
<1>3. CASE Receive \/ Skip \/ Return \/ NotMarker \/ BadCrc \/ HandleResent
  BY <1>1, <1>3 DEF Receive, Skip, Return, NotMarker, BadCrc, HandleResent
<1>4. CASE UNCHANGED vars
  BY <1>1, <1>4 DEF vars
<1> QED BY <1>2, <1>3, <1>4, SendMessageCounts, HandleNewCounts DEF Next, Parse

\* COMM_ERR_LOST is reported with a message exactly when messages of its type
\* were lost since the last one delivered, unless their number is a multiple of
\* CounterMod, in which case the counter is back where it would have been
\* (comm_send, handle_frame).
LossesReported ==
  \A k \in DOMAIN delivered :
    LET t == delivered[k].message.type
        earlier == {j \in 1 .. k - 1 : delivered[j].message.type = t}
        lost == Between(t, delivered[Max(earlier)].of, delivered[k].of)
    IN  delivered[k].lost <=> earlier # {} /\ Cardinality(lost) % CounterMod # 0

\* What is reported with a message, and how many of its type were lost before it.
LEMMA ReportOfOne ==
  ASSUME IInv, CountInv, NEW k \in DOMAIN delivered, NEW t, t = delivered[k].message.type,
         NEW E, E = {j \in 1 .. k - 1 : delivered[j].message.type = t},
         NEW B, B = Between(t, delivered[Max(E)].of, delivered[k].of)
  PROVE  /\ delivered[k].lost <=> E # {} /\ Cardinality(B) % CounterMod # 0
         /\ E # {} => /\ IsFiniteSet(B) /\ Cardinality(B) \in Nat
                      /\ Cardinality(B) + 2 <= MaxMessages
<1>1. PICK n \in Nat : n = Len(delivered)
  BY SeqFacts DEF IInv, Typed
<1>2. k \in 1 .. n
  BY <1>1, SeqFacts DEF IInv, Typed
<1>3. CASE E = {}
  <2>1. NoneWithin(delivered, t, 0, k)
    BY <1>3 DEF NoneWithin
  <2>2. ~delivered[k].lost
    BY <1>1, <1>2, <2>1 DEF CountInv, Told
  <2> QED BY <1>3, <2>2
<1>4. CASE E # {}
  <2>1. PICK j \in E : j = Max(E) /\ \A i \in E : i <= j
    <3>1. E \subseteq 0 .. n
      BY <1>2
    <3> QED BY <1>4, <3>1, MaxExists
  <2>2. /\ j \in 1 .. n /\ j \in 1 .. k - 1 /\ j < k
        /\ delivered[j].message.type = t
    BY <1>2
  <2>3. NoneWithin(delivered, t, j, k)
    <3> SUFFICES ASSUME NEW i \in j + 1 .. k - 1 PROVE delivered[i].message.type # t
      BY DEF NoneWithin
    <3>1. i \in 1 .. k - 1 /\ ~(i <= j)
      BY <2>2
    <3> QED BY <2>1, <3>1
  <2>4. PICK a, b : a = delivered[j].of /\ b = delivered[k].of
    OBVIOUS
  <2>5. delivered[k].lost <=> sent[b].counter # Inc(sent[a].counter)
    BY <1>1, <1>2, <2>2, <2>3, <2>4 DEF CountInv, Told
  <2>6. /\ a \in 1 .. Len(sent) /\ b \in 1 .. Len(sent)
        /\ sent[a].message.type = t /\ sent[b].message.type = t
    BY <1>1, <1>2, <2>2, <2>4 DEF IInv, Ordered, Genuine
  <2>7. a < b
    BY <1>1, <1>2, <2>2, <2>4 DEF CountInv, InTurn
  <2>8. B = Apart(sent, t, a, b)
    BY <2>1, <2>4 DEF Between, Apart
  <2>9. Numbered(sent, tx_counter) /\ Len(sent) \in Nat
        /\ Len(sent) <= MaxMessages /\ MaxMessages \in Nat
    BY SeqFacts, FramingAssumption DEF CountInv, IInv, Typed
  <2>10. /\ sent[b].counter = Inc(sent[a].counter) <=> Cardinality(B) % CounterMod = 0
         /\ IsFiniteSet(B) /\ Cardinality(B) \in Nat /\ Cardinality(B) + 2 <= Len(sent)
    <3>1. PICK s, next : s = sent /\ next = tx_counter
      OBVIOUS
    <3>2. Numbered(s, next) /\ Len(s) \in Nat
      BY <2>9, <3>1
    <3>3. /\ a \in 1 .. Len(s) /\ b \in 1 .. Len(s)
          /\ s[a].message.type = t /\ s[b].message.type = t
          /\ B = Apart(s, t, a, b)
      BY <2>6, <2>8, <3>1
    <3>4. /\ s[b].counter = Inc(s[a].counter) <=> Cardinality(B) % CounterMod = 0
          /\ IsFiniteSet(B) /\ Cardinality(B) \in Nat /\ Cardinality(B) + 2 <= Len(s)
      BY <2>7, <3>2, <3>3, NumbersApart
    <3> QED BY <3>1, <3>4
  <2>11. Cardinality(B) + 2 <= MaxMessages
    <3>1. PICK c \in Nat, l \in Nat : c = Cardinality(B) /\ l = Len(sent)
      BY <2>9, <2>10
    <3>2. c + 2 <= l /\ l <= MaxMessages
      BY <2>9, <2>10, <3>1
    <3>3. PICK m \in Nat : m = MaxMessages
      BY <2>9
    <3>4. c + 2 <= l /\ l <= m
      BY <3>2, <3>3
    <3>5. c + 2 <= m
      BY ONLY <3>1, <3>3, <3>4
    <3> QED BY <3>1, <3>3, <3>5
  <2> QED BY <1>4, <2>5, <2>10, <2>11
<1> QED BY <1>3, <1>4

LEMMA CountsKept == Spec => []CountInv
BY CountInit, CountInductive, FramingInvariant, PTL DEF Spec

\* The report of a loss is right up to what the counter can tell, for any
\* number of messages.
THEOREM LossReports == Spec => []LossesReported
<1>1. IInv /\ CountInv => LossesReported
  BY ReportOfOne DEF LossesReported
<1> QED BY <1>1, FramingInvariant, CountsKept, PTL

\* As long as no more messages are sent than the counter can tell, the report
\* of a loss is simply right, and errors are reported only after damage and
\* never for the type or the length (comm_send, parse, handle_frame).
THEOREM ReportsRight ==
  NoFrameInside /\ MaxMessages <= CounterMod + 1 => (Spec => []ReportsAreRight)
<1> SUFFICES ASSUME NoFrameInside, MaxMessages <= CounterMod + 1
             PROVE  Spec => []ReportsAreRight
  OBVIOUS
<1>1. ASSUME IInv, CountInv, NEW k \in DOMAIN delivered
      PROVE  LET t == delivered[k].message.type
                 earlier == {j \in 1 .. k - 1 : delivered[j].message.type = t}
             IN  delivered[k].lost <=>
                   /\ earlier # {}
                   /\ Between(t, delivered[Max(earlier)].of, delivered[k].of) # {}
  <2> DEFINE t == delivered[k].message.type
             E == {j \in 1 .. k - 1 : delivered[j].message.type = t}
             B == Between(t, delivered[Max(E)].of, delivered[k].of)
  <2>1. /\ delivered[k].lost <=> E # {} /\ Cardinality(B) % CounterMod # 0
        /\ E # {} => /\ IsFiniteSet(B) /\ Cardinality(B) \in Nat
                     /\ Cardinality(B) + 2 <= MaxMessages
    BY <1>1, ReportOfOne
  <2> HIDE DEF B, E
  <2>2. ASSUME E # {} PROVE Cardinality(B) % CounterMod = 0 <=> B = {}
    <3>1. PICK c \in Nat : c = Cardinality(B) /\ c + 2 <= MaxMessages
      BY <2>1, <2>2
    <3>2. MaxMessages \in Nat /\ CounterMod \in Nat /\ CounterMod >= 2
      BY FramingAssumption, CounterModAssumption
    <3>3. c < CounterMod
      BY <3>1, <3>2
    <3>4. c % CounterMod = c
      BY <3>2, <3>3
    <3>5. c = 0 <=> B = {}
      BY <2>1, <2>2, <3>1, FS_EmptySet
    <3> QED BY <3>1, <3>4, <3>5
  <2>3. delivered[k].lost <=> E # {} /\ B # {}
    BY <2>1, <2>2
  <2> QED BY <2>3 DEF B, E
<1>2. ASSUME IInv, errors # {} => \E f \in DOMAIN frames : frames[f].fate = "damaged", errors # {}
      PROVE  NumFrames("damaged") > 0
  <2> DEFINE F == {f \in DOMAIN frames : frames[f].fate = "damaged"}
  <2>1. Len(frames) \in Nat /\ DOMAIN frames = 1 .. Len(frames)
    BY <1>2, SeqFacts DEF IInv, Typed
  <2>2. IsFiniteSet(1 .. Len(frames)) /\ F \in SUBSET (1 .. Len(frames))
    BY <2>1, FS_Interval
  <2>3. IsFiniteSet(F)
    BY <2>2, FS_Subset
  <2>4. F # {}
    BY <1>2
  <2>5. NumFrames("damaged") = Cardinality(F)
    BY DEF NumFrames, Quantify
  <2> HIDE DEF F
  <2>6. Cardinality(F) \in Nat /\ Cardinality(F) # 0
    BY <2>3, <2>4, FS_EmptySet, FS_CardinalityType
  <2> QED BY <2>5, <2>6
<1>3. /\ IInv /\ CountInv
      /\ errors # {} => \E f \in DOMAIN frames : frames[f].fate = "damaged"
      /\ errors \subseteq {"crc"}
      => ReportsAreRight
  BY <1>1, <1>2 DEF ReportsAreRight
<1>4. Spec => [](errors # {} => \E f \in DOMAIN frames : frames[f].fate = "damaged")
  BY ErrorsNeedDamage
<1> QED BY <1>3, <1>4, FramingInvariant, CountsKept, OnlyCrcErrors, PTL

-----------------------------------------------------------------------------
(* Messages in which no frame can lie.                                      *)

\* A message has less than a frame has at least, or its bytes are free of the
\* first marker and do not begin with the second: a text is plain characters
\* behind its severity.  No type is a marker.
ShortOrPlain ==
  /\ Marker1 \notin Types /\ Marker2 \notin Types
  /\ \A m \in Message :
       \/ Len(Pack(m)) <= 3
       \/ /\ Pack(m)[1] # Marker2
          /\ \A i \in 1 .. Len(Pack(m)) : Pack(m)[i] # Marker1

\* The two markers of a frame have no place in the content of such a message,
\* so that the theorems about whole frames hold (COMM_MARKER_1 and 2, send_frame).
THEOREM ShortOrPlainIsEnough == ShortOrPlain => NoFrameInside
<1> SUFFICES ASSUME ShortOrPlain PROVE NoFrameInside
  OBVIOUS
<1> SUFFICES ASSUME NEW m1 \in Message, NEW m2 \in Message, NEW c1 \in Counter, NEW c2 \in Counter,
                    NEW o \in Nat,
                    o + Len(Frame(1, m2, c2)) <= Len(Content(m1, c1))
             PROVE  \E i \in 1 .. Len(Frame(1, m2, c2)) :
                      Content(m1, c1)[o + i] # Frame(1, m2, c2)[i].val
  BY DEF NoFrameInside
<1> SUFFICES ASSUME \A i \in 1 .. Len(Frame(1, m2, c2)) :
                      Content(m1, c1)[o + i] = Frame(1, m2, c2)[i].val
             PROVE  FALSE
  OBVIOUS
<1>1. PICK f, c, p : f = Frame(1, m2, c2) /\ c = Content(m1, c1) /\ p = Pack(m1)
  OBVIOUS
<1>2. PICK n \in Nat : n = Len(f) /\ n >= 7 /\ f[1].val = Marker1 /\ f[2].val = Marker2
  <2>1. Shape(f, 1, Content(m2, c2))
    BY <1>1, FrameShape
  <2> QED BY <2>1 DEF Shape
<1>3. c[o + 1] = Marker1 /\ c[o + 2] = Marker2
  <2>1. 1 \in 1 .. n /\ 2 \in 1 .. n
    BY <1>2
  <2> QED BY <1>1, <1>2, <2>1
<1>4. PICK l \in Nat : /\ l = Len(p) /\ Len(c) = 3 + l /\ c[2] = m1.type
                       /\ \A i \in 1 .. l : c[3 + i] = p[i]
  <2>1. Len(p) \in Nat
    BY <1>1, PackFacts, SeqFacts
  <2> QED BY <1>1, <2>1, ContentFacts
<1>5. o + n <= 3 + l /\ l >= 4 /\ 1 \in 1 .. l
  BY <1>1, <1>2, <1>4
<1>6. p[1] # Marker2 /\ \A i \in 1 .. l : p[i] # Marker1
  <2>1. ~(Len(p) <= 3)
    BY <1>4, <1>5
  <2> QED BY <1>1, <1>4, <2>1 DEF ShortOrPlain
<1>7. m1.type # Marker1 /\ m1.type # Marker2
  BY MessageFacts DEF ShortOrPlain, Types
<1>8. o = 0 \/ o = 1 \/ o = 2 \/ o - 2 \in 1 .. l
  BY <1>2, <1>5
<1>9. CASE o = 0
  BY <1>3, <1>4, <1>7, <1>9
<1>10. CASE o = 1
  BY <1>3, <1>4, <1>7, <1>10
<1>11. CASE o = 2
  <2>1. c[3 + 1] = p[1]
    BY <1>4, <1>5
  <2> QED BY <1>3, <1>6, <1>11, <2>1
<1>12. CASE o - 2 \in 1 .. l
  <2>1. PICK i \in 1 .. l : i = o - 2
    BY <1>12
  <2>2. o + 1 = 3 + i
    BY <2>1
  <2>3. c[3 + i] = p[i] /\ p[i] # Marker1
    BY <1>4, <1>6
  <2> QED BY <1>3, <2>2, <2>3
<1> QED BY <1>8, <1>9, <1>10, <1>11, <1>12
=============================================================================
