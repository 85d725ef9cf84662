---------------------------- MODULE CanRingProofs ----------------------------
(***************************************************************************)
(* CanRing implements DropQueue for every size of the ring and every width  *)
(* of its numbers that the size divides.  The arithmetic of the numbers     *)
(* that wrap comes first; the rest only needs its lemmas.                   *)
(***************************************************************************)
EXTENDS CanRing, SequenceTheorems, TLAPS

\* The last h of the frames 1 .. n, oldest first.
LastFrames(h, n) == [i \in 1 .. h |-> n - h + i]

\* The place of the i-th frame that waits, from 0.
Slot(i) == Place((tail + i) % Width)

\* The ring holds the last frames that arrived, and the main loop the one it
\* copied, which interrupts that are off keep where it is.
RingOK ==
  /\ Held <= arrived
  /\ \A i \in 0 .. Held - 1 : rx_buf[Slot(i)] = arrived - Held + i + 1
  /\ irq <=> at = "call"
  /\ at = "copied" => Held > 0 /\ frame = rx_buf[Place(tail)]

Inv ==
  /\ TypeOK
  /\ arrived \in 0 .. MaxFrames
  /\ bus_errors \in 0 .. MaxErrors
  /\ errors \in bus_errors .. bus_errors + arrived
  /\ RingOK

-----------------------------------------------------------------------------
(* Numbers that wrap.                                                       *)

\* A number wraps at most once.
LEMMA Wrapped ==
  ASSUME NEW n \in Nat \ {0}, NEW x \in 0 .. n + n - 1
  PROVE  x % n = IF x < n THEN x ELSE x - n
OBVIOUS

LEMMA NextNumber ==
  ASSUME NEW n \in Nat \ {0}, NEW x \in 0 .. n - 1
  PROVE  (x + 1) % n = IF x + 1 < n THEN x + 1 ELSE 0
<1> DEFINE y == x + 1
<1>1. y \in 0 .. n + n - 1
  OBVIOUS
<1>2. y % n = IF y < n THEN y ELSE y - n
  BY <1>1, Wrapped
<1>3. y = n \/ y < n
  OBVIOUS
<1> QED BY <1>2, <1>3

LEMMA DivMod ==
  ASSUME NEW a \in Int, NEW n \in Nat \ {0}
  PROVE  /\ a \div n \in Int
         /\ a % n \in 0 .. n - 1
         /\ a = n * (a \div n) + (a % n)
OBVIOUS

LEMMA ModUnique ==
  ASSUME NEW n \in Nat \ {0}, NEW q \in Int, NEW r \in 0 .. n - 1
  PROVE  (n * q + r) % n = r
OBVIOUS

LEMMA MultipleIsFar ==
  ASSUME NEW n \in Nat \ {0}, NEW d \in Int, d # 0
  PROVE  n * d >= n \/ n * d <= 0 - n
OBVIOUS

\* Two numbers less than n apart that have the same place are the same.
LEMMA SamePlace ==
  ASSUME NEW n \in Nat \ {0}, NEW a \in Int, NEW b \in Int,
         a - b < n, b - a < n, a % n = b % n
  PROVE  a = b
<1> DEFINE p == a \div n
           q == b \div n
<1>1. p \in Int /\ a = n * p + (a % n) /\ a % n \in 0 .. n - 1
  BY DivMod
<1>2. q \in Int /\ b = n * q + (b % n)
  BY DivMod
<1> HIDE DEF p, q
<1>3. a - b = n * (p - q)
  BY <1>1, <1>2
<1>4. p - q = 0
  BY <1>1, <1>2, <1>3, MultipleIsFar
<1> QED BY <1>3, <1>4

\* A number keeps its place when it wraps.
LEMMA PlaceOfWrapped ==
  ASSUME NEW x \in 0 .. Width + Width - 1
  PROVE  Place(x % Width) = x % RingSize
<1>1. RingSize \in Nat \ {0} /\ Width \in Nat \ {0} /\ Width % RingSize = 0
  BY CanRingAssumption
<1>2. CASE x < Width
  BY <1>1, <1>2, Wrapped DEF Place
<1>3. CASE x >= Width
  <2> DEFINE k == Width \div RingSize
             m == (x - Width) \div RingSize
             r == (x - Width) % RingSize
  <2>1. k \in Int /\ Width = RingSize * k
    <3>1. k \in Int /\ Width = RingSize * k + (Width % RingSize)
      BY <1>1
    <3> QED BY <1>1, <3>1
  <2>2. m \in Int /\ r \in 0 .. RingSize - 1 /\ x - Width = RingSize * m + r
    <3>1. x - Width \in Int /\ RingSize \in Nat \ {0}
      BY <1>1
    <3> QED BY <3>1, DivMod
  <2>3. x % Width = x - Width
    <3>1. Width \in Nat \ {0} /\ x \in 0 .. Width + Width - 1 /\ ~(x < Width)
      BY <1>1, <1>3
    <3> QED BY <3>1, Wrapped
  <2>4. Place(x % Width) = r
    BY <2>3 DEF Place
  <2> HIDE DEF k, m, r
  <2>5. x = RingSize * (m + k) + r
    BY <1>1, <2>1, <2>2
  <2>6. x % RingSize = r
    BY <1>1, <2>1, <2>2, <2>5, ModUnique
  <2> QED BY <2>4, <2>6
<1> QED BY <1>2, <1>3, <1>1

LEMMA Numbers ==
  ASSUME TypeOK
  PROVE  /\ RingSize \in Nat \ {0} /\ Width \in Nat /\ Width > RingSize
         /\ head \in 0 .. Width - 1 /\ tail \in 0 .. Width - 1
         /\ Held \in 0 .. RingSize
         /\ Held = IF head >= tail THEN head - tail ELSE head - tail + Width
<1>1. /\ RingSize \in Nat \ {0} /\ Width \in Nat \ {0} /\ Width > RingSize
      /\ head \in 0 .. Width - 1 /\ tail \in 0 .. Width - 1 /\ Held <= RingSize
  BY CanRingAssumption DEF TypeOK, Number
<1> DEFINE x == head + Width - tail
<1>2. x \in 0 .. Width + Width - 1 /\ Held = x % Width
  BY <1>1 DEF Held
<1> HIDE DEF x
<1>3. x % Width = IF x < Width THEN x ELSE x - Width
  BY <1>1, <1>2, Wrapped
<1> QED BY <1>1, <1>2, <1>3 DEF x

\* The frames that wait have places of their own, and the next one to arrive
\* takes a free place or, when the ring is full, that of the oldest.
LEMMA Slots ==
  ASSUME TypeOK
  PROVE  /\ \A i \in 0 .. RingSize : Slot(i) = (tail + i) % RingSize
         /\ \A i, j \in 0 .. RingSize - 1 : Slot(i) = Slot(j) => i = j
         /\ \A i \in 0 .. RingSize : Slot(i) \in 0 .. RingSize - 1
         /\ Slot(Held) = Place(head)
         /\ Slot(0) = Place(tail)
         /\ Slot(RingSize) = Place(tail)
<1>1. /\ RingSize \in Nat \ {0} /\ Width \in Nat \ {0} /\ Width > RingSize
      /\ head \in 0 .. Width - 1 /\ tail \in 0 .. Width - 1
      /\ Held \in 0 .. RingSize
      /\ Held = IF head >= tail THEN head - tail ELSE head - tail + Width
  BY Numbers
<1>2. ASSUME NEW i \in 0 .. RingSize PROVE Slot(i) = (tail + i) % RingSize
  <2>1. tail + i \in 0 .. Width + Width - 1
    BY <1>1
  <2> QED BY <2>1, PlaceOfWrapped DEF Slot
<1>3. ASSUME NEW i \in 0 .. RingSize - 1, NEW j \in 0 .. RingSize - 1, Slot(i) = Slot(j)
      PROVE  i = j
  <2>1. (tail + i) % RingSize = (tail + j) % RingSize
    BY <1>1, <1>2, <1>3
  <2>2. /\ tail + i \in Int /\ tail + j \in Int
        /\ (tail + i) - (tail + j) < RingSize /\ (tail + j) - (tail + i) < RingSize
    BY <1>1
  <2>3. tail + i = tail + j
    BY <1>1, <2>1, <2>2, SamePlace
  <2> QED BY <1>1, <2>3
<1>4. ASSUME NEW i \in 0 .. RingSize PROVE Slot(i) \in 0 .. RingSize - 1
  BY <1>1, <1>2, DivMod
<1>5. Slot(Held) = Place(head)
  <2>1. (tail + Held) % Width = head
    BY <1>1, Wrapped
  <2> QED BY <2>1 DEF Slot
<1>6. Slot(0) = Place(tail)
  <2>1. (tail + 0) % Width = tail
    BY <1>1, Wrapped
  <2> QED BY <2>1 DEF Slot
<1>7. Slot(RingSize) = Place(tail)
  <2> DEFINE q == tail \div RingSize
             r == tail % RingSize
  <2>1. q \in Int /\ r \in 0 .. RingSize - 1 /\ tail = RingSize * q + r
    BY <1>1, DivMod
  <2>2. Place(tail) = r
    BY DEF Place
  <2> HIDE DEF q, r
  <2>3. tail + RingSize = RingSize * (q + 1) + r /\ q + 1 \in Int
    BY <1>1, <2>1
  <2>4. (tail + RingSize) % RingSize = r
    BY <1>1, <2>1, <2>3, ModUnique
  <2> QED BY <1>1, <1>2, <2>2, <2>4
<1> QED BY <1>2, <1>3, <1>4, <1>5, <1>6, <1>7

\* One frame more, or one less, in the ring.
LEMMA HeadMoves ==
  ASSUME TypeOK, Held < RingSize, head' = (head + 1) % Width, tail' = tail
  PROVE  head' \in Number /\ Held' = Held + 1
<1>1. /\ Width \in Nat \ {0} /\ head \in 0 .. Width - 1 /\ tail \in 0 .. Width - 1
      /\ RingSize \in Nat /\ Width > RingSize
      /\ Held = IF head >= tail THEN head - tail ELSE head - tail + Width
  BY Numbers
<1>2. head' = IF head + 1 < Width THEN head + 1 ELSE 0
  BY <1>1, NextNumber
<1> DEFINE x == head' + Width - tail
<1>3. x \in 0 .. Width + Width - 1 /\ Held' = x % Width
  BY <1>1, <1>2 DEF Held
<1> HIDE DEF x
<1>4. x % Width = IF x < Width THEN x ELSE x - Width
  BY <1>1, <1>3, Wrapped
<1> QED BY <1>1, <1>2, <1>3, <1>4 DEF x, Number

LEMMA TailMoves ==
  ASSUME TypeOK, Held > 0, tail' = (tail + 1) % Width, head' = head
  PROVE  tail' \in Number /\ Held' = Held - 1
<1>1. /\ Width \in Nat \ {0} /\ head \in 0 .. Width - 1 /\ tail \in 0 .. Width - 1
      /\ Held = IF head >= tail THEN head - tail ELSE head - tail + Width
  BY Numbers
<1>2. tail' = IF tail + 1 < Width THEN tail + 1 ELSE 0
  BY <1>1, NextNumber
<1> DEFINE x == head + Width - tail'
<1>3. x \in 0 .. Width + Width - 1 /\ Held' = x % Width
  BY <1>1, <1>2 DEF Held
<1> HIDE DEF x
<1>4. x % Width = IF x < Width THEN x ELSE x - Width
  BY <1>1, <1>3, Wrapped
<1> QED BY <1>1, <1>2, <1>3, <1>4 DEF x, Number

LEMMA BothMove ==
  ASSUME TypeOK, Held = RingSize, tail' = (tail + 1) % Width, head' = (head + 1) % Width
  PROVE  tail' \in Number /\ head' \in Number /\ Held' = RingSize
<1>1. /\ Width \in Nat \ {0} /\ head \in 0 .. Width - 1 /\ tail \in 0 .. Width - 1
      /\ RingSize \in Nat \ {0} /\ Width > RingSize
      /\ RingSize = IF head >= tail THEN head - tail ELSE head - tail + Width
  BY Numbers
<1>2. /\ tail' = IF tail + 1 < Width THEN tail + 1 ELSE 0
      /\ head' = IF head + 1 < Width THEN head + 1 ELSE 0
  BY <1>1, NextNumber
<1> DEFINE x == head' + Width - tail'
<1>3. x \in 0 .. Width + Width - 1 /\ Held' = x % Width
  BY <1>1, <1>2 DEF Held
<1> HIDE DEF x
<1>4. x % Width = IF x < Width THEN x ELSE x - Width
  BY <1>1, <1>3, Wrapped
<1> QED BY <1>1, <1>2, <1>3, <1>4 DEF x, Number

\* Where the i-th frame is when the oldest one is gone.
LEMMA SlotsMove ==
  ASSUME TypeOK, tail' = (tail + 1) % Width, tail' \in Number
  PROVE  \A i \in 0 .. RingSize - 1 : Slot(i)' = Slot(i + 1)
<1>1. /\ RingSize \in Nat \ {0} /\ Width \in Nat \ {0} /\ Width > RingSize
      /\ tail \in 0 .. Width - 1
  BY Numbers
<1> TAKE i \in 0 .. RingSize - 1
<1>2. tail' = IF tail + 1 < Width THEN tail + 1 ELSE 0
  BY <1>1, NextNumber
<1> DEFINE x == tail' + i
           y == tail + (i + 1)
<1>3. /\ x \in 0 .. Width + Width - 1 /\ y \in 0 .. Width + Width - 1
      /\ x = y \/ (x = y - Width /\ x < Width)
  BY <1>1, <1>2
<1>4. x % Width = y % Width
  <2> HIDE DEF x, y
  <2>1. x % Width = IF x < Width THEN x ELSE x - Width
    BY <1>1, <1>3, Wrapped
  <2>2. y % Width = IF y < Width THEN y ELSE y - Width
    BY <1>1, <1>3, Wrapped
  <2> QED BY <1>1, <1>3, <2>1, <2>2
<1> QED BY <1>4 DEF Slot, Place

-----------------------------------------------------------------------------
(* The invariant.                                                           *)

LEMMA InitOK == Init => Inv
<1> SUFFICES ASSUME Init PROVE Inv
  OBVIOUS
<1>1. /\ RingSize \in Nat \ {0} /\ Width \in Nat \ {0} /\ MaxFrames \in Nat
      /\ MaxErrors \in Nat
  BY CanRingAssumption
<1>2. Held = 0
  <2>1. Width \in 0 .. Width + Width - 1 /\ ~(Width < Width)
    BY <1>1
  <2>2. Width % Width = 0
    BY <1>1, <2>1, Wrapped
  <2>3. 0 + Width - 0 = Width
    BY <1>1
  <2> QED BY <2>2, <2>3 DEF Init, Held
<1>3. TypeOK
  BY <1>1, <1>2 DEF Init, TypeOK, Number
<1>4. RingOK
  BY <1>2 DEF Init, RingOK
<1> QED BY <1>1, <1>3, <1>4 DEF Init, Inv

\* The interrupt, with room in the ring or not.
LEMMA ReceiveOK ==
  ASSUME Inv, Receive
  PROVE  /\ Inv'
         /\ irq /\ arrived' = arrived + 1
         /\ \/ Held < RingSize /\ Held' = Held + 1 /\ errors' = errors
            \/ Held = RingSize /\ Held' = RingSize /\ errors' = errors + 1
<1>1. /\ RingSize \in Nat \ {0} /\ Width \in Nat \ {0} /\ MaxFrames \in Nat /\ MaxErrors \in Nat
      /\ Held \in 0 .. RingSize
      /\ arrived \in 0 .. MaxFrames - 1 /\ arrived' = arrived + 1
      /\ bus_errors \in 0 .. MaxErrors /\ bus_errors' = bus_errors
      /\ errors \in bus_errors .. bus_errors + arrived
      /\ TypeOK /\ RingOK
  BY Numbers, CanRingAssumption DEF Inv, Receive
<1>2. /\ rx_buf \in [0 .. RingSize - 1 -> 0 .. MaxFrames]
      /\ Place(head) \in 0 .. RingSize - 1
      /\ rx_buf' = [rx_buf EXCEPT ![Place(head)] = arrived']
      /\ head' = (head + 1) % Width
      /\ irq /\ irq' = irq /\ at = "call" /\ at' = at
  BY <1>1, Slots DEF Receive, TypeOK, RingOK
<1>3. rx_buf' \in [0 .. RingSize - 1 -> 0 .. MaxFrames]
  BY <1>1, <1>2
<1>4. CASE Held < RingSize
  <2>1. tail' = tail /\ errors' = errors
    BY <1>1, <1>4 DEF Receive, Full
  <2>2. head' \in Number /\ tail' \in Number /\ Held' = Held + 1
    BY <1>1, <1>2, <1>4, <2>1, HeadMoves DEF TypeOK
  <2>3. \A i \in 0 .. Held' - 1 : Slot(i)' = Slot(i) /\ Slot(i) \in 0 .. RingSize - 1
    BY <1>1, <1>4, <2>1, <2>2, Slots DEF Slot, Place
  <2>4. ASSUME NEW i \in 0 .. Held' - 1
        PROVE  rx_buf'[Slot(i)'] = arrived' - Held' + i + 1
    <3>1. CASE i = Held
      <4>1. Slot(i) = Place(head)
        BY <1>1, <3>1, Slots
      <4> QED BY <1>1, <1>2, <2>2, <2>3, <3>1, <4>1
    <3>2. CASE i # Held
      <4>1. i \in 0 .. Held - 1
        BY <1>1, <2>2, <3>2
      <4>2. Slot(i) # Slot(Held)
        BY <1>1, <1>4, <4>1, Slots
      <4>3. Slot(i) # Place(head)
        BY <1>1, <4>2, Slots
      <4>4. rx_buf[Slot(i)] = arrived - Held + i + 1
        BY <1>1, <4>1 DEF RingOK
      <4> QED BY <1>1, <1>2, <2>2, <2>3, <4>3, <4>4
    <3> QED BY <3>1, <3>2
  <2>5. RingOK'
    BY <1>1, <1>2, <2>2, <2>4 DEF RingOK
  <2>6. TypeOK'
    BY <1>1, <1>2, <1>3, <1>4, <2>1, <2>2 DEF TypeOK
  <2> QED BY <1>1, <1>2, <1>4, <2>1, <2>2, <2>5, <2>6 DEF Inv
<1>5. CASE Held = RingSize
  <2>1. tail' = (tail + 1) % Width /\ errors' = errors + 1
    BY <1>1, <1>5 DEF Receive, Full
  <2>2. head' \in Number /\ tail' \in Number /\ Held' = RingSize
    BY <1>1, <1>2, <1>5, <2>1, BothMove
  <2>3. \A i \in 0 .. RingSize - 1 :
          Slot(i)' = Slot(i + 1) /\ Slot(i + 1) \in 0 .. RingSize - 1
    BY <1>1, <2>1, <2>2, Slots, SlotsMove
  <2>4. ASSUME NEW i \in 0 .. Held' - 1
        PROVE  rx_buf'[Slot(i)'] = arrived' - Held' + i + 1
    <3>1. CASE i = RingSize - 1
      <4>1. Slot(i + 1) = Place(head)
        BY <1>1, <1>5, <3>1, Slots
      <4> QED BY <1>1, <1>2, <2>2, <2>3, <3>1, <4>1
    <3>2. CASE i # RingSize - 1
      <4>1. i + 1 \in 1 .. RingSize - 1
        BY <1>1, <2>2, <3>2
      <4>2. Slot(i + 1) # Slot(0)
        BY <1>1, <4>1, Slots
      <4>3. Slot(i + 1) # Place(head)
        BY <1>1, <1>5, <4>2, Slots
      <4>4. rx_buf[Slot(i + 1)] = arrived - Held + (i + 1) + 1
        BY <1>1, <1>5, <4>1 DEF RingOK
      <4>5. i \in 0 .. RingSize - 1 /\ Slot(i + 1) \in 0 .. RingSize - 1
        BY <1>1, <2>2, <2>3
      <4>6. rx_buf'[Slot(i)'] = rx_buf[Slot(i + 1)]
        BY <1>2, <2>3, <4>3, <4>5
      <4> QED BY <1>1, <1>5, <2>2, <4>4, <4>5, <4>6
    <3> QED BY <3>1, <3>2
  <2>5. Held' <= arrived'
    BY <1>1, <1>5, <2>2 DEF RingOK
  <2>6. RingOK'
    BY <1>2, <2>4, <2>5 DEF RingOK
  <2>7. errors' \in 0 .. MaxFrames + MaxErrors
    BY <1>1, <2>1
  <2>8. TypeOK'
    BY <1>1, <1>2, <1>3, <2>2, <2>7 DEF TypeOK
  <2> QED BY <1>1, <1>2, <1>5, <2>1, <2>2, <2>6, <2>8 DEF Inv
<1> QED BY <1>1, <1>4, <1>5

\* The rest of can_receive once the frame is copied.
LEMMA TakeFrameOK ==
  ASSUME Inv, TakeFrame
  PROVE  /\ Inv'
         /\ Held > 0 /\ Held' = Held - 1 /\ frame = arrived - Held + 1
<1>1. /\ RingSize \in Nat \ {0} /\ Width \in Nat \ {0}
      /\ Held \in 0 .. RingSize /\ Held > 0
      /\ arrived \in 0 .. MaxFrames /\ arrived' = arrived /\ MaxFrames \in Nat
      /\ TypeOK /\ RingOK
      /\ tail' = (tail + 1) % Width /\ head' = head /\ rx_buf' = rx_buf
      /\ irq' /\ at' = "call" /\ at = "copied"
  BY Numbers, CanRingAssumption DEF Inv, TakeFrame, RingOK
<1>2. tail' \in Number /\ Held' = Held - 1
  BY <1>1, TailMoves
<1>3. \A i \in 0 .. RingSize - 1 : Slot(i)' = Slot(i + 1)
  BY <1>1, <1>2, SlotsMove
<1>4. frame = arrived - Held + 1
  <2>1. frame = rx_buf[Slot(0)]
    BY <1>1, Slots DEF RingOK
  <2>2. rx_buf[Slot(0)] = arrived - Held + 0 + 1
    BY <1>1 DEF RingOK
  <2> QED BY <1>1, <2>1, <2>2
<1>5. ASSUME NEW i \in 0 .. Held' - 1
      PROVE  rx_buf'[Slot(i)'] = arrived' - Held' + i + 1
  <2>1. i \in 0 .. RingSize - 1 /\ i + 1 \in 0 .. Held - 1
    BY <1>1, <1>2
  <2>2. rx_buf[Slot(i + 1)] = arrived - Held + (i + 1) + 1
    BY <1>1, <2>1 DEF RingOK
  <2> QED BY <1>1, <1>2, <1>3, <2>1, <2>2
<1>6. RingOK'
  BY <1>1, <1>2, <1>5 DEF RingOK
<1>7. TypeOK'
  BY <1>1, <1>2 DEF TypeOK, TakeFrame
<1> QED BY <1>1, <1>2, <1>4, <1>6, <1>7 DEF Inv, TakeFrame

LEMMA StepOK == Inv /\ [Next]_vars => Inv'
<1> SUFFICES ASSUME Inv, [Next]_vars PROVE Inv'
  OBVIOUS
<1> USE DEF Inv
<1>1. CASE Receive
  BY <1>1, ReceiveOK
<1>2. CASE TakeFrame
  BY <1>2, TakeFrameOK
<1>3. ASSUME UNCHANGED <<rx_buf, head, tail, arrived>>
      PROVE  Held' = Held /\ \A i \in 0 .. Held' - 1 : rx_buf'[Slot(i)'] = arrived' - Held' + i + 1
  BY <1>3 DEF Held, Slot, Place, RingOK
<1>4. CASE BusError
  <2>1. /\ MaxErrors \in Nat /\ MaxFrames \in Nat
        /\ bus_errors' \in 0 .. MaxErrors
        /\ errors' \in bus_errors' .. bus_errors' + arrived'
        /\ errors' \in 0 .. MaxFrames + MaxErrors
    BY <1>4, CanRingAssumption DEF BusError
  <2> QED BY <1>3, <1>4, <2>1 DEF BusError, TypeOK, RingOK, Place
<1>5. CASE Disable
  BY <1>3, <1>5 DEF Disable, TypeOK, RingOK, Place
<1>6. CASE CopyFrame
  <2>1. Held > 0
    BY <1>6, Numbers DEF CopyFrame
  <2> QED BY <1>3, <1>6, <2>1 DEF CopyFrame, TypeOK, RingOK, Place
<1>7. CASE Empty
  BY <1>3, <1>7 DEF Empty, TypeOK, RingOK, Place
<1>8. CASE UNCHANGED vars
  BY <1>3, <1>8 DEF vars, TypeOK, RingOK, Place
<1> QED BY <1>1, <1>2, <1>4, <1>5, <1>6, <1>7, <1>8 DEF Next

\* Inv holds in every state CanRing reaches.
THEOREM Inductive == Spec => []Inv
BY InitOK, StepOK, PTL DEF Spec

\* The numbers of can_t stay in their width and the ring is never overfull, for
\* every size of the ring.
THEOREM TypeCorrect == Spec => []TypeOK
<1>1. Inv => TypeOK
  BY DEF Inv
<1> QED BY <1>1, Inductive, PTL

-----------------------------------------------------------------------------
(* The refinement.                                                          *)

\* The frames that wait are the last ones that arrived.
LEMMA WaitingValue == Inv => Waiting = LastFrames(Held, arrived)
<1> SUFFICES ASSUME Inv PROVE Waiting = LastFrames(Held, arrived)
  OBVIOUS
<1>1. Held \in Nat /\ tail \in Nat /\ arrived \in Nat
  BY Numbers, CanRingAssumption DEF Inv
<1>2. ASSUME NEW i \in 1 .. Held
      PROVE  rx_buf[Place((tail + i - 1) % Width)] = arrived - Held + i
  <2>1. i - 1 \in 0 .. Held - 1 /\ tail + i - 1 = tail + (i - 1)
        /\ arrived - Held + (i - 1) + 1 = arrived - Held + i
    BY <1>1
  <2>2. rx_buf[Slot(i - 1)] = arrived - Held + (i - 1) + 1
    BY <2>1 DEF Inv, RingOK
  <2> QED BY <2>1, <2>2 DEF Slot
<1> QED BY <1>2 DEF Waiting, LastFrames

LEMMA LastFramesFacts ==
  ASSUME NEW h \in Nat, NEW n \in Nat
  PROVE  /\ LastFrames(h, n) \in Seq(Int)
         /\ Len(LastFrames(h, n)) = h
         /\ \A i \in 1 .. h : LastFrames(h, n)[i] = n - h + i
BY DEF LastFrames

LEMMA PutOne ==
  ASSUME NEW h \in Nat, NEW n \in Nat
  PROVE  LastFrames(h + 1, n + 1) = Append(LastFrames(h, n), n + 1)
<1> DEFINE t == LastFrames(h, n)
           s == Append(t, n + 1)
<1>1. t \in Seq(Int) /\ Len(t) = h /\ \A i \in 1 .. h : t[i] = n - h + i
  BY LastFramesFacts
<1>2. /\ LastFrames(h + 1, n + 1) \in Seq(Int) /\ Len(LastFrames(h + 1, n + 1)) = h + 1
      /\ \A i \in 1 .. h + 1 : LastFrames(h + 1, n + 1)[i] = (n + 1) - (h + 1) + i
  BY LastFramesFacts
<1> HIDE DEF t
<1>3. /\ s \in Seq(Int) /\ Len(s) = h + 1 /\ s[h + 1] = n + 1
      /\ \A i \in 1 .. h : s[i] = t[i]
  BY <1>1, AppendProperties
<1> HIDE DEF s
<1>4. ASSUME NEW i \in 1 .. Len(s)
      PROVE  LastFrames(h + 1, n + 1)[i] = s[i]
  <2>1. LastFrames(h + 1, n + 1)[i] = n - h + i
    BY <1>2, <1>3
  <2>2. CASE i = h + 1
    BY <1>3, <2>1, <2>2
  <2>3. CASE i \in 1 .. h
    BY <1>1, <1>3, <2>1, <2>3
  <2> QED BY <1>3, <2>2, <2>3
<1> QED BY <1>2, <1>3, <1>4, SeqEqual DEF s, t

LEMMA GetOne ==
  ASSUME NEW h \in Nat \ {0}, NEW n \in Nat
  PROVE  /\ LastFrames(h, n) # <<>>
         /\ Head(LastFrames(h, n)) = n - h + 1
         /\ Tail(LastFrames(h, n)) = LastFrames(h - 1, n)
<1> DEFINE s == LastFrames(h, n)
<1>1. /\ s \in Seq(Int) /\ Len(s) = h
      /\ \A i \in 1 .. h : s[i] = n - h + i
  BY LastFramesFacts
<1>2. /\ LastFrames(h - 1, n) \in Seq(Int) /\ Len(LastFrames(h - 1, n)) = h - 1
      /\ \A i \in 1 .. h - 1 : LastFrames(h - 1, n)[i] = n - (h - 1) + i
  <2>1. h - 1 \in Nat
    OBVIOUS
  <2> QED BY ONLY <2>1, n \in Nat, LastFramesFacts
<1> HIDE DEF s
<1>3. s # <<>> /\ Head(s) = s[1]
  BY <1>1, EmptySeq
<1>4. Tail(s) \in Seq(Int) /\ Len(Tail(s)) = h - 1
      /\ \A i \in 1 .. h - 1 : Tail(s)[i] = s[i + 1]
  BY <1>1, <1>3, HeadTailProperties
<1>5. \A i \in 1 .. Len(Tail(s)) : Tail(s)[i] = LastFrames(h - 1, n)[i]
  BY <1>1, <1>2, <1>4
<1>6. Tail(s) = LastFrames(h - 1, n)
  BY <1>2, <1>4, <1>5, SeqEqual
<1> QED BY <1>1, <1>3, <1>6 DEF s

\* The main loop gets each frame at most once and in the order of arrival, and
\* errors counts each frame that is lost, wherever the interrupt comes and
\* wherever the numbers wrap.
THEOREM QueueImplemented == Spec => ImplementsQueue
<1>1. Init => Queue!Init
  <2> SUFFICES ASSUME Init PROVE Queue!Init
    OBVIOUS
  <2>1. Inv
    BY InitOK
  <2>2. Held = 0
    BY <2>1, Numbers DEF Inv, RingOK, Init
  <2>3. Waiting = <<>>
    BY <2>2 DEF Waiting
  <2> QED BY <2>3 DEF Init, Queue!Init
<1>2. Inv /\ Inv' /\ [Next]_vars => [Queue!Next]_(Queue!vars)
  <2> SUFFICES ASSUME Inv, Inv', [Next]_vars PROVE [Queue!Next]_(Queue!vars)
    OBVIOUS
  <2>1. /\ Held \in Nat /\ RingSize \in Nat \ {0} /\ arrived \in Nat
        /\ errors \in Nat /\ bus_errors \in Nat
        /\ Waiting = LastFrames(Held, arrived)
    BY Numbers, WaitingValue, CanRingAssumption DEF Inv
  <2>2. Waiting' = LastFrames(Held', arrived')
    <3>1. (Inv => Waiting = LastFrames(Held, arrived))'
      BY WaitingValue, PTL
    <3> QED BY <3>1 DEF LastFrames
  <2>3. CASE Receive
    <3>1. arrived' = arrived + 1 /\ delivered' = delivered /\ bus_errors' = bus_errors
      BY <2>3 DEF Receive
    <3>2. CASE Held < RingSize /\ Held' = Held + 1 /\ errors' = errors
      <4>1. Waiting' = Append(Waiting, arrived')
        BY <2>1, <2>2, <3>1, <3>2, PutOne
      <4>2. Len(Waiting) < RingSize
        BY <2>1, <3>2, LastFramesFacts
      <4> QED BY <3>1, <3>2, <4>1, <4>2 DEF Queue!Next, Queue!Put
    <3>3. CASE Held = RingSize /\ Held' = RingSize /\ errors' = errors + 1
      <4>1. Tail(Waiting) = LastFrames(Held - 1, arrived)
        BY <2>1, <3>3, GetOne
      <4>2. Waiting' = Append(Tail(Waiting), arrived')
        <5>1. Held - 1 \in Nat /\ (Held - 1) + 1 = Held'
          BY <2>1, <3>3
        <5> QED BY <2>1, <2>2, <3>1, <4>1, <5>1, PutOne
      <4>3. Len(Waiting) = RingSize
        BY <2>1, <3>3, LastFramesFacts
      <4>4. errors' - bus_errors' = errors - bus_errors + 1
        BY <2>1, <3>1, <3>3
      <4> QED BY <3>1, <4>2, <4>3, <4>4 DEF Queue!Next, Queue!Put
    <3> QED BY <2>3, <3>2, <3>3, ReceiveOK
  <2>4. CASE TakeFrame
    <3>1. /\ Held > 0 /\ Held' = Held - 1 /\ frame = arrived - Held + 1
          /\ arrived' = arrived /\ errors' = errors /\ bus_errors' = bus_errors
          /\ delivered' = Append(delivered, frame)
      BY <2>4, TakeFrameOK DEF TakeFrame
    <3>2. Waiting # <<>> /\ Head(Waiting) = frame /\ Tail(Waiting) = Waiting'
      <4>1. Held \in Nat \ {0}
        BY <2>1, <3>1
      <4> QED BY <2>1, <2>2, <3>1, <4>1, GetOne
    <3> QED BY <3>1, <3>2 DEF Queue!Next, Queue!Get
  <2>5. CASE BusError
    <3>1. /\ errors' - bus_errors' = errors - bus_errors
          /\ Waiting' = Waiting /\ arrived' = arrived /\ delivered' = delivered
      BY <2>1, <2>5 DEF BusError, Waiting, Held, Place
    <3> QED BY <3>1 DEF Queue!vars
  <2>6. CASE Disable \/ CopyFrame \/ Empty \/ UNCHANGED vars
    <3>1. UNCHANGED <<rx_buf, head, tail, arrived, errors, bus_errors, delivered>>
      BY <2>6 DEF Disable, CopyFrame, Empty, vars
    <3>2. Waiting' = Waiting
      BY <3>1 DEF Waiting, Held, Place
    <3> QED BY <3>1, <3>2 DEF Queue!vars
  <2> QED BY <2>3, <2>4, <2>5, <2>6 DEF Next
<1> QED BY <1>1, <1>2, Inductive, PTL DEF Spec, ImplementsQueue, Queue!Spec
=============================================================================
