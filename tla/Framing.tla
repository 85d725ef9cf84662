------------------------------ MODULE Framing -------------------------------
(***************************************************************************)
(* The frames of src/common/comm on one direction of the serial line:       *)
(* comm_send packs a message and wraps it in markers, length, type, counter *)
(* and CRC; comm_read takes the line byte by byte, finds the frames again,  *)
(* also after damage, and delivers the messages.                            *)
(*                                                                          *)
(* The line carries symbols.  A symbol is a byte (val), and the CRC of a    *)
(* frame also knows the message it was computed for (of): a CRC fits the    *)
(* bytes it was computed over and no others, which the 16 bits of the code  *)
(* promise for every burst of up to 16 damaged bits and leave to one chance *)
(* in 65536 for the rest.  The length and the CRC take one symbol each.     *)
(***************************************************************************)
EXTENDS Comm, Sequences, SequencesExt, FiniteSetsExt

CONSTANTS
  MaxByte,           \* the largest byte, and so the longest data
  Marker1, Marker2,  \* COMM_MARKER_1, COMM_MARKER_2
  Text, Can, Command,\* message types
  Message,           \* the messages a sender may send
  Noise,             \* bytes a damaged one may turn into
  CrcByte(_),        \* the CRC of a content as a byte (crc16): any function will do
  MaxMessages,       \* bound: messages sent
  MaxFrames,         \* bound: frames sent, resent texts included
  MaxDamaged,        \* bound: frames damaged on the line
  MaxLost            \* bound: frames lost whole

Byte == 0 .. MaxByte
Types == {Text, Can, Command}

\* A message is its type and its fields: the characters of a text, the data
\* of a CAN frame, or a command and its samples (0 for none).
MessageShape(m) ==
  /\ m \in [type : Types, body : Seq(Byte)]
  /\ m.type = Command => Len(m.body) = 2

HeaderLen == 5  \* marker (2), length, type, counter
CrcLen == 1
FrameMax == HeaderLen + MaxByte + CrcLen

ASSUME FramingAssumption ==
  /\ MaxByte \in Nat
  /\ {Marker1, Marker2} \subseteq Byte
  /\ Marker1 # Marker2
  /\ Types \subseteq Byte
  /\ Text # Can /\ Can # Command /\ Text # Command
  /\ CounterMod - 1 <= MaxByte
  /\ \A m \in Message : MessageShape(m) /\ Len(m.body) < MaxByte
  /\ Noise \subseteq Byte
  /\ {MaxMessages, MaxFrames, MaxDamaged, MaxLost} \subseteq Nat

VARIABLES
  tx_counter,          \* the sender's counters, by type
  wire,                \* the symbols on their way
  rx_buf,              \* the receiver's buffer; rx_pos is its length
  parsing,             \* is the receiver inside parse
  rx,                  \* the receive slots, by type
  errors,              \* the errors reported, without COMM_ERR_LOST
  sent,                \* the messages sent, with their counters
  frames,              \* the frames sent: message, last symbol, fate on the line
  received,            \* number of symbols received
  taken,               \* the last symbols of the frames taken from rx_buf
  delivered            \* the messages handed to the handlers

vars == <<tx_counter, wire, rx_buf, parsing, rx, errors, sent, frames, received,
          taken, delivered>>

(***************************************************************************)
(* Packing and unpacking.                                                   *)
(***************************************************************************)
Pack(m) ==
  CASE m.type = Text -> <<0>> \o m.body   \* severity and source come first
    [] m.type = Can -> <<Len(m.body)>> \o m.body
    [] m.type = Command -> IF m.body[2] = 0 THEN <<m.body[1]>> ELSE m.body

Unpack(type, data) ==
  CASE type = Text -> [ok |-> data # <<>>, body |-> Tail(data)]
    [] type = Can -> [ok |-> data # <<>> /\ Head(data) = Len(data) - 1, body |-> Tail(data)]
    [] type = Command ->
         [ok |-> Len(data) \in {1, 2},
          body |-> <<data[1], IF Len(data) = 2 THEN data[2] ELSE 0>>]

(***************************************************************************)
(* Frames.                                                                  *)
(***************************************************************************)
\* What the CRC covers: length, type, counter and data.
Content(m, counter) == <<Len(Pack(m)), m.type, counter>> \o Pack(m)

\* Mutant: the counter is left out of what the CRC covers.
Covered_NoCounter(c) == <<c[1], c[2]>> \o SubSeq(c, 4, Len(c))
\* The bytes the CRC runs over, of a content.
Covered(c) == c

ASSUME CrcAssumption == \A m \in Message, c \in Counter : CrcByte(Content(m, c)) \in Byte

Plain(b) == [val |-> b, of |-> 0]

\* The frame of message n, which is m with this counter.
Frame(n, m, counter) ==
  LET bytes == <<Marker1, Marker2>> \o Content(m, counter)
  IN  Append([i \in DOMAIN bytes |-> Plain(bytes[i])],
             [val |-> CrcByte(Content(m, counter)), of |-> n])

\* A frame without the symbols i .. j.
Without(frame, i, j) == SubSeq(frame, 1, i - 1) \o SubSeq(frame, j + 1, Len(frame))

\* What damage may leave of a frame: one byte has another value, or a run of
\* bytes is missing.
Damaged(frame) ==
  LET runs == {r \in (DOMAIN frame) \X (DOMAIN frame) :
                 r[1] <= r[2] /\ r # <<1, Len(frame)>>}
  IN  ({ReplaceAt(frame, i, Plain(b)) : i \in DOMAIN frame, b \in Noise} \ {frame})
      \cup {Without(frame, r[1], r[2]) : r \in runs}

NumFrames(fate) == Quantify(DOMAIN frames, LAMBDA f : frames[f].fate = fate)

Init ==
  /\ tx_counter = [t \in Types |-> 0]
  /\ wire = <<>>
  /\ rx_buf = <<>>
  /\ parsing = FALSE
  /\ rx = [t \in Types |-> RxOpen]
  /\ errors = {}
  /\ sent = <<>>
  /\ frames = <<>>
  /\ received = 0
  /\ taken = {}
  /\ delivered = <<>>

(***************************************************************************)
(* The sender.  It sends the next frame when the line is idle: the receiver *)
(* only sees the order of the bytes.                                        *)
(***************************************************************************)
Transmit(n, m, counter) ==
  /\ wire = <<>> /\ ~parsing
  /\ Len(frames) < MaxFrames
  /\ LET frame == Frame(n, m, counter)
         Arrive(fate, symbols) ==
           /\ wire' = symbols
           /\ frames' = Append(frames, [of |-> n, last |-> received + Len(symbols), fate |-> fate])
     IN  \/ Arrive("whole", frame)
         \/ NumFrames("lost") < MaxLost /\ Arrive("lost", <<>>)
         \/ /\ NumFrames("damaged") < MaxDamaged
            /\ \E symbols \in Damaged(frame) : Arrive("damaged", symbols)
  /\ UNCHANGED <<rx_buf, parsing, rx, errors, received, taken, delivered>>

IsDelivered(n) == \E k \in DOMAIN delivered : delivered[k].of = n

\* The last text sent, 0 for none.
LastText == SelectLastInSeq(sent, LAMBDA s : s.message.type = Text)

\* comm_send, comm_send_text.  A text waits for the ACK of the one before.
SendMessage ==
  /\ Len(sent) < MaxMessages
  /\ \E m \in Message :
       /\ m.type = Text /\ LastText # 0 => IsDelivered(LastText)
       /\ Transmit(Len(sent) + 1, m, tx_counter[m.type])
       /\ sent' = Append(sent, [message |-> m, counter |-> tx_counter[m.type]])
       /\ tx_counter' = [tx_counter EXCEPT ![m.type] = Inc(@)]

\* comm_resend_text: the same text under the same counter, the ACK is late or
\* lost.
ResendText ==
  /\ LastText # 0
  /\ Transmit(LastText, sent[LastText].message, sent[LastText].counter)
  /\ UNCHANGED <<sent, tx_counter>>

(***************************************************************************)
(* The receiver: one byte into the buffer, then parse until it returns.     *)
(***************************************************************************)
Receive ==
  /\ ~parsing
  /\ wire # <<>>
  /\ rx_buf' = Append(rx_buf, Head(wire))
  /\ wire' = Tail(wire)
  /\ received' = received + 1
  /\ parsing' = TRUE
  /\ UNCHANGED <<tx_counter, rx, errors, sent, frames, taken, delivered>>

Drop(n) == rx_buf' = SubSeq(rx_buf, n + 1, Len(rx_buf))

ByteAt(i) == rx_buf[i].val

\* Bytes before the first Marker1.
Unmarked ==
  LET first == SelectInSeq(rx_buf, LAMBDA s : s.val = Marker1)
  IN  IF first = 0 THEN Len(rx_buf) ELSE first - 1

TotalLen == HeaderLen + ByteAt(3) + CrcLen

\* Mutant: a frame counts as complete one byte late.
Complete_Late == Len(rx_buf) >= HeaderLen /\ Len(rx_buf) > TotalLen
Complete == Len(rx_buf) >= HeaderLen /\ Len(rx_buf) >= TotalLen

AtMarker == parsing /\ rx_buf # <<>> /\ Unmarked = 0
AtFrame == AtMarker /\ Len(rx_buf) >= 2 /\ ByteAt(2) = Marker2

Skip ==
  /\ parsing
  /\ Unmarked > 0
  /\ Drop(Unmarked)
  /\ UNCHANGED <<tx_counter, wire, parsing, rx, errors, sent, frames, received, taken, delivered>>

\* Too few bytes for a marker, or for the frame that starts here.
Return ==
  /\ \/ parsing /\ rx_buf = <<>>
     \/ AtMarker /\ Len(rx_buf) < 2
     \/ AtFrame /\ ~Complete
  /\ parsing' = FALSE
  /\ UNCHANGED <<tx_counter, wire, rx_buf, rx, errors, sent, frames, received, taken, delivered>>

NotMarker ==
  /\ AtMarker
  /\ Len(rx_buf) >= 2
  /\ ByteAt(2) # Marker2
  /\ Drop(1)
  /\ UNCHANGED <<tx_counter, wire, parsing, rx, errors, sent, frames, received, taken, delivered>>

\* The content of the frame at the start of the buffer, and its CRC symbol.
BufContent == [i \in 1 .. TotalLen - 2 - CrcLen |-> ByteAt(2 + i)]
BufCrc == rx_buf[TotalLen]

CrcFits ==
  /\ BufCrc.of # 0
  /\ LET s == sent[BufCrc.of]
     IN  Covered(BufContent) = Covered(Content(s.message, s.counter))

\* Mutant: the whole frame is dropped, with what lies in it.
Rescan_BehindFrame == Drop(TotalLen)
\* Scan the same bytes again from behind this marker.
Rescan == Drop(1)

BadCrc ==
  /\ AtFrame /\ Complete /\ ~CrcFits
  /\ errors' = errors \cup {"crc"}
  /\ Rescan
  /\ UNCHANGED <<tx_counter, wire, parsing, rx, sent, frames, received, taken, delivered>>

BufType == ByteAt(4)
BufCounter == ByteAt(5)
BufData == SubSeq(BufContent, 4, Len(BufContent))

GoodFrame ==
  /\ AtFrame /\ Complete /\ CrcFits
  /\ taken' = taken \cup {received - Len(rx_buf) + TotalLen}
  /\ Drop(TotalLen)

\* handle_frame, a text whose counter is that of the last one: it is only
\* confirmed again.
HandleResent ==
  /\ GoodFrame
  /\ BufType = Text
  /\ Resent(rx[Text], BufCounter)
  /\ UNCHANGED <<tx_counter, wire, parsing, rx, errors, sent, frames, received, delivered>>

\* Mutant: a loss is reported and the slot kept.
FillSlot_NotAfterLoss ==
  rx' = [rx EXCEPT ![BufType] = IF Lost(@, BufCounter) THEN @ ELSE Taken(BufCounter)]
FillSlot == rx' = [rx EXCEPT ![BufType] = Taken(BufCounter)]

\* Unpack the message and hand it to its handler, with the report of a loss.
Deliver ==
  LET unpacked == Unpack(BufType, BufData)
  IN  IF unpacked.ok
      THEN /\ delivered' = Append(delivered,
                [of |-> BufCrc.of, message |-> [type |-> BufType, body |-> unpacked.body],
                 lost |-> Lost(rx[BufType], BufCounter)])
           /\ UNCHANGED errors
      ELSE errors' = errors \cup {"length"} /\ UNCHANGED delivered

\* handle_frame, every other frame.  A type that type_index does not know has no
\* slot and no handler.
HandleNew ==
  /\ GoodFrame
  /\ ~(BufType = Text /\ Resent(rx[Text], BufCounter))
  /\ IF BufType \in Types
     THEN FillSlot /\ Deliver
     ELSE errors' = errors \cup {"type"} /\ UNCHANGED <<rx, delivered>>
  /\ UNCHANGED <<tx_counter, wire, parsing, sent, frames, received>>

Parse == Skip \/ Return \/ NotMarker \/ BadCrc \/ HandleResent \/ HandleNew

Next == SendMessage \/ ResendText \/ Receive \/ Parse

Spec == Init /\ [][Next]_vars

-----------------------------------------------------------------------------
\* Every variable has its type.  Between two bytes rx_buf has room for one more,
\* which comm_read takes for granted: rx_buf holds COMM_FRAME_MAX bytes.
TypeOK ==
  /\ tx_counter \in [Types -> Counter]
  /\ rx \in [Types -> RxSlot]
  /\ parsing \in BOOLEAN
  /\ errors \subseteq {"crc", "type", "length"}
  /\ Len(rx_buf) <= FrameMax
  /\ ~parsing => Len(rx_buf) < FrameMax
  /\ taken \subseteq 1 .. received
  /\ Len(sent) <= Len(frames)

\* A message arrives as it was sent or not at all, at most once, in order, also
\* when texts are resent and when the damage leaves bytes that look like a
\* frame (comm_send, parse and handle_frame).
Line == INSTANCE LossyLine WITH
  sent <- [n \in DOMAIN sent |-> sent[n].message],
  got <- [k \in DOMAIN delivered |-> [of |-> delivered[k].of, message |-> delivered[k].message]]

ImplementsLine == Line!Spec

\* A whole frame is never lost to the damage around it: when the parser has
\* moved past its last byte it has taken it.  As long as nothing was damaged
\* a frame is taken with its last byte.
NothingMissed ==
  \A f \in DOMAIN frames :
    /\ frames[f].fate = "whole"
    /\ \/ frames[f].last <= received - Len(rx_buf)
       \/ frames[f].last <= received /\ ~parsing /\ \A g \in 1 .. f : frames[g].fate # "damaged"
    => frames[f].last \in taken

\* Messages of one type between two places in sent.
Between(t, a, b) == {n \in a + 1 .. b - 1 : sent[n].message.type = t}

\* COMM_ERR_LOST is reported with a message exactly when messages of its type,
\* fewer than the counter can tell, were lost since the last one delivered.
\* Other errors are reported only after damage, and never one of the type or the
\* length: what comm_send packs has a type and a length handle_frame knows.
ReportsAreRight ==
  /\ \A k \in DOMAIN delivered :
       LET t == delivered[k].message.type
           earlier == {j \in 1 .. k - 1 : delivered[j].message.type = t}
       IN  delivered[k].lost <=>
             /\ earlier # {}
             /\ Between(t, delivered[Max(earlier)].of, delivered[k].of) # {}
  /\ errors # {} => NumFrames("damaged") > 0
  /\ errors \subseteq {"crc"}
=============================================================================
