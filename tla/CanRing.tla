------------------------------- MODULE CanRing -------------------------------
(***************************************************************************)
(* The ring of received CAN frames (src/pico/lib/can): the interrupt fills  *)
(* it and drops the oldest frame when it is full, the main loop empties it  *)
(* with interrupts off.  head and tail only grow, and wrap at the width of  *)
(* uint32_t; the place of a frame is its number modulo the size of the ring. *)
(* A frame is the number of its arrival.                                    *)
(***************************************************************************)
EXTENDS Naturals, Sequences

CONSTANTS
  RingSize,   \* CONF_CAN_RX_BUF
  Width,      \* values of a uint32_t
  MaxFrames,  \* bound: frames that arrive
  MaxErrors   \* bound: bus errors

\* The ring wraps where the numbers wrap: 32 divides 2^32.
ASSUME CanRingAssumption ==
  /\ RingSize \in Nat \ {0}
  /\ Width \in Nat
  /\ Width > RingSize
  /\ Width % RingSize = 0
  /\ MaxFrames \in Nat
  /\ MaxErrors \in Nat

VARIABLES
  rx_buf, head, tail, errors,  \* can_t
  irq,                         \* are interrupts on
  at,                          \* can_receive: "call", "check" or "copied"
  frame,                       \* the caller's frame, 0 if none
  delivered,                   \* frames the main loop has got, oldest first
  arrived, bus_errors          \* what the bus did so far

vars == <<rx_buf, head, tail, errors, irq, at, frame, delivered, arrived, bus_errors>>

Number == 0 .. Width - 1
Place(n) == n % RingSize
Held == (head + Width - tail) % Width

Init ==
  /\ rx_buf = [i \in 0 .. RingSize - 1 |-> 0]
  /\ head = 0 /\ tail = 0 /\ errors = 0
  /\ irq = TRUE
  /\ at = "call"
  /\ frame = 0
  /\ delivered = <<>>
  /\ arrived = 0 /\ bus_errors = 0

-----------------------------------------------------------------------------
(* The interrupt.                                                           *)

\* Mutant: the ring is taken for full one frame too late.
Full_OffByOne == Held > RingSize

Full == Held >= RingSize

\* can_rx_cb with CAN2040_NOTIFY_RX
Receive ==
  /\ irq
  /\ arrived < MaxFrames
  /\ arrived' = arrived + 1
  /\ IF Full
     THEN tail' = (tail + 1) % Width /\ errors' = errors + 1
     ELSE UNCHANGED <<tail, errors>>
  /\ rx_buf' = [rx_buf EXCEPT ![Place(head)] = arrived']
  /\ head' = (head + 1) % Width
  /\ UNCHANGED <<irq, at, frame, delivered, bus_errors>>

\* can_rx_cb with CAN2040_NOTIFY_ERROR
BusError ==
  /\ irq
  /\ bus_errors < MaxErrors
  /\ bus_errors' = bus_errors + 1
  /\ errors' = errors + 1
  /\ UNCHANGED <<rx_buf, head, tail, irq, at, frame, delivered, arrived>>

-----------------------------------------------------------------------------
(* can_receive, called by can_step until the ring is empty.                 *)

\* Mutant: interrupts stay on while the frame is copied.
Disable_LeavesOn ==
  /\ at = "call"
  /\ at' = "check"
  /\ UNCHANGED <<rx_buf, head, tail, errors, irq, frame, delivered, arrived, bus_errors>>

Disable ==
  /\ at = "call"
  /\ irq' = FALSE
  /\ at' = "check"
  /\ UNCHANGED <<rx_buf, head, tail, errors, frame, delivered, arrived, bus_errors>>

CopyFrame ==
  /\ at = "check"
  /\ tail # head
  /\ frame' = rx_buf[Place(tail)]
  /\ at' = "copied"
  /\ UNCHANGED <<rx_buf, head, tail, errors, irq, delivered, arrived, bus_errors>>

\* tail++, restore_interrupts, and the caller sends the frame.
TakeFrame ==
  /\ at = "copied"
  /\ tail' = (tail + 1) % Width
  /\ irq' = TRUE
  /\ delivered' = Append(delivered, frame)
  /\ frame' = 0
  /\ at' = "call"
  /\ UNCHANGED <<rx_buf, head, errors, arrived, bus_errors>>

\* Mutant: interrupts are not restored when the ring is empty.
Empty_LeavesOff ==
  /\ at = "check"
  /\ tail = head
  /\ at' = "call"
  /\ UNCHANGED <<rx_buf, head, tail, errors, irq, frame, delivered, arrived, bus_errors>>

Empty ==
  /\ at = "check"
  /\ tail = head
  /\ irq' = TRUE
  /\ at' = "call"
  /\ UNCHANGED <<rx_buf, head, tail, errors, frame, delivered, arrived, bus_errors>>

Next == Receive \/ BusError \/ Disable \/ CopyFrame \/ TakeFrame \/ Empty

Spec == Init /\ [][Next]_vars

\* The main loop calls can_step in every pass, and an interrupt that is raised
\* while interrupts are off is served when they are on again.
FairSpec ==
  /\ Spec
  /\ WF_vars(Disable) /\ WF_vars(CopyFrame) /\ WF_vars(TakeFrame) /\ WF_vars(Empty)
  /\ SF_vars(Receive)

-----------------------------------------------------------------------------
\* The frames in the ring, oldest first.
Waiting == [i \in 1 .. Held |-> rx_buf[Place((tail + i - 1) % Width)]]

\* Numbers stay in their width and the ring is never overfull.
TypeOK ==
  /\ rx_buf \in [0 .. RingSize - 1 -> 0 .. MaxFrames]
  /\ head \in Number /\ tail \in Number
  /\ Held <= RingSize
  /\ errors \in 0 .. MaxFrames + MaxErrors
  /\ irq \in BOOLEAN
  /\ at \in {"call", "check", "copied"}

\* Whenever the interrupt comes and wherever the numbers wrap, the ring is a
\* queue that drops its oldest frame: the main loop gets each frame at most once
\* and in the order of arrival, and errors counts each frame that is lost.
Queue ==
  INSTANCE DropQueue WITH
    Capacity <- RingSize, frames <- Waiting, last <- arrived,
    dropped <- errors - bus_errors, got <- delivered
ImplementsQueue == Queue!Spec

\* The last frame always gets through, however many are dropped before it.
LastFrameArrives ==
  <>(delivered # <<>> /\ delivered[Len(delivered)] = MaxFrames)
=============================================================================
