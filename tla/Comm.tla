-------------------------------- MODULE Comm --------------------------------
(***************************************************************************)
(* The message counters of src/common/comm: every message type has a       *)
(* transmit counter (tx_counter) and a receive slot (rx_seen, rx_counter),  *)
(* all uint8_t.  A sender numbers the messages of a type one after the      *)
(* other; a receiver compares each number with its slot to recognise a      *)
(* resent text and to report lost messages.                                 *)
(***************************************************************************)
EXTENDS Naturals

\* Number of values of a counter: 256 in the code (uint8_t).
CONSTANT CounterMod

ASSUME CounterModAssumption == CounterMod \in Nat /\ CounterMod >= 2

Counter == 0 .. CounterMod - 1

\* tx_counter[idx]++ and (uint8_t)(rx_counter[idx] + 1)
Inc(c) == (c + 1) % CounterMod

\* The receive slot of one type, and its value after calloc.
RxSlot == [seen : BOOLEAN, counter : Counter]
RxOpen == [seen |-> FALSE, counter |-> 0]

\* A text with the counter of the last one is the same text, sent again.
Resent(rx, c) == rx.seen /\ c = rx.counter

\* COMM_ERR_LOST: the counter is not the one that follows the last one.
Lost(rx, c) == rx.seen /\ c # Inc(rx.counter)

\* The slot after a message with counter c was taken.
Taken(c) == [seen |-> TRUE, counter |-> c]
=============================================================================
