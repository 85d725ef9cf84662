------------------------------ MODULE DropQueue ------------------------------
(***************************************************************************)
(* What the CAN driver promises: a first-in first-out queue of at most      *)
(* Capacity frames that loses its oldest frame, and counts it, when one     *)
(* more arrives.  Frames are numbered as they arrive.                       *)
(***************************************************************************)
EXTENDS Naturals, Sequences

CONSTANT Capacity

VARIABLES
  frames,   \* the frames that wait, oldest first
  last,     \* the number of the last frame that arrived
  dropped,  \* frames lost
  got       \* the frames taken out, oldest first

vars == <<frames, last, dropped, got>>

Init == frames = <<>> /\ last = 0 /\ dropped = 0 /\ got = <<>>

Put ==
  /\ last' = last + 1
  /\ \/ /\ Len(frames) < Capacity
        /\ frames' = Append(frames, last')
        /\ UNCHANGED dropped
     \/ /\ Len(frames) = Capacity
        /\ frames' = Append(Tail(frames), last')
        /\ dropped' = dropped + 1
  /\ UNCHANGED got

Get ==
  /\ frames # <<>>
  /\ frames' = Tail(frames)
  /\ got' = Append(got, Head(frames))
  /\ UNCHANGED <<last, dropped>>

Next == Put \/ Get

Spec == Init /\ [][Next]_vars
=============================================================================
