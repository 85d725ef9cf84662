------------------------------ MODULE LogRelay ------------------------------
(***************************************************************************)
(* What the text link promises (README 10.2), without counters, frames or  *)
(* timers.  Lines are numbered in the order the Pico logs them.  The Zero   *)
(* takes them one at a time and puts each into its log once; the Pico keeps *)
(* a line until the Zero has taken it, and drops the lines in order.        *)
(***************************************************************************)
EXTENDS Naturals, Sequences

VARIABLES
  logged,    \* lines the Pico has queued so far
  released,  \* lines the Pico has dropped from its queue
  taken,     \* lines the Zero has taken from the link
  file       \* lines in the Zero's log, oldest first

vars == <<logged, released, taken, file>>

Init ==
  /\ logged \in Nat
  /\ released = 0
  /\ taken = 0
  /\ file = <<>>

Log ==
  /\ logged' = logged + 1
  /\ UNCHANGED <<released, taken, file>>

\* The Zero takes the next line only when the Pico has dropped those before.
Take ==
  /\ taken < logged
  /\ taken = released
  /\ Len(file) = taken
  /\ taken' = taken + 1
  /\ UNCHANGED <<logged, released, file>>

Write ==
  /\ Len(file) < taken
  /\ file' = Append(file, Len(file) + 1)
  /\ UNCHANGED <<logged, released, taken>>

\* Dropping a line may go with a new line (the report of a lost message).
Release ==
  /\ released < taken
  /\ released' = released + 1
  /\ logged' \in {logged, logged + 1}
  /\ UNCHANGED <<taken, file>>

Next == Log \/ Take \/ Write \/ Release

Spec == Init /\ [][Next]_vars
=============================================================================
