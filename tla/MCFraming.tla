----------------------------- MODULE MCFraming ------------------------------
(***************************************************************************)
(* Framing for TLC.  The first marker is also a length, a counter and the   *)
(* samples of a command, and the data of a CAN frame is the two markers.    *)
(***************************************************************************)
EXTENDS Framing

MCNoise == {Marker1, Marker2, MaxByte}

MCCrcByte(c) == FoldSeq(LAMBDA b, sum : (b + sum) % (MaxByte + 1), 0, c)

MCMessage ==
  {[type |-> Text, body |-> <<>>],
   [type |-> Can, body |-> <<Marker1, Marker2>>],
   [type |-> Command, body |-> <<1, 0>>],
   [type |-> Command, body |-> <<1, Marker1>>]}
=============================================================================
