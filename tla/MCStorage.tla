------------------------------ MODULE MCStorage ------------------------------
(***************************************************************************)
(* Storage for TLC: three tags of which one takes two words, and a region   *)
(* with room for three words, too small for all of them.                    *)
(***************************************************************************)
EXTENDS Storage, TLC

CONSTANTS Rate, Beta, Calibration

MCTags == {Rate, Beta, Calibration}
MCSize == (Rate :> 1) @@ (Beta :> 1) @@ (Calibration :> 2)
=============================================================================
