---------------------------- MODULE MCSpendLoop ----------------------------
(***************************************************************************)
(* Values of the constants for model-checking SpendLoop.                   *)
(***************************************************************************)
EXTENDS SpendLoop

MCThreshold  == <<80, 95>>
MCMultiplier == <<50, 20>>

=============================================================================
