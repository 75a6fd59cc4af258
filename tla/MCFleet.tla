------------------------------ MODULE MCFleet ------------------------------
(***************************************************************************)
(* Values of the constants for model-checking Fleet.                       *)
(***************************************************************************)
EXTENDS Fleet

MCThreshold  == <<80, 95>>
MCMultiplier == <<50, 20>>

\* Both governors block in their last stage.  The second lets the on-call in,
\* and names it in its first stage too, which does not block.
MCBlocking  == <<{2}, {2}>>
MCAllowlist == << <<{}, {}>>, <<{"oncall"}, {"oncall"}>> >>

=============================================================================
