-------------------------- MODULE MCLakebaseLedger --------------------------
(***************************************************************************)
(* Values of the constants for model-checking LakebaseLedger.              *)
(***************************************************************************)
EXTENDS LakebaseLedger

\* A session has room for one request of two tokens, or for two of one.
MCCap == [s \in Sessions |-> [u \in Units |-> IF u = "usd" THEN 4 ELSE 2]]

\* The last two fit together only when the negative max_tokens is reserved too.
MCEstimates == {-1, 1, 2}

=============================================================================
