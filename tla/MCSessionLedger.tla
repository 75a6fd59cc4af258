--------------------------- MODULE MCSessionLedger ---------------------------
(***************************************************************************)
(* Values of the constants for model-checking SessionLedger.               *)
(***************************************************************************)
EXTENDS SessionLedger

CONSTANT s1

\* Two units of each budget can be binding: the first session is limited by
\* its tokens, the second by its dollars.
MCCap == [s \in Sessions |-> [u \in Units |->
            IF s = s1 THEN (IF u = "usd" THEN 9 ELSE 3)
                      ELSE (IF u = "usd" THEN 3 ELSE 9)]]

\* A negative max_tokens, none, and two tokens.
MCEstimates == {-1, 0, 2}

=============================================================================
