----------------------------- MODULE MCGovernor -----------------------------
(***************************************************************************)
(* Values of the constants for model-checking Governor.                    *)
(***************************************************************************)
EXTENDS Governor

MCThreshold  == <<80, 95>>
MCMultiplier == <<50, 20>>

\* The first stage leaves the fallback to the policy, the second enables it.
MCStageFallback == <<"unset", "on">>

\* No limits, limits and fallback of each kind.
MCInitialGateways == {[limit |-> 0,  fallback |-> "unset", other |-> "guardrails"],
                      [limit |-> 1,  fallback |-> "off",   other |-> "guardrails"],
                      [limit |-> 10, fallback |-> "on",    other |-> "guardrails"]}

MCOneGateway == {[limit |-> 10, fallback |-> "on", other |-> "guardrails"]}

=============================================================================
