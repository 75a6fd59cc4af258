---------------------------- MODULE MCReconciler ----------------------------
(***************************************************************************)
(* Values of the constants for model-checking Reconciler.                  *)
(***************************************************************************)
EXTENDS Reconciler

CONSTANTS run1, run2, b1, b2, e1, low, high

ABudget(name, owner) ==
  [state |-> "live", name |-> name, owner |-> owner, content |-> low, labels |-> Labels]

NoBudget == [ABudget(Unnamed, Stranger) EXCEPT !.state = "never", !.labels = {}]

\* A budget of another bundle with a name of this one, and one made by hand.
MCInitialBudgets ==
  [i \in Ids |-> CASE i = 1 -> ABudget(b1, Stranger)
                   [] i = 2 -> [ABudget(Unnamed, Bundle) EXCEPT !.labels = {}]
                   [] OTHER -> NoBudget]

\* An endpoint without limits, and one with limits set by hand.
MCInitialEndpoints == {[limits |-> NoLimits, fallback |-> "unset", owner |-> Stranger],
                       [limits |-> low, fallback |-> "on", owner |-> Stranger]}

APolicy(bs, ls)     == [budgets |-> bs, rateLimits |-> ls]
Says(name, content) == [name |-> name, content |-> content]
OnE1(name, limits, fallback) ==
  [name |-> name, endpoint |-> e1, limits |-> limits, fallback |-> fallback]

\* A policy, one with all but b2 removed, and one with the name b1 listed twice
\* and two entries for e1 in force.
MCPolicies ==
  {APolicy(<<Says(b1, high), Says(b2, low)>>, <<OnE1(b1, low, "off")>>),
   APolicy(<<Says(b2, low)>>, <<>>),
   APolicy(<<Says(b1, low), Says(b1, high)>>,
           <<OnE1(b1, low, "on"), OnE1(b1, high, "unset"), OnE1(b2, low, "unset")>>)}

RunSymmetry == Permutations(Runs)

=============================================================================
