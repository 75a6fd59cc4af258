------------------------------- MODULE Totals -------------------------------
(***************************************************************************)
(* Sums over a numbered table, as the properties of the ledger and of the  *)
(* spend loop need them: the column col gives rows 1..n an integer         *)
(* each.  The sum is a recursive function, so that TLC can evaluate it and *)
(* TLAPS reason about it (see SessionLedgerProofs and SpendLoopProofs).    *)
(***************************************************************************)
EXTENDS Integers

Total(n, col) ==
  LET upTo[i \in 0..n] == IF i = 0 THEN 0 ELSE upTo[i - 1] + col[i]
  IN  upTo[n]

\* a - b, cut off at zero: what SQL's GREATEST(a - b, 0) computes.
Minus(a, b) == IF a >= b THEN a - b ELSE 0

=============================================================================
