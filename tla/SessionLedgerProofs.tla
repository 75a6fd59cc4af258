------------------------- MODULE SessionLedgerProofs -------------------------
(***************************************************************************)
(* Theorems about the session ledger, for every set of sessions, every     *)
(* number of reservations, every cap and every price.                      *)
(*                                                                         *)
(* LedgerInv is the inductive invariant.  CapRespected is not inductive by *)
(* itself: admission compares the cap with the reserved columns, and only  *)
(* ReservedMatchesOpenRows says that these never fall below what the open  *)
(* rows hold.  For a session without negative estimates the cut-off at     *)
(* zero in finalize never happens, because no row exceeds the sum.         *)
(***************************************************************************)
EXTENDS SessionLedger, WellFoundedInduction, TLAPS

-----------------------------------------------------------------------------
(* What the recursive sum of Totals computes, for every table.  The usual  *)
(* induction rule takes a predicate as a parameter, so the inductions here *)
(* are carried out by hand, on the least counterexample.                   *)

\* A running total of the first n rows of col: the equation that defines
\* upTo in Total.
IsRunningTotal(n, col, g) ==
  g = [i \in 0..n |-> IF i = 0 THEN 0 ELSE g[i - 1] + col[i]]

\* d is the column c with row k changed to v.  Kept as a definition of its own:
\* the provers match it as one fact.
IsRowChange(n, c, k, v, d) ==
  /\ c \in [1..n -> Int] /\ d \in [1..n -> Int]
  /\ k \in 1..n /\ d[k] = v
  /\ \A i \in 1..n : i # k => d[i] = c[i]

\* Every nonempty set of natural numbers has a least element.
LEMMA LeastElement ==
  ASSUME NEW T \in SUBSET Nat, T # {}
  PROVE  \E m \in T : \A k \in T : ~ (k < m)
<1> DEFINE R == OpToRel(<, Nat)
<1>1. IsWellFoundedOn(R, Nat)
  BY NatLessThanWellFounded, Zenon DEF OpToRel
<1>2. \E x \in T : \A y \in T : ~ (<<y, x>> \in R)
  <2> HIDE DEF R
  <2> QED BY <1>1, WFMin
<1>3. \A x, y \in Nat : y < x => <<y, x>> \in R
  BY DEF OpToRel
<1> QED BY <1>2, <1>3

\* Every table has a running total, made of integers, or of natural numbers
\* when the table is.
LEMMA RunningTotalExists ==
  ASSUME NEW n \in Nat, NEW N \in {Nat, Int}, NEW col \in [1..n -> N]
  PROVE  \E g \in [0..n -> N] : IsRunningTotal(n, col, g)
<1> DEFINE Good(m) == \E g \in [0..m -> N] : IsRunningTotal(m, col, g)
           Bad == {m \in 0..n : ~ Good(m)}
<1>1. SUFFICES ASSUME Bad # {} PROVE FALSE
  <2>1. n \in 0..n
    OBVIOUS
  <2>2. Bad = {} => Good(n)
    <3> HIDE DEF Good
    <3> QED BY <2>1
  <2> QED BY <2>2
<1>2. PICK m \in Bad : \A k \in Bad : ~ (k < m)
  <2>1. Bad \in SUBSET Nat
    OBVIOUS
  <2> HIDE DEF Bad
  <2> QED BY <1>1, <2>1, LeastElement
<1>3. CASE m = 0
  <2> DEFINE g == [i \in 0..0 |-> 0]
  <2>1. g \in [0..0 -> N] /\ IsRunningTotal(0, col, g)
    BY DEF IsRunningTotal
  <2> QED BY <1>2, <1>3, <2>1
<1>4. CASE m # 0
  <2>1. m \in 1..n /\ m - 1 \in 0..n /\ m - 1 < m
    BY <1>2, <1>4
  <2>2. Good(m - 1)
    BY <1>2, <2>1
  <2>3. PICK g \in [0..(m - 1) -> N] : IsRunningTotal(m - 1, col, g)
    BY <2>2
  <2> DEFINE h == [i \in 0..m |-> IF i = m THEN g[m - 1] + col[m] ELSE g[i]]
  <2>4. h \in [0..m -> N]
    <3>1. \A i \in 0..m : i # m => i \in 0..(m - 1)
      BY <2>1
    <3>2. g[m - 1] \in N /\ col[m] \in N
      BY <2>1, <2>3
    <3>3. g[m - 1] + col[m] \in N
      <4>1. CASE N = Nat
        BY <3>2, <4>1
      <4>2. CASE N = Int
        BY <3>2, <4>2
      <4> QED BY <4>1, <4>2
    <3> QED BY <2>3, <3>1, <3>3
  <2>5. \A i \in 0..m : h[i] = IF i = 0 THEN 0 ELSE h[i - 1] + col[i]
    <3> TAKE i \in 0..m
    <3>1. CASE i = m
      BY <3>1, <2>1
    <3>2. CASE i # m
      <4>1. i \in 0..(m - 1) /\ (i # 0 => i - 1 \in 0..(m - 1) /\ i - 1 # m)
        BY <3>2, <2>1
      <4>2. g[i] = IF i = 0 THEN 0 ELSE g[i - 1] + col[i]
        BY <2>3, <4>1 DEF IsRunningTotal
      <4> QED BY <3>2, <4>1, <4>2, <2>1
    <3> QED BY <3>1, <3>2
  <2>6. IsRunningTotal(m, col, h)
    <3>1. h = [i \in 0..m |-> h[i]]
      OBVIOUS
    <3> HIDE DEF h
    <3> QED BY <2>5, <3>1 DEF IsRunningTotal
  <2> HIDE DEF h
  <2> QED BY <1>2, <2>4, <2>6
<1> QED BY <1>2, <1>3, <1>4

\* Total is the last value of any running total.
LEMMA TotalIsRunningTotal ==
  ASSUME NEW n \in Nat, NEW col, NEW g, IsRunningTotal(n, col, g)
  PROVE  Total(n, col) = g[n]
<1> DEFINE h == CHOOSE t : t = [i \in 0..n |-> IF i = 0 THEN 0 ELSE t[i - 1] + col[i]]
<1>1. Total(n, col) = h[n]
  BY DEF Total
<1>2. h = [i \in 0..n |-> IF i = 0 THEN 0 ELSE h[i - 1] + col[i]]
  BY DEF IsRunningTotal
<1> HIDE DEF h
<1>3. \A i \in 0..n : g[i] = h[i]
  <2> DEFINE Bad == {i \in 0..n : g[i] # h[i]}
  <2>1. SUFFICES ASSUME Bad # {} PROVE FALSE
    OBVIOUS
  <2>2. PICK m \in Bad : \A k \in Bad : ~ (k < m)
    <3>1. Bad \in SUBSET Nat
      OBVIOUS
    <3> HIDE DEF Bad
    <3> QED BY <2>1, <3>1, LeastElement
  <2>3. CASE m = 0
    BY <2>3, <1>2 DEF IsRunningTotal
  <2>4. CASE m # 0
    <3>1. m - 1 \in 0..n /\ m - 1 < m /\ m \in 0..n
      BY <2>4
    <3>2. g[m - 1] = h[m - 1]
      BY <3>1, <2>2
    <3>3. g[m] = g[m - 1] + col[m] /\ h[m] = h[m - 1] + col[m]
      BY <1>2, <2>4, <3>1 DEF IsRunningTotal
    <3> QED BY <3>2, <3>3
  <2> QED BY <2>3, <2>4
<1> QED BY <1>1, <1>3

\* The sum of a table of natural numbers is a natural number, of integers an
\* integer.
LEMMA TotalType ==
  ASSUME NEW n \in Nat, NEW N \in {Nat, Int}, NEW col \in [1..n -> N]
  PROVE  Total(n, col) \in N
<1>1. PICK g \in [0..n -> N] : IsRunningTotal(n, col, g)
  BY RunningTotalExists
<1>2. Total(n, col) = g[n] /\ n \in 0..n
  BY <1>1, TotalIsRunningTotal
<1> QED BY <1>1, <1>2

\* The sum of a table of zeros is zero.
LEMMA TotalZero ==
  ASSUME NEW n \in Nat, NEW col, \A i \in 1..n : col[i] = 0
  PROVE  Total(n, col) = 0
<1> DEFINE g == [i \in 0..n |-> 0]
<1>1. g = [i \in 0..n |-> IF i = 0 THEN 0 ELSE g[i - 1] + col[i]]
  OBVIOUS
<1>2. IsRunningTotal(n, col, g)
  BY <1>1 DEF IsRunningTotal
<1> QED BY <1>2, TotalIsRunningTotal

\* Changing one row changes the sum by the difference.
LEMMA TotalUpdate ==
  ASSUME NEW n \in Nat, NEW col, NEW k, NEW v, NEW c, IsRowChange(n, col, k, v, c)
  PROVE  /\ Total(n, col) \in Int /\ Total(n, c) \in Int
         /\ Total(n, c) = Total(n, col) + v - col[k]
<1>0. /\ col \in [1..n -> Int] /\ c \in [1..n -> Int] /\ k \in 1..n /\ v \in Int
      /\ c[k] = v /\ \A i \in 1..n : i # k => c[i] = col[i]
  BY DEF IsRowChange
<1>1. PICK g \in [0..n -> Int] : IsRunningTotal(n, col, g)
  BY <1>0, RunningTotalExists
<1> DEFINE h == [i \in 0..n |-> IF i < k THEN g[i] ELSE g[i] + v - col[k]]
<1>2. \A i \in 0..n : h[i] = IF i = 0 THEN 0 ELSE h[i - 1] + c[i]
  <2> TAKE i \in 0..n
  <2>1. g[i] = IF i = 0 THEN 0 ELSE g[i - 1] + col[i]
    BY <1>1 DEF IsRunningTotal
  <2>2. CASE i = 0
    BY <1>0, <2>1, <2>2
  <2>3. CASE i # 0
    <3>1. i - 1 \in 0..n /\ i \in 1..n
      BY <2>3
    <3>2. g[i] \in Int /\ g[i - 1] \in Int /\ col[i] \in Int /\ col[k] \in Int
      BY <1>0, <1>1, <3>1
    <3>3. CASE i < k
      BY <1>0, <2>1, <2>3, <3>1, <3>2, <3>3
    <3>4. CASE i = k
      BY <1>0, <2>1, <2>3, <3>1, <3>2, <3>4
    <3>5. CASE i > k
      BY <1>0, <2>1, <2>3, <3>1, <3>2, <3>5
    <3> QED BY <1>0, <3>3, <3>4, <3>5
  <2> QED BY <2>2, <2>3
<1>3. IsRunningTotal(n, c, h)
  <2>1. h = [i \in 0..n |-> h[i]]
    OBVIOUS
  <2> HIDE DEF h
  <2> QED BY <1>2, <2>1 DEF IsRunningTotal
<1>4. Total(n, col) = g[n] /\ Total(n, c) = h[n]
  <2> HIDE DEF h
  <2> QED BY <1>1, <1>3, TotalIsRunningTotal
<1>5. h[n] = g[n] + v - col[k] /\ g[n] \in Int
  BY <1>0, <1>1
<1>6. Total(n, c) \in Int
  BY <1>0, TotalType
<1> QED BY <1>4, <1>5, <1>6

\* No row exceeds the sum of its table of natural numbers.
LEMMA TotalBoundsRow ==
  ASSUME NEW n \in Nat, NEW col \in [1..n -> Nat], NEW k \in 1..n
  PROVE  col[k] <= Total(n, col)
<1> DEFINE c == [col EXCEPT ![k] = 0]
<1>1. IsRowChange(n, col, k, 0, c) /\ c \in [1..n -> Nat]
  BY DEF IsRowChange
<1>2. /\ Total(n, col) \in Int /\ Total(n, c) \in Nat
      /\ Total(n, c) = Total(n, col) + 0 - col[k]
  <2> HIDE DEF c
  <2> QED BY <1>1, TotalUpdate, TotalType
<1> QED BY <1>2

-----------------------------------------------------------------------------
(* The ledger *)

LedgerInv == TypeOK /\ ReservedMatchesOpenRows /\ SpentMatchesFinalRows /\ CapRespected

\* The amounts the code computes from token counts are amounts.
LEMMA AmountTypes ==
  /\ Amount \subseteq Balance /\ NoAmount \in Amount
  /\ \A out \in Estimates : EstimateOf(out) \in Balance
  /\ Charges \subseteq Amount
<1>1. Amount \subseteq Balance /\ NoAmount \in Amount
  BY DEF NoAmount, Amount, Balance
<1>2. ASSUME NEW out \in Estimates
      PROVE  EstimateOf(out) \in Balance
  <2>1. out \in Int /\ out * OutputPrice \in Int
    BY LedgerConstants
  <2> QED BY <2>1 DEF EstimateOf, Balance
<1>3. ASSUME NEW in \in InputTokens, NEW out \in OutputTokens
      PROVE  ChargeFor(in, out) \in Amount
  <2>1. in \in Nat /\ out \in Nat /\ in * InputPrice \in Nat /\ out * OutputPrice \in Nat
    BY LedgerConstants
  <2>2. in * InputPrice + out * OutputPrice \in Nat /\ in + out \in Nat
    BY <2>1
  <2> QED BY <2>2 DEF ChargeFor, Amount
<1> QED BY <1>1, <1>2, <1>3 DEF Charges

\* The empty reservation is a row.
LEMMA NoReservationType == NoReservation \in Row
<1>1. (CHOOSE s \in Sessions : TRUE) \in Sessions /\ (CHOOSE q \in RequestIds : TRUE) \in RequestIds
  BY LedgerConstants
<1>2. NoAmount \in Amount /\ NoAmount \in Balance
  BY AmountTypes
<1> QED BY <1>1, <1>2 DEF NoReservation, Row

\* The columns the properties sum are tables of integers; what was charged and
\* what exceeds an estimate are natural numbers, and so are the open amounts of
\* a session without negative estimates.
LEMMA ColumnTypes ==
  ASSUME TypeOK, NEW s \in Sessions, NEW u \in Units
  PROVE  /\ OpenAmounts(s, u)  \in [Reservations -> Int]
         /\ FinalCharges(s, u) \in [Reservations -> Nat]
         /\ Overruns(s, u)     \in [Reservations -> Nat]
         /\ NaturalHolds(s) => OpenAmounts(s, u) \in [Reservations -> Nat]
<1>1. \A r \in Reservations : rows[r].amount[u] \in Int /\ rows[r].charge[u] \in Nat
  BY DEF TypeOK, Row, Amount, Balance
<1>2. \A r \in Reservations :
        NaturalHolds(s) /\ rows[r].state = "open" /\ rows[r].session = s => rows[r].amount[u] \in Nat
  BY DEF NaturalHolds, Amount
<1>3. \A r \in Reservations : Minus(rows[r].charge[u], rows[r].amount[u]) \in Nat
  BY <1>1 DEF Minus
<1>4. OpenAmounts(s, u) \in [Reservations -> Int]
  BY <1>1 DEF OpenAmounts
<1>5. FinalCharges(s, u) \in [Reservations -> Nat]
  BY <1>1 DEF FinalCharges
<1>6. Overruns(s, u) \in [Reservations -> Nat]
  BY <1>3 DEF Overruns
<1>7. NaturalHolds(s) => OpenAmounts(s, u) \in [Reservations -> Nat]
  BY <1>2 DEF OpenAmounts
<1> QED BY <1>4, <1>5, <1>6, <1>7

-----------------------------------------------------------------------------
\* Type correctness of the initial state.
LEMMA InitTypeOK == LedgerInit => TypeOK
  BY AmountTypes, NoReservationType DEF LedgerInit, TypeOK, Amount, Balance

\* What the invariant needs of an admission: a new row, and room for it.
Admission(s, q, r, amount) ==
  rows[r].state = "none" /\ Fits(s, amount) /\ Admit(s, q, r, amount)

\* Admission preserves type correctness, whatever the amount.
LEMMA AdmissionTypes ==
  ASSUME TypeOK, NEW s \in Sessions, NEW q \in RequestIds, NEW r \in Reservations,
         NEW amount \in Balance, Admission(s, q, r, amount)
  PROVE  TypeOK'
<1> DEFINE sum == [u \in Units |-> reserved[s][u] + amount[u]]
<1>1. sum \in Balance
  BY DEF TypeOK, Balance
<1>2. reserved' \in [Sessions -> Balance] /\ reserved' = [reserved EXCEPT ![s] = sum]
  BY <1>1 DEF TypeOK, Admission, Admit
<1>3. rows' \in [Reservations -> Row]
  BY AmountTypes DEF TypeOK, Admission, Admit, Row
<1>4. ASSUME NEW t \in Sessions, NaturalHolds(t)'
      PROVE  reserved'[t] \in Amount
  <2>1. rows[r].state = "none" /\ \A k \in Reservations : k # r => rows'[k] = rows[k]
    BY DEF TypeOK, Admission, Admit
  <2>2. rows'[r].state = "open" /\ rows'[r].session = s /\ rows'[r].amount = amount
    BY DEF TypeOK, Admission, Admit
  <2>3. NaturalHolds(t)
    BY <1>4, <2>1 DEF NaturalHolds
  <2>4. reserved[t] \in Amount
    BY <2>3 DEF TypeOK
  <2>5. CASE t = s
    <3>1. amount \in Amount
      BY <1>4, <2>2, <2>5 DEF NaturalHolds
    <3>2. sum \in Amount
      BY <2>4, <2>5, <3>1 DEF Amount
    <3> QED BY <1>2, <2>5, <3>2 DEF TypeOK
  <2> QED BY <1>2, <2>4, <2>5 DEF TypeOK
<1> QED BY <1>2, <1>3, <1>4 DEF TypeOK, Admission, Admit

\* reserve_budget returning True is an admission.
LEMMA ReserveAdmits ==
  ASSUME NEW s, NEW q, NEW r, NEW amount, Reserve(s, q, r, amount)
  PROVE  Admission(s, q, r, amount)
  BY DEF Reserve, Admission

\* Settlement preserves type correctness, whatever the charge: the cut-off at
\* zero leaves the reserved columns natural numbers.
LEMMA FinalizeTypes ==
  ASSUME TypeOK, NEW r \in Reservations, NEW charge \in Amount, Finalize(r, charge)
  PROVE  TypeOK'
<1> DEFINE s == rows[r].session
           amount == rows[r].amount
           balance == Released(s, amount)
<1>1. amount \in Balance /\ s \in Sessions /\ rows[r] \in Row
  BY DEF TypeOK, Row
<1>2. [u \in Units |-> spent[s][u] + charge[u]] \in Amount
  BY <1>1 DEF TypeOK, Amount
<1>3. balance \in Amount /\ balance \in Balance
  <2>1. \A u \in Units : Minus(reserved[s][u], amount[u]) \in Nat
    BY <1>1 DEF TypeOK, Balance, Minus
  <2> QED BY <2>1 DEF Released, Amount, Balance
<1>4. spent' \in [Sessions -> Amount]
  BY <1>1, <1>2 DEF TypeOK, Finalize, Settle
<1>5. reserved' \in [Sessions -> Balance] /\ reserved' = [reserved EXCEPT ![s] = balance]
  BY <1>1, <1>3 DEF TypeOK, Finalize, Settle
<1>6. rows' \in [Reservations -> Row]
  BY <1>1 DEF TypeOK, Finalize, Settle, Row
<1>7. ASSUME NEW t \in Sessions, NaturalHolds(t)'
      PROVE  reserved'[t] \in Amount
  <2>1. \A k \in Reservations : /\ rows'[k].session = rows[k].session
                                /\ rows'[k].amount = rows[k].amount
                                /\ rows[k].state # "none" => rows'[k].state # "none"
    BY DEF TypeOK, Finalize, Settle, Row
  <2>2. NaturalHolds(t)
    BY <1>7, <2>1 DEF NaturalHolds
  <2>3. reserved[t] \in Amount
    BY <2>2 DEF TypeOK
  <2> HIDE DEF balance
  <2> QED BY <1>3, <1>5, <2>3 DEF TypeOK
<1> QED BY <1>4, <1>5, <1>6, <1>7 DEF TypeOK, Finalize, Settle

\* Every operation preserves type correctness.
LEMMA NextTypeOK == TypeOK /\ [LedgerNext]_ledgerVars => TypeOK'
<1> SUFFICES ASSUME TypeOK, [LedgerNext]_ledgerVars
             PROVE  TypeOK'
  OBVIOUS
<1>1. ASSUME NEW s \in Sessions, CreateSession(s)
      PROVE  TypeOK'
  BY <1>1 DEF TypeOK, CreateSession, NaturalHolds
<1>2. ASSUME NEW s \in Sessions, CloseSession(s)
      PROVE  TypeOK'
  BY <1>2 DEF TypeOK, CloseSession, NaturalHolds
<1>3. ASSUME NEW s \in Sessions, Expire(s)
      PROVE  TypeOK'
  BY <1>3 DEF TypeOK, Expire, NaturalHolds
<1>4. ASSUME NEW s \in Sessions, NEW q \in RequestIds, NEW r \in Reservations,
             NEW out \in Estimates, Reserve(s, q, r, EstimateOf(out))
      PROVE  TypeOK'
  <2>1. EstimateOf(out) \in Balance
    BY AmountTypes
  <2> QED BY <1>4, <2>1, ReserveAdmits, AdmissionTypes
<1>5. ASSUME NEW r \in Reservations, NEW charge \in Charges, Finalize(r, charge)
      PROVE  TypeOK'
  <2>1. charge \in Amount
    BY AmountTypes
  <2> QED BY <1>5, <2>1, FinalizeTypes
<1>6. CASE UNCHANGED ledgerVars
  BY <1>6 DEF TypeOK, ledgerVars, NaturalHolds
<1> QED BY <1>1, <1>2, <1>3, <1>4, <1>5, <1>6 DEF LedgerNext

\* Every reachable state of the ledger is well typed, whatever max_tokens the
\* requests carry: no spent column ever becomes negative, a reserved one only
\* through a negative estimate, and every row belongs to a session.
THEOREM LedgerTypeCorrect == LedgerSpec => []TypeOK
<1> QED BY InitTypeOK, NextTypeOK, PTL DEF LedgerSpec

-----------------------------------------------------------------------------
\* The ledger starts empty, so the sums are zero.
LEMMA InitLedgerInv == LedgerInit => LedgerInv
<1> SUFFICES ASSUME LedgerInit
             PROVE  LedgerInv
  OBVIOUS
<1>1. TypeOK
  BY InitTypeOK
<1>2. ASSUME NEW s \in Sessions, NEW u \in Units
      PROVE  /\ Total(NumReservations, OpenAmounts(s, u)) = 0
             /\ Total(NumReservations, FinalCharges(s, u)) = 0
             /\ Total(NumReservations, Overruns(s, u)) = 0
             /\ spent[s][u] = 0 /\ reserved[s][u] = 0 /\ Cap[s][u] \in Nat
  <2>1. \A r \in Reservations : rows[r].state = "none"
    BY DEF LedgerInit, NoReservation
  <2>2. \A r \in 1..NumReservations : /\ OpenAmounts(s, u)[r] = 0
                                      /\ FinalCharges(s, u)[r] = 0
                                      /\ Overruns(s, u)[r] = 0
    BY <2>1 DEF OpenAmounts, FinalCharges, Overruns, Reservations
  <2>3. NumReservations \in Nat /\ Cap[s][u] \in Nat
    BY LedgerConstants DEF Amount
  <2>4. spent[s][u] = 0 /\ reserved[s][u] = 0
    BY DEF LedgerInit, NoAmount
  <2> QED BY <2>2, <2>3, <2>4, TotalZero
<1> QED BY <1>1, <1>2
        DEF LedgerInv, ReservedMatchesOpenRows, SpentMatchesFinalRows, CapRespected

\* A step that leaves the rows and the sums alone preserves the invariant.
LEMMA QuietStep ==
  ASSUME LedgerInv, TypeOK', UNCHANGED <<spent, reserved, rows>>
  PROVE  LedgerInv'
<1>1. \A s \in Sessions, u \in Units :
         /\ OpenAmounts(s, u)' = OpenAmounts(s, u)
         /\ FinalCharges(s, u)' = FinalCharges(s, u)
         /\ Overruns(s, u)' = Overruns(s, u)
         /\ NaturalHolds(s)' = NaturalHolds(s)
  BY DEF OpenAmounts, FinalCharges, Overruns, NaturalHolds
<1> QED BY <1>1 DEF LedgerInv, ReservedMatchesOpenRows, SpentMatchesFinalRows, CapRespected

\* Admission adds one row to the open amounts of one session.
LEMMA AdmissionColumns ==
  ASSUME TypeOK, NEW s \in Sessions, NEW q \in RequestIds, NEW r \in Reservations,
         NEW amount \in Balance, Admission(s, q, r, amount), NEW t \in Sessions, NEW u \in Units
  PROVE  /\ OpenAmounts(t, u)' = IF t = s THEN [OpenAmounts(t, u) EXCEPT ![r] = amount[u]]
                                         ELSE OpenAmounts(t, u)
         /\ OpenAmounts(s, u)[r] = 0
         /\ FinalCharges(t, u)' = FinalCharges(t, u)
         /\ Overruns(t, u)' = Overruns(t, u)
         /\ NaturalHolds(t)' => NaturalHolds(t)
<1>1. rows[r].state = "none"
  BY DEF Admission, Admit
<1>2. \A k \in Reservations : k # r => rows'[k] = rows[k]
  BY DEF Admission, Admit, TypeOK
<1>3. /\ rows'[r].state = "open" /\ rows'[r].session = s /\ rows'[r].amount = amount
  BY DEF Admission, Admit, TypeOK
<1>4. \A k \in Reservations :
         /\ OpenAmounts(t, u)'[k] = IF k = r /\ t = s THEN amount[u] ELSE OpenAmounts(t, u)[k]
         /\ FinalCharges(t, u)'[k] = FinalCharges(t, u)[k]
         /\ Overruns(t, u)'[k] = Overruns(t, u)[k]
  BY <1>1, <1>2, <1>3 DEF OpenAmounts, FinalCharges, Overruns
<1>5. NaturalHolds(t)' => NaturalHolds(t)
  BY <1>1, <1>2 DEF NaturalHolds
<1> QED BY <1>1, <1>4, <1>5 DEF OpenAmounts, FinalCharges, Overruns

\* Settlement moves one row from the open amounts of its session to its
\* final charges.
LEMMA FinalizeColumns ==
  ASSUME TypeOK, NEW r \in Reservations, NEW charge \in Amount, Finalize(r, charge),
         NEW t \in Sessions, NEW u \in Units
  PROVE  LET s == rows[r].session IN
         /\ OpenAmounts(t, u)' = IF t = s THEN [OpenAmounts(t, u) EXCEPT ![r] = 0]
                                         ELSE OpenAmounts(t, u)
         /\ FinalCharges(t, u)' = IF t = s THEN [FinalCharges(t, u) EXCEPT ![r] = charge[u]]
                                          ELSE FinalCharges(t, u)
         /\ Overruns(t, u)' =
              IF t = s THEN [Overruns(t, u) EXCEPT ![r] = Minus(charge[u], rows[r].amount[u])]
                       ELSE Overruns(t, u)
         /\ OpenAmounts(s, u)[r] = rows[r].amount[u]
         /\ FinalCharges(s, u)[r] = 0
         /\ Overruns(s, u)[r] = 0
         /\ NaturalHolds(t)' => NaturalHolds(t)
<1> DEFINE s == rows[r].session
<1>1. rows[r].state = "open" /\ rows[r] \in Row
  BY DEF Finalize, Settle, Released, TypeOK
<1>2. \A k \in Reservations : k # r => rows'[k] = rows[k]
  BY DEF Finalize, Settle, Released, TypeOK
<1>3. /\ rows'[r].state = "final" /\ rows'[r].session = s
      /\ rows'[r].amount = rows[r].amount /\ rows'[r].charge = charge
  BY <1>1 DEF Finalize, Settle, Released, TypeOK, Row
<1>4. \A k \in Reservations :
         /\ OpenAmounts(t, u)'[k] = IF k = r /\ t = s THEN 0 ELSE OpenAmounts(t, u)[k]
         /\ FinalCharges(t, u)'[k] =
              IF k = r /\ t = s THEN charge[u] ELSE FinalCharges(t, u)[k]
         /\ Overruns(t, u)'[k] =
              IF k = r /\ t = s THEN Minus(charge[u], rows[r].amount[u]) ELSE Overruns(t, u)[k]
  BY <1>1, <1>2, <1>3 DEF OpenAmounts, FinalCharges, Overruns
<1>5. NaturalHolds(t)' => NaturalHolds(t)
  BY <1>1, <1>2, <1>3 DEF NaturalHolds
<1> QED BY <1>1, <1>4, <1>5 DEF OpenAmounts, FinalCharges, Overruns

\* The parts of the invariant that speak of the sums of one session and unit.
BalancedAt(s, u) ==
  LET open == Total(NumReservations, OpenAmounts(s, u))
  IN  /\ open <= reserved[s][u] /\ (NaturalHolds(s) => open = reserved[s][u])
      /\ spent[s][u] = Total(NumReservations, FinalCharges(s, u))
      /\ spent[s][u] + open <= Cap[s][u] + Total(NumReservations, Overruns(s, u))

\* The invariant, session by session and unit by unit.
LEMMA LedgerInvAt ==
  LedgerInv <=> TypeOK /\ \A s \in Sessions, u \in Units : BalancedAt(s, u)
  BY DEF LedgerInv, BalancedAt, ReservedMatchesOpenRows, SpentMatchesFinalRows, CapRespected

\* The sums of a well-typed ledger are integers, those of charges and overruns
\* natural numbers.
LEMMA SumTypes ==
  ASSUME TypeOK, NEW s \in Sessions, NEW u \in Units
  PROVE  /\ NumReservations \in Nat
         /\ Total(NumReservations, OpenAmounts(s, u)) \in Int
         /\ Total(NumReservations, FinalCharges(s, u)) \in Nat
         /\ Total(NumReservations, Overruns(s, u)) \in Nat
         /\ reserved[s][u] \in Int /\ spent[s][u] \in Nat /\ Cap[s][u] \in Nat
<1>1. NumReservations \in Nat /\ Cap[s][u] \in Nat
  BY LedgerConstants DEF Amount
<1>2. /\ OpenAmounts(s, u)  \in [1..NumReservations -> Int]
      /\ FinalCharges(s, u) \in [1..NumReservations -> Nat]
      /\ Overruns(s, u)     \in [1..NumReservations -> Nat]
  BY ColumnTypes DEF Reservations
<1>3. reserved[s][u] \in Int /\ spent[s][u] \in Nat
  BY DEF TypeOK, Amount, Balance
<1> QED BY <1>1, <1>2, <1>3, TotalType

\* Admission preserves the invariant: the amount enters the reserved columns
\* and the open rows together, and Fits bounds the result by the cap.
LEMMA AdmissionStep ==
  ASSUME LedgerInv, TypeOK', NEW s \in Sessions, NEW q \in RequestIds,
         NEW r \in Reservations, NEW amount \in Balance, Admission(s, q, r, amount)
  PROVE  LedgerInv'
<1>1. TypeOK /\ r \in 1..NumReservations
  BY DEF LedgerInv, Reservations
<1>2. ASSUME NEW t \in Sessions, NEW u \in Units
      PROVE  BalancedAt(t, u)'
  <2> DEFINE n == NumReservations
             open == OpenAmounts(t, u)
             over == Total(n, Overruns(t, u))
  <2>1. BalancedAt(t, u)
    BY LedgerInvAt
  <2>2. /\ n \in Nat /\ Total(n, open) \in Int /\ over \in Nat
        /\ spent[t][u] \in Nat /\ reserved[t][u] \in Int /\ Cap[t][u] \in Nat
    BY <1>1, SumTypes
  <2>3. open \in [1..n -> Int] /\ amount[u] \in Int
    BY <1>1, ColumnTypes DEF Reservations, Balance
  <2>4. /\ FinalCharges(t, u)' = FinalCharges(t, u) /\ Overruns(t, u)' = Overruns(t, u)
        /\ NaturalHolds(t)' => NaturalHolds(t)
    BY <1>1, AdmissionColumns
  <2>5. spent' = spent
    BY DEF Admission, Admit
  <2>6. CASE t = s
    <3>1. OpenAmounts(t, u)' = [open EXCEPT ![r] = amount[u]] /\ open[r] = 0
      BY <1>1, <2>6, AdmissionColumns
    <3>2. Total(n, OpenAmounts(t, u)') = Total(n, open) + amount[u] - open[r]
      <4>1. IsRowChange(n, open, r, amount[u], OpenAmounts(t, u)')
        <5> HIDE DEF open
        <5> QED BY <1>1, <2>3, <3>1 DEF IsRowChange
      <4> HIDE DEF open
      <4> QED BY <1>1, <2>2, <4>1, TotalUpdate
    <3>3. reserved'[t][u] = reserved[t][u] + amount[u]
      BY <1>1, <2>6 DEF Admission, Admit, TypeOK, Balance
    <3>4. spent[t][u] + reserved[t][u] + amount[u] <= Cap[t][u]
      BY <2>6 DEF Admission, Admit, Fits
    <3>5. /\ Total(n, open) <= reserved[t][u]
          /\ NaturalHolds(t) => Total(n, open) = reserved[t][u]
          /\ spent[t][u] = Total(n, FinalCharges(t, u))
      BY <2>1 DEF BalancedAt
    <3> HIDE DEF open, over, n
    <3>6. Total(n, OpenAmounts(t, u)') = Total(n, open) + amount[u]
      BY <2>2, <2>3, <3>1, <3>2
    <3>7. /\ Total(n, OpenAmounts(t, u)') <= reserved'[t][u]
          /\ NaturalHolds(t)' => Total(n, OpenAmounts(t, u)') = reserved'[t][u]
      BY <2>2, <2>3, <2>4, <3>3, <3>5, <3>6
    <3>8. spent'[t][u] + Total(n, OpenAmounts(t, u)') <= Cap[t][u] + over
      <4>1. Total(n, open) <= reserved[t][u] /\ spent'[t][u] = spent[t][u]
        BY <2>5, <3>5
      <4>2. spent[t][u] + Total(n, open) + amount[u] <= Cap[t][u] + over
        BY ONLY <2>2, <2>3, <3>4, <4>1
      <4>3. spent[t][u] + Total(n, open) + amount[u] = spent[t][u] + (Total(n, open) + amount[u])
        BY ONLY <2>2, <2>3
      <4> QED BY ONLY <3>6, <4>1, <4>2, <4>3
    <3> QED BY <2>4, <2>5, <3>5, <3>7, <3>8 DEF BalancedAt, over, n
  <2>7. CASE t # s
    <3>1. OpenAmounts(t, u)' = open
      BY <1>1, <2>7, AdmissionColumns
    <3>2. reserved'[t] = reserved[t]
      BY <1>1, <2>7 DEF Admission, Admit, TypeOK
    <3> QED BY <2>1, <2>4, <2>5, <3>1, <3>2 DEF BalancedAt
  <2> QED BY <2>6, <2>7
<1> QED BY <1>2 DEF LedgerInv, BalancedAt, ReservedMatchesOpenRows, SpentMatchesFinalRows,
                    CapRespected

\* Settlement preserves the invariant: the row leaves the open ones and its
\* amount the reserved columns, the cut-off at zero only leaves more there, and
\* what the charge adds beyond the amount is counted as an overrun.
LEMMA FinalizeStep ==
  ASSUME LedgerInv, TypeOK', NEW r \in Reservations, NEW charge \in Amount,
         Finalize(r, charge)
  PROVE  LedgerInv'
<1> DEFINE s == rows[r].session
           amount == rows[r].amount
<1>1. TypeOK /\ r \in 1..NumReservations /\ s \in Sessions /\ amount \in Balance
  BY DEF LedgerInv, Reservations, TypeOK, Row
<1>2. ASSUME NEW t \in Sessions, NEW u \in Units
      PROVE  BalancedAt(t, u)'
  <2> DEFINE n == NumReservations
             open  == OpenAmounts(t, u)
             final == FinalCharges(t, u)
             over  == Overruns(t, u)
             extra == Minus(charge[u], amount[u])
  <2>1. BalancedAt(t, u)
    BY LedgerInvAt
  <2>2. /\ n \in Nat /\ Total(n, open) \in Int /\ Total(n, final) \in Nat
        /\ Total(n, over) \in Nat
        /\ spent[t][u] \in Nat /\ reserved[t][u] \in Int /\ Cap[t][u] \in Nat
    BY <1>1, SumTypes
  <2>3. /\ open  \in [1..n -> Int] /\ final \in [1..n -> Nat] /\ over  \in [1..n -> Nat]
        /\ NaturalHolds(t) => open \in [1..n -> Nat]
    BY <1>1, ColumnTypes DEF Reservations
  <2>4. charge[u] \in Nat /\ amount[u] \in Int /\ extra \in Nat /\ charge[u] - amount[u] <= extra
    BY <1>1 DEF Amount, Balance, Minus
  <2>5. NaturalHolds(t)' => NaturalHolds(t)
    BY <1>1, FinalizeColumns
  <2>6. CASE t = s
    <3>1. /\ OpenAmounts(t, u)'  = [open EXCEPT ![r] = 0]
          /\ FinalCharges(t, u)' = [final EXCEPT ![r] = charge[u]]
          /\ Overruns(t, u)'     = [over EXCEPT ![r] = extra]
          /\ open[r] = amount[u] /\ final[r] = 0 /\ over[r] = 0
      BY <1>1, <2>6, FinalizeColumns
    <3>2. /\ spent'[t][u] = spent[t][u] + charge[u]
          /\ reserved'[t][u] = Minus(reserved[t][u], amount[u])
      BY <1>1, <2>6 DEF Finalize, Settle, Released, TypeOK, Amount
    <3>3. /\ Total(n, open) <= reserved[t][u]
          /\ NaturalHolds(t) => Total(n, open) = reserved[t][u]
          /\ spent[t][u] = Total(n, final)
          /\ spent[t][u] + Total(n, open) <= Cap[t][u] + Total(n, over)
      BY <2>1 DEF BalancedAt
    <3> HIDE DEF open, final, over, extra, n
    <3>4. /\ Total(n, OpenAmounts(t, u)')  = Total(n, open) + 0 - open[r]
          /\ Total(n, FinalCharges(t, u)') = Total(n, final) + charge[u] - final[r]
          /\ Total(n, Overruns(t, u)')     = Total(n, over) + extra - over[r]
      <4>1. /\ IsRowChange(n, open, r, 0, OpenAmounts(t, u)')
            /\ IsRowChange(n, final, r, charge[u], FinalCharges(t, u)')
            /\ IsRowChange(n, over, r, extra, Overruns(t, u)')
        BY <1>1, <2>3, <2>4, <3>1 DEF IsRowChange, n
      <4> QED BY <2>2, <4>1, TotalUpdate
    <3>5. /\ Total(n, OpenAmounts(t, u)')  = Total(n, open) - amount[u]
          /\ Total(n, FinalCharges(t, u)') = Total(n, final) + charge[u]
          /\ Total(n, Overruns(t, u)')     = Total(n, over) + extra
      BY <2>2, <2>4, <3>1, <3>4
    <3>6. Total(n, OpenAmounts(t, u)') <= reserved'[t][u]
      BY <2>2, <2>4, <3>2, <3>3, <3>5 DEF Minus
    <3>7. ASSUME NaturalHolds(t)'
          PROVE  Total(n, OpenAmounts(t, u)') = reserved'[t][u]
      <4>1. amount[u] <= Total(n, open) /\ Total(n, open) = reserved[t][u]
        BY <1>1, <2>2, <2>3, <2>5, <3>1, <3>3, <3>7, TotalBoundsRow DEF n
      <4> QED BY <2>2, <2>4, <3>2, <3>5, <4>1 DEF Minus
    <3>8. spent'[t][u] + Total(n, OpenAmounts(t, u)') <= Cap[t][u] + Total(n, Overruns(t, u)')
      BY <2>2, <2>4, <3>2, <3>3, <3>5
    <3>9. spent'[t][u] = Total(n, FinalCharges(t, u)')
      BY <3>2, <3>3, <3>5
    <3> QED BY <3>6, <3>7, <3>8, <3>9 DEF BalancedAt, n
  <2>7. CASE t # s
    <3>1. /\ OpenAmounts(t, u)' = open /\ FinalCharges(t, u)' = final /\ Overruns(t, u)' = over
      BY <1>1, <2>7, FinalizeColumns
    <3>2. spent'[t] = spent[t] /\ reserved'[t] = reserved[t]
      BY <1>1, <2>7 DEF Finalize, Settle, Released, TypeOK
    <3> QED BY <2>1, <2>5, <3>1, <3>2 DEF BalancedAt
  <2> QED BY <2>6, <2>7
<1> QED BY <1>2 DEF LedgerInv, BalancedAt, ReservedMatchesOpenRows, SpentMatchesFinalRows,
                    CapRespected

\* Every operation preserves the invariant.
LEMMA NextLedgerInv == LedgerInv /\ [LedgerNext]_ledgerVars => LedgerInv'
<1> SUFFICES ASSUME LedgerInv, [LedgerNext]_ledgerVars
             PROVE  LedgerInv'
  OBVIOUS
<1>1. TypeOK'
  BY NextTypeOK DEF LedgerInv
<1>2. ASSUME NEW s \in Sessions, CreateSession(s) \/ CloseSession(s) \/ Expire(s)
      PROVE  LedgerInv'
  BY <1>1, <1>2, QuietStep DEF CreateSession, CloseSession, Expire
<1>3. ASSUME NEW s \in Sessions, NEW q \in RequestIds, NEW r \in Reservations,
             NEW out \in Estimates, Reserve(s, q, r, EstimateOf(out))
      PROVE  LedgerInv'
  <2>1. EstimateOf(out) \in Balance
    BY AmountTypes
  <2> QED BY <1>1, <1>3, <2>1, ReserveAdmits, AdmissionStep
<1>4. ASSUME NEW r \in Reservations, NEW charge \in Charges, Finalize(r, charge)
      PROVE  LedgerInv'
  <2>1. charge \in Amount
    BY AmountTypes
  <2> QED BY <1>1, <1>4, <2>1, FinalizeStep
<1>5. CASE UNCHANGED ledgerVars
  BY <1>1, <1>5, QuietStep DEF ledgerVars
<1> QED BY <1>2, <1>3, <1>4, <1>5 DEF LedgerNext

\* The inductive invariant holds in every reachable state.
THEOREM LedgerInvariant == LedgerSpec => []LedgerInv
<1> QED BY InitLedgerInv, NextLedgerInv, PTL DEF LedgerSpec

\* The reserved columns of every session cover its open reservations, and equal
\* their sum unless a request of it asked for a negative max_tokens, whatever
\* the interleaving of the store's operations.
THEOREM LedgerReservedExact == LedgerSpec => []ReservedMatchesOpenRows
<1>1. LedgerInv => ReservedMatchesOpenRows
  BY DEF LedgerInv
<1> QED BY <1>1, LedgerInvariant, PTL

\* The spent columns of every session equal the sum of the charges of its
\* finalized reservations: each is charged exactly once.
THEOREM LedgerSpentExact == LedgerSpec => []SpentMatchesFinalRows
<1>1. LedgerInv => SpentMatchesFinalRows
  BY DEF LedgerInv
<1> QED BY <1>1, LedgerInvariant, PTL

\* No session is ever committed beyond its cap by more than its requests
\* used above their estimates, negative ones included.
THEOREM LedgerCapRespected == LedgerSpec => []CapRespected
<1>1. LedgerInv => CapRespected
  BY DEF LedgerInv
<1> QED BY <1>1, LedgerInvariant, PTL

\* A closed or expired session admits nothing new.
THEOREM LedgerClosedSessionsAdmitNothing == LedgerSpec => ClosedSessionsAdmitNothing
<1>1. ASSUME TypeOK, [LedgerNext]_ledgerVars
      PROVE  [\A s \in Sessions, r \in Reservations :
                 /\ session[s] = "closed" \/ expired[s]
                 /\ rows[r].state = "none" /\ rows'[r].state # "none"
                 => rows'[r].session # s]_ledgerVars
  <2> SUFFICES ASSUME NEW t \in Sessions, NEW k \in Reservations, ~Live(t),
                      rows[k].state = "none", rows'[k].state # "none"
               PROVE  rows'[k].session # t
    BY DEF Live
  <2>1. ASSUME NEW s \in Sessions, NEW q \in RequestIds, NEW r \in Reservations,
               NEW out \in Estimates, Reserve(s, q, r, EstimateOf(out))
        PROVE  rows'[k].session # t
    <3>1. s # t /\ k = r
      BY <1>1, <2>1 DEF Reserve, Admit, TypeOK
    <3> QED BY <1>1, <2>1, <3>1 DEF Reserve, Admit, TypeOK
  <2>2. ASSUME NEW r \in Reservations, NEW charge \in Charges, Finalize(r, charge)
        PROVE  FALSE
    BY <1>1, <2>2 DEF Finalize, Settle, TypeOK
  <2>3. CASE UNCHANGED rows
    BY <2>3
  <2> QED BY <1>1, <2>1, <2>2, <2>3
          DEF LedgerNext, CreateSession, CloseSession, Expire, ledgerVars
<1> QED BY <1>1, LedgerTypeCorrect, PTL DEF LedgerSpec, ClosedSessionsAdmitNothing

=============================================================================
