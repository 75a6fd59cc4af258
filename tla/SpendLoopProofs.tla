--------------------------- MODULE SpendLoopProofs ---------------------------
(***************************************************************************)
(* Theorems about stage selection, for every list of stages and every      *)
(* reading, and about the spend loop that is closed by it, for every       *)
(* month, lookback, billing lag, target and usage.                         *)
(***************************************************************************)
EXTENDS SpendLoop, WellFoundedInduction, TLAPS

-----------------------------------------------------------------------------
(* Natural numbers.  The usual induction rule takes a predicate as a       *)
(* parameter; here it takes the set of the numbers that satisfy it.        *)

\* Every nonempty set of natural numbers has a least element.
LEMMA LeastElement ==
  ASSUME NEW T \in SUBSET Nat, T # {}
  PROVE  \E m \in T : \A k \in T : ~ (k < m)
<1> DEFINE R == OpToRel(<, Nat)
<1>1. IsWellFoundedOn(R, Nat)
  BY NatLessThanWellFounded, Zenon DEF OpToRel
<1>2. \E x \in T : \A y \in T : ~ (<<y, x>> \in R)
  <2> HIDE DEF R
  <2> QED BY <1>1, WFMin
<1>3. \A x, y \in Nat : y < x => <<y, x>> \in R
  BY DEF OpToRel
<1> QED BY <1>2, <1>3

\* A set that has 0, and the successor of each of its elements, up to n.
LEMMA UpTo ==
  ASSUME NEW n \in Nat, NEW S, 0 \in S,
         \A i \in 0..n : i # n /\ i \in S => i + 1 \in S
  PROVE  \A i \in 0..n : i \in S
<1> DEFINE Bad == {i \in 0..n : i \notin S}
<1>1. SUFFICES ASSUME Bad # {} PROVE FALSE
  OBVIOUS
<1>2. PICK m \in Bad : \A k \in Bad : ~ (k < m)
  <2>1. Bad \in SUBSET Nat
    OBVIOUS
  <2> HIDE DEF Bad
  <2> QED BY <1>1, <2>1, LeastElement
<1>3. m # 0 /\ m \in 0..n /\ m \notin S
  BY <1>2
<1>4. m - 1 \in 0..n /\ m - 1 < m /\ m - 1 # n /\ (m - 1) + 1 = m
  BY <1>3
<1>5. m - 1 \in S
  BY <1>2, <1>4
<1> QED BY <1>3, <1>4, <1>5

\* g is the function by recursion on the numbers up to n.  Kept as a definition
\* of its own: the provers match it as one fact.
IsRecursion(n, base, step, g) ==
  g = [i \in 0..n |-> IF i = 0 THEN base ELSE step[i][g[i - 1]]]

\* This function exists, with its values in V.
LEMMA RecursionExists ==
  ASSUME NEW n \in Nat, NEW V, NEW base \in V, NEW step \in [1..n -> [V -> V]]
  PROVE  \E g \in [0..n -> V] : IsRecursion(n, base, step, g)
<1> DEFINE Good == {m \in 0..n : \E g \in [0..m -> V] : IsRecursion(m, base, step, g)}
<1>1. 0 \in Good
  <2> DEFINE g == [i \in 0..0 |-> base]
  <2>1. g \in [0..0 -> V] /\ IsRecursion(0, base, step, g) /\ 0 \in 0..n
    BY DEF IsRecursion
  <2> HIDE DEF g
  <2> QED BY <2>1
<1>2. ASSUME NEW m \in 0..n, m # n, m \in Good
      PROVE  m + 1 \in Good
  <2>1. PICK g \in [0..m -> V] : IsRecursion(m, base, step, g)
    BY <1>2
  <2>2. m + 1 \in 1..n /\ m \in 0..m
    BY <1>2
  <2> DEFINE h == [i \in 0..(m + 1) |-> IF i = m + 1 THEN step[m + 1][g[m]] ELSE g[i]]
  <2>3. h \in [0..(m + 1) -> V]
    BY <2>1, <2>2
  <2>4. \A i \in 0..(m + 1) : h[i] = IF i = 0 THEN base ELSE step[i][h[i - 1]]
    <3> TAKE i \in 0..(m + 1)
    <3>1. CASE i = m + 1
      BY <2>2, <3>1
    <3>2. CASE i # m + 1
      <4>1. i \in 0..m /\ (i # 0 => i - 1 \in 0..m /\ i - 1 # m + 1)
        BY <2>2, <3>2
      <4>2. g[i] = IF i = 0 THEN base ELSE step[i][g[i - 1]]
        BY <2>1, <4>1 DEF IsRecursion
      <4> QED BY <2>2, <3>2, <4>1, <4>2
    <3> QED BY <3>1, <3>2
  <2>5. IsRecursion(m + 1, base, step, h)
    <3>1. h = [i \in 0..(m + 1) |-> h[i]]
      OBVIOUS
    <3> HIDE DEF h
    <3> QED BY <2>4, <3>1 DEF IsRecursion
  <2> HIDE DEF h
  <2> QED BY <2>2, <2>3, <2>5
<1>3. n \in Good
  <2>1. n \in 0..n
    OBVIOUS
  <2>2. \A m \in 0..n : m # n /\ m \in Good => m + 1 \in Good
    <3> HIDE DEF Good
    <3> QED BY <1>2
  <2> HIDE DEF Good
  <2> QED BY <1>1, <2>1, <2>2, UpTo
<1> QED BY <1>3

\* Division rounds down.
LEMMA DivBounds ==
  ASSUME NEW x \in Nat, NEW y \in Nat \ {0}
  PROVE  x \div y \in Nat /\ (x \div y) * y <= x /\ x < (x \div y) * y + y
OBVIOUS

\* The quotient is at least q when the dividend is at least q times the divisor.
LEMMA DivAtLeast ==
  ASSUME NEW x \in Nat, NEW y \in Nat \ {0}, NEW q \in Nat, q * y <= x
  PROVE  q <= x \div y
<1> DEFINE d == x \div y
<1>1. d \in Nat /\ x < d * y + y
  BY DivBounds
<1> HIDE DEF d
<1>2. SUFFICES ASSUME d + 1 <= q PROVE FALSE
  BY <1>1 DEF d
<1>3. PICK k \in Nat : q = d + 1 + k
  <2>1. q - (d + 1) \in Nat /\ q = d + 1 + (q - (d + 1))
    BY <1>1, <1>2
  <2> QED BY <2>1
<1>4. q * y = d * y + y + k * y
  BY <1>1, <1>3
<1>5. k * y \in Nat /\ d * y \in Nat
  BY <1>1
<1> QED BY <1>1, <1>4, <1>5

-----------------------------------------------------------------------------
(* What the recursive sum of Totals computes.                              *)

\* A running total of the first n rows of col.
RunsOver(n, col, g) ==
  /\ g[0] = 0
  /\ \A i \in 0..n : i # n => i + 1 \in 1..n /\ g[i + 1] = g[i] + col[i + 1]

\* Total is the last value of a running total of natural numbers.
LEMMA TotalRuns ==
  ASSUME NEW n \in Nat, NEW col \in [1..n -> Nat]
  PROVE  \E g \in [0..n -> Nat] : RunsOver(n, col, g) /\ Total(n, col) = g[n]
<1> DEFINE Adds(t) == t = [i \in 0..n |-> IF i = 0 THEN 0 ELSE t[i - 1] + col[i]]
           step == [i \in 1..n |-> [v \in Nat |-> v + col[i]]]
           h == CHOOSE t : Adds(t)
<1>1. step \in [1..n -> [Nat -> Nat]]
  OBVIOUS
<1>2. PICK g \in [0..n -> Nat] : IsRecursion(n, 0, step, g)
  <2> HIDE DEF step
  <2> QED BY <1>1, RecursionExists
<1>3. \A i \in 0..n : g[i] = IF i = 0 THEN 0 ELSE g[i - 1] + col[i]
  <2> TAKE i \in 0..n
  <2>1. g[i] = IF i = 0 THEN 0 ELSE step[i][g[i - 1]]
    <3> HIDE DEF step
    <3> QED BY <1>2 DEF IsRecursion
  <2>2. i # 0 => i - 1 \in 0..n /\ i \in 1..n /\ g[i - 1] \in Nat
    OBVIOUS
  <2> QED BY <2>1, <2>2
<1>4. Adds(g)
  <2>1. g = [i \in 0..n |-> g[i]]
    OBVIOUS
  <2> QED BY <1>3, <2>1
<1>5. Adds(h)
  <2> HIDE DEF Adds
  <2> QED BY <1>4
<1>6. Total(n, col) = h[n]
  BY DEF Total
<1> HIDE DEF h
<1>7. RunsOver(n, col, h)
  <2>1. h[0] = 0
    BY <1>5
  <2>2. ASSUME NEW i \in 0..n, i # n
        PROVE  i + 1 \in 1..n /\ h[i + 1] = h[i] + col[i + 1]
    <3>1. i + 1 \in 1..n /\ i + 1 \in 0..n /\ i + 1 # 0 /\ (i + 1) - 1 = i
      BY <2>2
    <3> QED BY <1>5, <3>1
  <2> QED BY <2>1, <2>2 DEF RunsOver
<1>8. \A i \in 0..n : h[i] \in Nat
  <2> DEFINE S == {j \in 0..n : h[j] \in Nat}
  <2>1. 0 \in S
    BY <1>7 DEF RunsOver
  <2>2. \A i \in 0..n : i # n /\ i \in S => i + 1 \in S
    BY <1>7 DEF RunsOver
  <2>3. \A i \in 0..n : i \in S
    <3> HIDE DEF S
    <3> QED BY <2>1, <2>2, UpTo
  <2> QED BY <2>3
<1>9. h \in [0..n -> Nat]
  <2>1. h = [i \in 0..n |-> h[i]]
    BY <1>5
  <2> QED BY <1>8, <2>1
<1> QED BY <1>6, <1>7, <1>9

\* The sum of a table of natural numbers is a natural number.
LEMMA TotalNat ==
  ASSUME NEW n \in Nat, NEW col \in [1..n -> Nat]
  PROVE  Total(n, col) \in Nat
BY TotalRuns

\* A table that two others exceed, row by row, has a sum that theirs exceed.
LEMMA TotalCovered ==
  ASSUME NEW n \in Nat, NEW a \in [1..n -> Nat], NEW b \in [1..n -> Nat], NEW c \in [1..n -> Nat],
         \A i \in 1..n : a[i] <= b[i] + c[i]
  PROVE  Total(n, a) <= Total(n, b) + Total(n, c)
<1>1. PICK f \in [0..n -> Nat] : RunsOver(n, a, f) /\ Total(n, a) = f[n]
  BY TotalRuns
<1>2. PICK g \in [0..n -> Nat] : RunsOver(n, b, g) /\ Total(n, b) = g[n]
  BY TotalRuns
<1>3. PICK h \in [0..n -> Nat] : RunsOver(n, c, h) /\ Total(n, c) = h[n]
  BY TotalRuns
<1> DEFINE S == {i \in 0..n : f[i] <= g[i] + h[i]}
<1>4. 0 \in S
  BY <1>1, <1>2, <1>3 DEF RunsOver
<1>5. \A i \in 0..n : i # n /\ i \in S => i + 1 \in S
  <2> SUFFICES ASSUME NEW i \in 0..n, i # n, i \in S PROVE i + 1 \in S
    OBVIOUS
  <2>1. /\ i + 1 \in 1..n /\ f[i + 1] = f[i] + a[i + 1]
        /\ f[i] \in Nat /\ f[i + 1] \in Nat /\ a[i + 1] \in Nat
    BY <1>1 DEF RunsOver
  <2>2. g[i + 1] = g[i] + b[i + 1] /\ g[i] \in Nat /\ g[i + 1] \in Nat /\ b[i + 1] \in Nat
    BY <1>2 DEF RunsOver
  <2>3. h[i + 1] = h[i] + c[i + 1] /\ h[i] \in Nat /\ h[i + 1] \in Nat /\ c[i + 1] \in Nat
    BY <1>3 DEF RunsOver
  <2>4. a[i + 1] <= b[i + 1] + c[i + 1] /\ f[i] <= g[i] + h[i]
    BY <2>1
  <2>5. f[i + 1] <= g[i + 1] + h[i + 1]
    <3>1. \A p, q, r, x, y, z \in Nat : p <= q + r /\ x <= y + z => p + x <= (q + y) + (r + z)
      OBVIOUS
    <3>2. f[i] + a[i + 1] <= (g[i] + b[i + 1]) + (h[i] + c[i + 1])
      BY ONLY <3>1, <2>1, <2>2, <2>3, <2>4
    <3> QED BY ONLY <3>2, <2>1, <2>2, <2>3
  <2> QED BY <2>1, <2>5
<1>6. n \in S
  <2>1. n \in 0..n
    OBVIOUS
  <2> HIDE DEF S
  <2> QED BY <1>4, <1>5, <2>1, UpTo
<1> QED BY <1>1, <1>2, <1>3, <1>6

\* The sum of a table of zeros is zero.
LEMMA TotalZero ==
  ASSUME NEW n \in Nat, NEW col \in [1..n -> Nat], \A i \in 1..n : col[i] = 0
  PROVE  Total(n, col) = 0
<1>1. PICK g \in [0..n -> Nat] : RunsOver(n, col, g) /\ Total(n, col) = g[n]
  BY TotalRuns
<1> DEFINE S == {i \in 0..n : g[i] = 0}
<1>2. 0 \in S
  BY <1>1 DEF RunsOver
<1>3. \A i \in 0..n : i # n /\ i \in S => i + 1 \in S
  <2> SUFFICES ASSUME NEW i \in 0..n, i # n, i \in S PROVE i + 1 \in S
    OBVIOUS
  <2>1. i + 1 \in 1..n /\ g[i + 1] = g[i] + col[i + 1] /\ g[i] = 0
    BY <1>1 DEF RunsOver
  <2> QED BY <2>1
<1>4. n \in S
  <2>1. n \in 0..n
    OBVIOUS
  <2> HIDE DEF S
  <2> QED BY <1>2, <1>3, <2>1, UpTo
<1> QED BY <1>1, <1>4

\* A table moved down by one row has a sum of at most its new first row more,
\* and at least its first row.
LEMMA TotalShifted ==
  ASSUME NEW n \in Nat \ {0}, NEW c \in [1..n -> Nat], NEW d \in [1..n -> Nat],
         \A i \in 1..n : i # n => d[i + 1] <= c[i]
  PROVE  d[1] <= Total(n, d) /\ Total(n, d) <= d[1] + Total(n, c)
<1>1. PICK g \in [0..n -> Nat] : RunsOver(n, d, g) /\ Total(n, d) = g[n]
  BY TotalRuns
<1>2. PICK h \in [0..n -> Nat] : RunsOver(n, c, h) /\ Total(n, c) = h[n]
  BY TotalRuns
<1> DEFINE S == {i \in 0..n : /\ g[i] <= d[1] + h[i]
                              /\ i # 0 => d[1] <= g[i] /\ g[i] <= d[1] + h[i - 1]}
<1>3. 0 \in S
  BY <1>1, <1>2 DEF RunsOver
<1>4. \A i \in 0..n : i # n /\ i \in S => i + 1 \in S
  <2> SUFFICES ASSUME NEW i \in 0..n, i # n, i \in S PROVE i + 1 \in S
    OBVIOUS
  <2>1. /\ i + 1 \in 1..n /\ g[i + 1] = g[i] + d[i + 1]
        /\ g[i] \in Nat /\ g[i + 1] \in Nat /\ d[i + 1] \in Nat
    BY <1>1 DEF RunsOver
  <2>2. h[i + 1] = h[i] + c[i + 1] /\ h[i] \in Nat /\ h[i + 1] \in Nat /\ c[i + 1] \in Nat
    BY <1>2 DEF RunsOver
  <2>3. g[0] = 0 /\ h[0] = 0 /\ d[1] \in Nat /\ 1 \in 1..n
    BY <1>1, <1>2 DEF RunsOver
  <2>4. (i + 1) - 1 = i
    OBVIOUS
  <2>5. d[1] <= g[i + 1] /\ g[i + 1] <= d[1] + h[i]
    <3>1. CASE i = 0
      <4>1. g[i] = 0 /\ h[i] = 0 /\ d[i + 1] = d[1]
        BY <2>3, <3>1
      <4> QED BY ONLY <2>1, <2>3, <4>1
    <3>2. CASE i # 0
      <4>1. i \in 1..n /\ d[1] <= g[i] /\ g[i] <= d[1] + h[i - 1]
        BY <3>2
      <4>2. d[i + 1] <= c[i]
        BY <4>1
      <4>3. i - 1 \in 0..n /\ i - 1 # n /\ (i - 1) + 1 = i
        BY <4>1
      <4>4. h[i] = h[i - 1] + c[i] /\ h[i - 1] \in Nat /\ c[i] \in Nat
        BY <1>2, <4>3 DEF RunsOver
      <4>5. \A p, u, v, x, y \in Nat :
              p <= u /\ u <= p + v /\ x <= y => p <= u + x /\ u + x <= p + (v + y)
        OBVIOUS
      <4>6. d[1] <= g[i] + d[i + 1] /\ g[i] + d[i + 1] <= d[1] + (h[i - 1] + c[i])
        BY ONLY <4>5, <2>1, <2>3, <4>1, <4>2, <4>4
      <4> QED BY ONLY <2>1, <4>4, <4>6
    <3> QED BY <3>1, <3>2
  <2>6. g[i + 1] <= d[1] + h[i + 1]
    <3>1. \A p, u, v, y \in Nat : u <= p + v => u <= p + (v + y)
      OBVIOUS
    <3> QED BY ONLY <3>1, <2>1, <2>2, <2>3, <2>5
  <2>7. i + 1 \in 0..n
    BY <2>1
  <2> QED BY <2>4, <2>5, <2>6, <2>7
<1>5. n \in S
  <2>1. n \in 0..n
    OBVIOUS
  <2> HIDE DEF S
  <2> QED BY <1>3, <1>4, <2>1, UpTo
<1>6. n - 1 \in 0..n /\ n - 1 # n /\ (n - 1) + 1 = n
  OBVIOUS
<1>7. h[n - 1] <= h[n] /\ h[n] \in Nat /\ g[n] \in Nat /\ h[n - 1] \in Nat
  BY <1>2, <1>6 DEF RunsOver
<1>8. d[1] <= g[n] /\ g[n] <= d[1] + h[n - 1] /\ d[1] \in Nat
  BY <1>5
<1> QED BY <1>1, <1>2, <1>7, <1>8

-----------------------------------------------------------------------------
(* Stage selection.                                                        *)

\* The active stage is reached earlier than the others, never later.
LEMMA ThresholdOfActive ==
  ASSUME NEW i \in Stages, NEW active \in StageOrNone
  PROVE  /\ EffectiveThreshold(i, active) \in Nat
         /\ EffectiveThreshold(i, active) <= Threshold[i]
         /\ Threshold[i] \in Nat
         /\ i # active => EffectiveThreshold(i, active) = Threshold[i]
         /\ i = active => \A util \in Nat :
              util >= EffectiveThreshold(i, active) <=> util + Hysteresis >= Threshold[i]
<1>1. Threshold[i] \in 1..100 /\ Hysteresis \in 0..20
  BY StageConstants
<1>2. Threshold[i] \in Nat /\ Hysteresis \in Nat
  BY <1>1
<1>3. CASE i # active
  BY <1>2, <1>3 DEF EffectiveThreshold
<1>4. CASE i = active
  BY <1>2, <1>4 DEF EffectiveThreshold
<1> QED BY <1>3, <1>4

\* A set of stages that is not empty has a last one.
LEMMA LastStage ==
  ASSUME NEW R \in SUBSET Stages, R # {}
  PROVE  \E i \in R : \A j \in R : j <= i
<1> DEFINE Above == {m \in Nat : \A j \in R : j <= m}
<1>1. NumStages \in Above /\ \A j \in R : j \in 1..NumStages
  BY StageConstants DEF Stages
<1>2. PICK m \in Above : \A k \in Above : ~ (k < m)
  <2>1. Above \in SUBSET Nat /\ Above # {}
    BY <1>1
  <2> HIDE DEF Above
  <2> QED BY <2>1, LeastElement
<1>3. m # 0
  BY <1>1
<1>4. m - 1 \in Nat /\ m - 1 < m
  BY <1>3
<1>5. PICK i \in R : ~ (i <= m - 1)
  BY <1>2, <1>4
<1>6. i = m
  BY <1>1, <1>4, <1>5
<1> QED BY <1>6

\* The stages reached have a last one, and it is the one selected.
LEMMA SelectedIsLast ==
  ASSUME NEW util \in Nat, NEW active \in StageOrNone, Reached(util, active) # {}
  PROVE  /\ SelectStage(util, active) \in Reached(util, active)
         /\ \A j \in Reached(util, active) : j <= SelectStage(util, active)
<1> DEFINE R == Reached(util, active)
<1>1. R \in SUBSET Stages
  BY DEF Reached
<1>2. SelectStage(util, active) = CHOOSE i \in R : \A j \in R : j <= i
  BY DEF SelectStage
<1> HIDE DEF R
<1>3. \E i \in R : \A j \in R : j <= i
  BY <1>1, LastStage DEF R
<1>4. /\ SelectStage(util, active) \in R
      /\ \A j \in R : j <= SelectStage(util, active)
  BY <1>2, <1>3
<1> QED BY <1>4 DEF R

\* The selection is a stage of the policy, or none.
LEMMA SelectedIsStage ==
  ASSUME NEW util \in Nat, NEW active \in StageOrNone
  PROVE  SelectStage(util, active) \in StageOrNone
<1>1. CASE Reached(util, active) = {}
  BY <1>1, StageConstants DEF SelectStage, StageOrNone
<1>2. CASE Reached(util, active) # {}
  <2>1. SelectStage(util, active) \in Stages
    BY <1>2, SelectedIsLast DEF Reached
  <2> QED BY <2>1, StageConstants DEF Stages, StageOrNone
<1> QED BY <1>1, <1>2

\* Selection is decided by being the last stage reached.
LEMMA LastReachedIsSelected ==
  ASSUME NEW util \in Nat, NEW active \in StageOrNone,
         NEW i \in Reached(util, active), \A j \in Reached(util, active) : j <= i
  PROVE  SelectStage(util, active) = i
<1>1. /\ SelectStage(util, active) \in Reached(util, active)
      /\ \A j \in Reached(util, active) : j <= SelectStage(util, active)
  BY SelectedIsLast
<1>2. i \in Int /\ SelectStage(util, active) \in Int
  BY <1>1, StageConstants DEF Reached, Stages
<1> QED BY <1>1, <1>2

\* select_stage never flaps: whatever the active stage, the stage it returns
\* is returned again for the same utilization once it is the active one.
THEOREM SelectionStable ==
  ASSUME NEW util \in Nat, NEW active \in StageOrNone
  PROVE  SelectionIsStable(util, active)
<1> DEFINE c == SelectStage(util, active)
<1>0. NumStages \in Nat /\ Threshold \in [1..NumStages -> 1..100] /\ Hysteresis \in 0..20
  BY StageConstants DEF Stages
<1>1. c \in StageOrNone
  BY SelectedIsStage
<1>2. \A i \in Reached(util, c) : i = c \/ i \in Reached(util, active)
  <2> HIDE DEF c
  <2> TAKE i \in Reached(util, c)
  <2>1. i \in Stages /\ util >= EffectiveThreshold(i, c)
    BY DEF Reached
  <2>2. CASE i # c
    <3>1. util >= Threshold[i]
      BY <1>1, <2>1, <2>2, ThresholdOfActive
    <3>2. util >= EffectiveThreshold(i, active)
      BY <2>1, <3>1, ThresholdOfActive
    <3> QED BY <2>1, <3>2 DEF Reached
  <2> QED BY <2>2
<1>3. CASE c = 0
  <2>1. Reached(util, active) = {}
    <3>1. Reached(util, active) # {} => c \in Stages
      BY SelectedIsLast DEF Reached
    <3> QED BY <1>0, <1>3, <3>1 DEF Stages
  <2>2. 0 \notin Reached(util, c)
    BY <1>0 DEF Reached, Stages
  <2>3. Reached(util, c) = {}
    BY <1>2, <1>3, <2>1, <2>2
  <2> QED BY <1>3, <2>3 DEF SelectStage, SelectionIsStable
<1>4. CASE c # 0
  <2>1. Reached(util, active) # {}
    BY <1>4 DEF SelectStage
  <2>2. c \in Reached(util, active) /\ \A j \in Reached(util, active) : j <= c
    BY <2>1, SelectedIsLast
  <2> HIDE DEF c
  <2>3. c \in Reached(util, c)
    <3>1. c \in Stages /\ util >= EffectiveThreshold(c, active)
      BY <2>2 DEF Reached
    <3>2. CASE c = active
      BY <2>2, <3>2
    <3>3. CASE c # active
      <4>1. util >= Threshold[c]
        BY <3>1, <3>3, ThresholdOfActive
      <4>2. util >= EffectiveThreshold(c, c)
        BY <1>1, <3>1, <4>1, ThresholdOfActive
      <4> QED BY <3>1, <4>2 DEF Reached
    <3> QED BY <3>2, <3>3
  <2>4. \A j \in Reached(util, c) : j <= c
    <3>1. c \in Int
      BY <1>0, <1>1 DEF StageOrNone
    <3> QED BY <1>2, <2>2, <3>1
  <2>5. SelectStage(util, c) = c
    BY <1>1, <2>3, <2>4, LastReachedIsSelected
  <2> QED BY <2>5 DEF c, SelectionIsStable
<1> QED BY <1>3, <1>4

\* What the hysteresis of select_stage does, exactly: it holds an active stage
\* above the one the reading selects while the reading is within Hysteresis of
\* its threshold.
THEOREM HysteresisHolds ==
  ASSUME NEW util \in Nat, NEW active \in StageOrNone
  PROVE  HysteresisOnlyHolds(util, active)
<1> DEFINE bare == SelectStage(util, 0)
           holds == active > bare /\ util + Hysteresis >= Threshold[active]
<1>0. /\ NumStages \in Nat /\ Threshold \in [1..NumStages -> 1..100]
      /\ Hysteresis \in 0..20 /\ 0 \in StageOrNone
  BY StageConstants DEF Stages, StageOrNone
<1>1. bare \in StageOrNone
  BY <1>0, SelectedIsStage
<1>2. \A i \in Stages : i \in Reached(util, 0) <=> util >= Threshold[i]
  BY <1>0 DEF Reached, EffectiveThreshold, Stages
<1>3. \A i \in Stages : i # active => (i \in Reached(util, active) <=> util >= Threshold[i])
  BY <1>0 DEF Reached, EffectiveThreshold, Stages
<1>4. active \in Stages =>
        (active \in Reached(util, active) <=> util + Hysteresis >= Threshold[active])
  BY ThresholdOfActive DEF Reached
<1>5. \A i \in Reached(util, 0) : i \in Reached(util, active) /\ i <= bare
  <2>1. \A i \in Reached(util, 0) : i <= bare
    BY <1>0, SelectedIsLast
  <2>2. \A i \in Reached(util, 0) : i \in Reached(util, active)
    <3> TAKE i \in Reached(util, 0)
    <3>1. i \in Stages /\ util >= Threshold[i]
      BY <1>2 DEF Reached
    <3>2. util >= EffectiveThreshold(i, active)
      BY <3>1, ThresholdOfActive
    <3> QED BY <3>1, <3>2 DEF Reached
  <2> QED BY <2>1, <2>2
<1>6. \A i \in Reached(util, active) : i = active \/ i <= bare
  <2> TAKE i \in Reached(util, active)
  <2>1. i \in Stages
    BY DEF Reached
  <2> HIDE DEF bare
  <2> QED BY <1>2, <1>3, <1>5, <2>1
<1>7. CASE holds
  <2>1. active \in Stages
    BY <1>0, <1>1, <1>7 DEF Stages, StageOrNone
  <2>2. active \in Reached(util, active)
    BY <1>4, <1>7, <2>1
  <2>3. \A j \in Reached(util, active) : j <= active
    <3> TAKE j \in Reached(util, active)
    <3>1. j \in Int /\ active \in Int /\ bare \in Int
      BY <1>0, <1>1, <2>1 DEF Reached, Stages, StageOrNone
    <3> HIDE DEF bare
    <3> QED BY <1>6, <1>7, <3>1
  <2>4. SelectStage(util, active) = active
    BY <2>2, <2>3, LastReachedIsSelected
  <2> QED BY <1>7, <2>4 DEF HysteresisOnlyHolds
<1>8. CASE ~ holds
  <2>1. \A i \in Reached(util, active) : i <= bare
    <3> TAKE i \in Reached(util, active)
    <3>1. i \in Stages /\ i \in Int /\ active \in Int /\ bare \in Int
      BY <1>0, <1>1 DEF Reached, Stages, StageOrNone
    <3> HIDE DEF bare
    <3> QED BY <1>4, <1>6, <1>8, <3>1
  <2>2. CASE bare = 0
    <3>1. Reached(util, active) = {}
      BY <1>0, <2>1, <2>2 DEF Reached, Stages
    <3>2. SelectStage(util, active) = bare
      BY <2>2, <3>1 DEF SelectStage
    <3> QED BY <1>8, <3>2 DEF HysteresisOnlyHolds
  <2>3. CASE bare # 0
    <3>1. Reached(util, 0) # {}
      BY <2>3 DEF SelectStage
    <3>2. bare \in Reached(util, active)
      BY <1>0, <1>5, <3>1, SelectedIsLast
    <3>3. SelectStage(util, active) = bare
      <4> HIDE DEF bare
      <4> QED BY <2>1, <3>2, LastReachedIsSelected
    <3> QED BY <1>8, <3>3 DEF HysteresisOnlyHolds
  <2> QED BY <2>2, <2>3
<1> QED BY <1>7, <1>8

\* A higher utilization does not select a lower stage.
LEMMA SelectionMonotone ==
  ASSUME NEW u \in Nat, NEW v \in Nat, u <= v, NEW active \in StageOrNone
  PROVE  SelectStage(u, active) <= SelectStage(v, active)
<1>1. Reached(u, active) \subseteq Reached(v, active)
  <2> SUFFICES ASSUME NEW i \in Reached(u, active) PROVE i \in Reached(v, active)
    OBVIOUS
  <2>1. i \in Stages /\ u >= EffectiveThreshold(i, active)
    BY DEF Reached
  <2>2. EffectiveThreshold(i, active) \in Nat
    BY <2>1, ThresholdOfActive
  <2>3. v >= EffectiveThreshold(i, active)
    BY <2>1, <2>2
  <2> QED BY <2>1, <2>3 DEF Reached
<1>2. CASE Reached(u, active) = {}
  <2>1. SelectStage(u, active) = 0
    BY <1>2 DEF SelectStage
  <2>2. SelectStage(v, active) \in 0..NumStages /\ NumStages \in Nat
    BY SelectedIsStage, StageConstants DEF StageOrNone
  <2> QED BY <2>1, <2>2
<1>3. CASE Reached(u, active) # {}
  <2>1. SelectStage(u, active) \in Reached(v, active)
    BY <1>1, <1>3, SelectedIsLast
  <2> QED BY <2>1, SelectedIsLast
<1> QED BY <1>2, <1>3

\* Short of the last stage, the utilization is below its threshold.
LEMMA BelowLastThreshold ==
  ASSUME NEW util \in Nat, NEW active \in StageOrNone,
         SelectStage(util, active) # NumStages
  PROVE  util < Threshold[NumStages]
<1>1. NumStages \in Stages /\ NumStages \in Nat
  BY StageConstants DEF Stages
<1>2. /\ EffectiveThreshold(NumStages, active) \in Nat
      /\ EffectiveThreshold(NumStages, active) <= Threshold[NumStages]
      /\ Threshold[NumStages] \in Nat
  BY <1>1, ThresholdOfActive
<1>3. ASSUME NumStages \in Reached(util, active)
      PROVE  FALSE
  <2>1. \A j \in Reached(util, active) : j <= NumStages
    BY <1>1 DEF Reached, Stages
  <2>2. SelectStage(util, active) = NumStages
    BY <1>3, <2>1, LastReachedIsSelected
  <2> QED BY <2>2
<1>4. ~ (util >= EffectiveThreshold(NumStages, active))
  BY <1>1, <1>3 DEF Reached
<1> QED BY <1>2, <1>4

-----------------------------------------------------------------------------
(* The usage of a set of days.                                             *)

LoopTypes ==
  /\ usage \in [0..Horizon -> 0..MaxUsage] /\ day \in 1..MonthDays
  /\ stage \in StageOrNone /\ phase \in {"use", "evaluate"}
  /\ trusted \in BOOLEAN /\ blind \in Nat

\* The lengths of the windows.
LEMMA Windows ==
  /\ Horizon \in Nat /\ MonthDays \in Nat \ {0} /\ LookbackDays \in Nat \ {0}
  /\ Target \in Nat \ {0} /\ BillingLag \in Nat /\ MaxUsage \in Nat
  /\ MonthDays <= Horizon /\ LookbackDays <= Horizon
BY SpendLoopConstants DEF Horizon

\* What UsageOf adds up.
Rows(ages) == [k \in 1..(Horizon + 1) |-> IF k - 1 \in ages THEN usage[k - 1] ELSE 0]

\* These are natural numbers.
LEMMA RowsType ==
  ASSUME LoopTypes, NEW S
  PROVE  Rows(S) \in [1..(Horizon + 1) -> Nat] /\ UsageOf(S) = Total(Horizon + 1, Rows(S))
<1>1. \A k \in 1..(Horizon + 1) : k - 1 \in 0..Horizon /\ usage[k - 1] \in Nat
  BY Windows DEF LoopTypes
<1>2. Rows(S) \in [1..(Horizon + 1) -> Nat]
  BY <1>1 DEF Rows
<1> QED BY <1>2 DEF UsageOf, Rows

\* The usage of some days is a natural number.
LEMMA UsageNat ==
  ASSUME LoopTypes, NEW S
  PROVE  UsageOf(S) \in Nat
<1>1. Horizon + 1 \in Nat
  BY Windows
<1> QED BY <1>1, RowsType, TotalNat

\* Days that are among those of two sets have at most the usage of these.
LEMMA UsageCovered ==
  ASSUME LoopTypes, NEW S, NEW T, NEW U, S \cap 0..Horizon \subseteq T \cup U
  PROVE  UsageOf(S) <= UsageOf(T) + UsageOf(U)
<1>1. Horizon + 1 \in Nat
  BY Windows
<1>2. \A k \in 1..(Horizon + 1) : Rows(S)[k] <= Rows(T)[k] + Rows(U)[k]
  <2> TAKE k \in 1..(Horizon + 1)
  <2>1. k - 1 \in 0..Horizon /\ usage[k - 1] \in Nat
    BY Windows DEF LoopTypes
  <2>2. k - 1 \in S => k - 1 \in T \/ k - 1 \in U
    BY <2>1
  <2> QED BY <2>1, <2>2 DEF Rows
<1>3. /\ Rows(S) \in [1..(Horizon + 1) -> Nat] /\ Rows(T) \in [1..(Horizon + 1) -> Nat]
      /\ Rows(U) \in [1..(Horizon + 1) -> Nat]
  BY RowsType
<1>4. Total(Horizon + 1, Rows(S)) <= Total(Horizon + 1, Rows(T)) + Total(Horizon + 1, Rows(U))
  BY <1>1, <1>2, <1>3, TotalCovered
<1> QED BY <1>4, RowsType

\* No days, no usage.
LEMMA NoUsage ==
  ASSUME LoopTypes
  PROVE  UsageOf({}) = 0
<1>1. Horizon + 1 \in Nat /\ \A k \in 1..(Horizon + 1) : Rows({})[k] = 0
  BY Windows DEF Rows
<1> QED BY <1>1, RowsType, TotalZero

\* Fewer days, no more usage.
LEMMA UsageMonotone ==
  ASSUME LoopTypes, NEW S, NEW T, S \cap 0..Horizon \subseteq T
  PROVE  UsageOf(S) <= UsageOf(T)
<1>1. UsageOf(S) <= UsageOf(T) + UsageOf({})
  BY UsageCovered
<1> QED BY <1>1, NoUsage, UsageNat

\* Today counts when it is among the days.
LEMMA TodayCounts ==
  ASSUME LoopTypes, NEW S, 0 \in S
  PROVE  usage[0] <= UsageOf(S)
<1> DEFINE n == Horizon + 1
           c == [k \in 1..n |-> IF k = n THEN 0 ELSE Rows(S)[k + 1]]
<1>1. n \in Nat \ {0} /\ Rows(S) \in [1..n -> Nat]
  BY Windows, RowsType
<1>2. c \in [1..n -> Nat] /\ \A i \in 1..n : i # n => Rows(S)[i + 1] <= c[i]
  <2>1. \A i \in 1..n : i # n => i + 1 \in 1..n /\ Rows(S)[i + 1] \in Nat
    BY <1>1
  <2> QED BY <2>1
<1>3. Rows(S)[1] = usage[0]
  BY <1>1 DEF Rows
<1>4. Rows(S)[1] <= Total(n, Rows(S))
  <2> HIDE DEF n, c
  <2> QED BY <1>1, <1>2, TotalShifted
<1> QED BY <1>3, <1>4, RowsType

-----------------------------------------------------------------------------
(* The moving average, a fraction.                                         *)

Fraction == Nat \X (Nat \ {0})

\* A smoothed fraction is a fraction.
LEMMA SmoothedType ==
  ASSUME LoopTypes, NEW rows, NEW age \in 0..Horizon, NEW v \in Fraction
  PROVE  Smoothed(rows, age, v) \in Fraction
<1>1. usage[age] \in Nat /\ v[1] \in Nat /\ v[2] \in Nat \ {0}
  BY Windows DEF LoopTypes, Fraction
<1>2. <<usage[age], 1>> \in Fraction
  BY <1>1 DEF Fraction
<1>3. 7 * usage[age] * v[2] + 13 * v[1] \in Nat /\ 20 * v[2] \in Nat \ {0}
  <2>1. \A x, y, z \in Nat : 7 * x * y + 13 * z \in Nat
    OBVIOUS
  <2>2. \A y \in Nat \ {0} : 20 * y \in Nat \ {0}
    OBVIOUS
  <2> QED BY ONLY <1>1, <2>1, <2>2
<1>4. <<7 * usage[age] * v[2] + 13 * v[1], 20 * v[2]>> \in Fraction
  BY <1>3 DEF Fraction
<1> QED BY <1>2, <1>4 DEF Smoothed

\* h has the value after each day, up to n.
SmoothsOver(n, rows, h) ==
  /\ h[0] = <<0, 1>>
  /\ \A k \in 0..n : k # n => h[k + 1] = Smoothed(rows, n - (k + 1), h[k])

\* Ewma goes through the days one after the other.
LEMMA EwmaRuns ==
  ASSUME LoopTypes, NEW missing
  PROVE  \E h : /\ SmoothsOver(LookbackDays + 1, DailyAges(missing), h)
                /\ Ewma(missing) = h[LookbackDays + 1]
<1> DEFINE n == LookbackDays + 1
           rows == DailyAges(missing)
           Solves(t) == t = [k \in 0..n |->
             IF k = 0 THEN <<0, 1>> ELSE Smoothed(rows, n - k, t[k - 1])]
           step == [k \in 1..n |-> [v \in Fraction |-> Smoothed(rows, n - k, v)]]
           h == CHOOSE t : Solves(t)
<1>1. n \in Nat /\ \A k \in 1..n : n - k \in 0..Horizon
  BY Windows
<1>2. <<0, 1>> \in Fraction
  BY DEF Fraction
<1>3. step \in [1..n -> [Fraction -> Fraction]]
  <2> HIDE DEF n, rows
  <2> QED BY <1>1, SmoothedType
<1>4. PICK g \in [0..n -> Fraction] : IsRecursion(n, <<0, 1>>, step, g)
  <2> HIDE DEF n, step
  <2> QED BY <1>1, <1>2, <1>3, RecursionExists
<1>5. Solves(g)
  <2> HIDE DEF n, rows
  <2>1. \A k \in 0..n : g[k] = IF k = 0 THEN <<0, 1>> ELSE Smoothed(rows, n - k, g[k - 1])
    <3> TAKE k \in 0..n
    <3>1. g[k] = IF k = 0 THEN <<0, 1>> ELSE step[k][g[k - 1]]
      <4> HIDE DEF step
      <4> QED BY <1>4 DEF IsRecursion
    <3>2. k # 0 => k - 1 \in 0..n /\ k \in 1..n /\ g[k - 1] \in Fraction
      BY <1>1
    <3> QED BY <3>1, <3>2
  <2>2. g = [k \in 0..n |-> g[k]]
    OBVIOUS
  <2> QED BY <2>1, <2>2
<1>6. Solves(h)
  <2> HIDE DEF Solves
  <2> QED BY <1>5
<1>7. Ewma(missing) = h[n]
  BY DEF Ewma
<1> HIDE DEF h, rows, n
<1>8. h[0] = <<0, 1>>
  BY <1>1, <1>6
<1>9. ASSUME NEW k \in 0..n, k # n
      PROVE  h[k + 1] = Smoothed(rows, n - (k + 1), h[k])
  <2>1. k + 1 \in 0..n /\ k + 1 # 0 /\ (k + 1) - 1 = k
    BY <1>1, <1>9
  <2> QED BY <1>6, <2>1
<1>10. SmoothsOver(n, rows, h)
  BY <1>8, <1>9 DEF SmoothsOver
<1> QED BY <1>7, <1>10 DEF n, rows

\* It computes a fraction.
LEMMA EwmaType ==
  ASSUME LoopTypes, NEW missing
  PROVE  Ewma(missing) \in Fraction
<1> DEFINE n == LookbackDays + 1
           rows == DailyAges(missing)
<1>1. PICK h : SmoothsOver(n, rows, h) /\ Ewma(missing) = h[n]
  BY EwmaRuns
<1>2. n \in Nat /\ \A k \in 0..n : k # n => n - (k + 1) \in 0..Horizon
  BY Windows
<1> HIDE DEF n, rows
<1> DEFINE S == {k \in 0..n : h[k] \in Fraction}
<1>3. 0 \in S
  <2>1. <<0, 1>> \in Fraction
    BY DEF Fraction
  <2> QED BY <1>1, <1>2, <2>1 DEF SmoothsOver
<1>4. \A k \in 0..n : k # n /\ k \in S => k + 1 \in S
  <2> SUFFICES ASSUME NEW k \in 0..n, k # n, k \in S PROVE k + 1 \in S
    OBVIOUS
  <2>1. k + 1 \in 0..n /\ h[k] \in Fraction /\ h[k + 1] = Smoothed(rows, n - (k + 1), h[k])
    BY <1>1, <1>2 DEF SmoothsOver
  <2>2. Smoothed(rows, n - (k + 1), h[k]) \in Fraction
    BY <1>2, <2>1, SmoothedType
  <2> QED BY <2>1, <2>2
<1>5. n \in 0..n
  BY <1>2
<1>6. n \in S
  <2> HIDE DEF S
  <2> QED BY <1>2, <1>3, <1>4, <1>5, UpTo
<1> QED BY <1>1, <1>6

\* It is zero without rows.
LEMMA NoRowsNoVelocity ==
  ASSUME LoopTypes, NEW missing, DailyAges(missing) = {}
  PROVE  Ewma(missing) = <<0, 1>>
<1> DEFINE n == LookbackDays + 1
<1>1. PICK h : SmoothsOver(n, {}, h) /\ Ewma(missing) = h[n]
  BY EwmaRuns
<1>2. n \in Nat
  BY Windows
<1> HIDE DEF n
<1> DEFINE S == {k \in 0..n : h[k] = <<0, 1>>}
<1>3. 0 \in S
  BY <1>1, <1>2 DEF SmoothsOver
<1>4. \A k \in 0..n : k # n /\ k \in S => k + 1 \in S
  <2> SUFFICES ASSUME NEW k \in 0..n, k # n, k \in S PROVE k + 1 \in S
    OBVIOUS
  <2>1. k + 1 \in 0..n /\ h[k + 1] = Smoothed({}, n - (k + 1), h[k])
    BY <1>1, <1>2 DEF SmoothsOver
  <2> QED BY <2>1 DEF Smoothed
<1>5. n \in 0..n
  BY <1>2
<1>6. n \in S
  <2> HIDE DEF S
  <2> QED BY <1>2, <1>3, <1>4, <1>5, UpTo
<1> QED BY <1>1, <1>6

-----------------------------------------------------------------------------
(* The snapshot and the forecast.                                          *)

\* Multiplication keeps the order.
LEMMA TimesMonotone ==
  ASSUME NEW x \in Nat, NEW y \in Nat, NEW z \in Nat, x <= y
  PROVE  x * z <= y * z
<1>1. PICK k \in Nat : y = x + k
  <2>1. y - x \in Nat /\ y = x + (y - x)
    OBVIOUS
  <2> QED BY <2>1
<1>2. y * z = x * z + k * z
  BY <1>1
<1>3. x * z \in Nat /\ k * z \in Nat
  BY <1>1
<1> QED BY <1>2, <1>3

\* The month to date, as it is seen without the missing tables.
LEMMA MonthToDateSeen ==
  ASSUME LoopTypes, NEW missing
  PROVE  /\ MonthToDate(missing) \in Nat /\ MonthToDate({}) \in Nat
         /\ MonthToDate(missing) <= MonthToDate({})
<1>1. UsageOf(BilledDays) \in Nat /\ UsageOf(TokenWindow) \in Nat
  BY UsageNat
<1> QED BY <1>1 DEF MonthToDate, Billed, RecentEstimate

\* No usage of the month escapes the full telemetry, as long as a day is billed
\* before it leaves the window of the token estimate.
LEMMA NothingUnseen ==
  ASSUME LoopTypes
  PROVE  MonthToDateBracketed
<1> SUFFICES ASSUME BillingLag <= LookbackDays
             PROVE  /\ Spent <= MonthToDate({})
                    /\ MonthToDate({}) <= Spent + UsageOf(TokenWindow)
  BY DEF MonthToDateBracketed
<1>1. MonthToDate({}) = UsageOf(BilledDays) + UsageOf(TokenWindow)
  BY DEF MonthToDate, Billed, RecentEstimate
<1>2. ThisMonth \cap 0..Horizon \subseteq BilledDays \cup TokenWindow
  <2> SUFFICES ASSUME NEW a \in ThisMonth \cap 0..Horizon
               PROVE  a \in BilledDays \cup TokenWindow
    OBVIOUS
  <2>1. CASE a >= BillingLag
    BY <2>1 DEF BilledDays
  <2>2. CASE ~ (a >= BillingLag)
    <3>1. a \in 0..(LookbackDays - 1)
      BY <2>2, Windows
    <3> QED BY <3>1 DEF TokenWindow
  <2> QED BY <2>1, <2>2
<1>3. Spent <= UsageOf(BilledDays) + UsageOf(TokenWindow)
  BY <1>2, UsageCovered DEF Spent
<1>4. UsageOf(BilledDays) <= Spent
  <2>1. BilledDays \cap 0..Horizon \subseteq ThisMonth
    BY DEF BilledDays
  <2> QED BY <2>1, UsageMonotone DEF Spent
<1>5. Spent \in Nat /\ UsageOf(BilledDays) \in Nat /\ UsageOf(TokenWindow) \in Nat
  BY UsageNat DEF Spent
<1> QED BY <1>1, <1>3, <1>4, <1>5

\* Usage that all tables together do not show is not today's.
LEMMA StaleMeansUnused ==
  ASSUME LoopTypes, Stale({})
  PROVE  usage[0] = 0
<1>1. UsageOf(TokenWindow) = 0
  BY DEF Stale, RecentEstimate
<1>2. 0 \in TokenWindow
  BY Windows DEF TokenWindow
<1>3. usage[0] <= 0
  BY <1>1, <1>2, TodayCounts
<1>4. usage[0] \in Nat
  BY Windows DEF LoopTypes
<1> QED BY <1>3, <1>4

\* The quotient of Utilization: m the month to date, e / d the daily velocity, r
\* the days that remain, t the target.
LEMMA Quotient ==
  ASSUME NEW m \in Nat, NEW e \in Nat, NEW d \in Nat \ {0}, NEW r \in Nat, NEW t \in Nat \ {0}
  PROVE  /\ (100 * (m * d + e * r)) \div (t * d) \in Nat
         /\ \A th \in Nat :
              (100 * (m * d + e * r)) \div (t * d) < th => 100 * m < th * t
         /\ \A n \in Nat : n <= m =>
              /\ (100 * (n * d + e * r)) \div (t * d) <= (100 * (m * d + e * r)) \div (t * d)
              /\ (100 * n) \div t <= (100 * (m * d + e * r)) \div (t * d)
<1> DEFINE X(n) == 100 * (n * d + e * r)
           y == t * d
<1>1. \A n \in Nat : X(n) \in Nat
  <2>1. \A p, q \in Nat : p * q \in Nat
    OBVIOUS
  <2> QED BY <2>1
<1>2. y \in Nat \ {0}
  OBVIOUS
<1>3. \A n \in Nat : (100 * n) * d <= X(n)
  <2> TAKE n \in Nat
  <2>1. n * d \in Nat /\ e * r \in Nat
    OBVIOUS
  <2>2. X(n) = 100 * (n * d) + 100 * (e * r) /\ (100 * n) * d = 100 * (n * d)
    BY <2>1
  <2> QED BY <2>1, <2>2
<1>4. \A n \in Nat : n <= m => X(n) <= X(m)
  <2> SUFFICES ASSUME NEW n \in Nat, n <= m PROVE X(n) <= X(m)
    OBVIOUS
  <2>1. n * d <= m * d
    BY TimesMonotone
  <2>2. n * d \in Nat /\ m * d \in Nat /\ e * r \in Nat
    OBVIOUS
  <2> QED BY <2>1, <2>2
<1>5. \A q \in Nat : q * y = (q * t) * d
  OBVIOUS
<1> HIDE DEF X, y
<1>6. X(m) \div y \in Nat
  BY <1>1, <1>2, DivBounds
<1>7. \A th \in Nat : X(m) \div y < th => 100 * m < th * t
  <2> SUFFICES ASSUME NEW th \in Nat, X(m) \div y < th, ~ (100 * m < th * t)
               PROVE  FALSE
    OBVIOUS
  <2>0. th * t <= 100 * m
    <3>1. th * t \in Nat /\ 100 * m \in Nat
      OBVIOUS
    <3> QED BY <3>1
  <2>1. (th * t) * d <= (100 * m) * d
    <3>1. th * t \in Nat /\ 100 * m \in Nat
      OBVIOUS
    <3> QED BY <2>0, <3>1, TimesMonotone
  <2>2. th * y <= X(m)
    <3>1. th * y \in Nat /\ (100 * m) * d \in Nat /\ X(m) \in Nat
      BY <1>1, <1>2
    <3>2. th * y <= (100 * m) * d /\ (100 * m) * d <= X(m)
      BY <1>3, <1>5, <2>1
    <3>3. \A i, j, k \in Nat : i <= j /\ j <= k => i <= k
      OBVIOUS
    <3> QED BY ONLY <3>1, <3>2, <3>3
  <2>3. th <= X(m) \div y
    BY <1>1, <1>2, <2>2, DivAtLeast
  <2> QED BY <1>6, <2>3
<1>8. ASSUME NEW n \in Nat, n <= m
      PROVE  X(n) \div y <= X(m) \div y /\ (100 * n) \div t <= X(m) \div y
  <2>1. X(n) <= X(m) /\ (100 * n) * d <= X(n) /\ X(n) \in Nat /\ X(m) \in Nat
    BY <1>1, <1>3, <1>4, <1>8
  <2>2. X(n) \div y <= X(m) \div y
    <3> DEFINE q == X(n) \div y
    <3>1. q \in Nat /\ q * y <= X(n)
      BY <1>2, <2>1, DivBounds
    <3> HIDE DEF q
    <3>2. q * y \in Nat
      BY <1>2, <3>1
    <3>3. q * y <= X(m)
      BY <2>1, <3>1, <3>2
    <3>4. q <= X(m) \div y
      BY <1>2, <2>1, <3>1, <3>3, DivAtLeast
    <3> QED BY <3>4 DEF q
  <2>3. (100 * n) \div t <= X(m) \div y
    <3> DEFINE q == (100 * n) \div t
    <3>1. q \in Nat /\ q * t <= 100 * n
      <4>1. 100 * n \in Nat
        OBVIOUS
      <4> QED BY <4>1, DivBounds
    <3> HIDE DEF q
    <3>2. q * t \in Nat /\ 100 * n \in Nat
      BY <3>1
    <3>3. (q * t) * d <= (100 * n) * d
      BY <3>1, <3>2, TimesMonotone
    <3>4. q * y <= X(m)
      <4>1. q * y \in Nat /\ (100 * n) * d \in Nat
        BY <1>2, <3>1, <3>2
      <4> QED BY <1>5, <2>1, <3>1, <3>3, <4>1
    <3>5. q <= X(m) \div y
      BY <1>2, <2>1, <3>1, <3>4, DivAtLeast
    <3> QED BY <3>5 DEF q
  <2> QED BY <2>2, <2>3
<1> QED BY <1>6, <1>7, <1>8 DEF X, y

\* What a forecast makes of the month to date.
LEMMA UtilizationSeen ==
  ASSUME LoopTypes, NEW missing
  PROVE  /\ Utilization(missing) \in Nat
         /\ Utilization(missing) <= Utilization({})
         /\ \A th \in Nat : Utilization({}) < th => 100 * MonthToDate({}) < th * Target
<1> DEFINE n == MonthToDate(missing)
           m == MonthToDate({})
           r == MonthDays - day
<1>1. n \in Nat /\ m \in Nat /\ n <= m
  BY MonthToDateSeen
<1>2. r \in Nat /\ Target \in Nat \ {0}
  BY Windows DEF LoopTypes
<1>3. PICK e \in Nat, d \in Nat \ {0} : Ewma({}) = <<e, d>>
  BY EwmaType DEF Fraction
<1>4. PICK f \in Nat, c \in Nat \ {0} : Ewma(missing) = <<f, c>>
  BY EwmaType DEF Fraction
<1>5. Utilization({}) = (100 * (m * d + e * r)) \div (Target * d)
  BY <1>3 DEF Utilization
<1>6. Utilization(missing) = (100 * (n * c + f * r)) \div (Target * c)
  BY <1>4 DEF Utilization
<1> HIDE DEF n, m, r
<1>7. Utilization(missing) \in Nat
  BY <1>1, <1>2, <1>6, Quotient
<1>8. \A th \in Nat : Utilization({}) < th => 100 * m < th * Target
  BY <1>1, <1>2, <1>5, Quotient
<1>9. Utilization(missing) <= Utilization({})
  <2>1. CASE "daily" \in missing
    <3>1. DailyAges(missing) = {}
      BY <2>1 DEF DailyAges
    <3>2. Ewma(missing) = <<0, 1>>
      BY <3>1, NoRowsNoVelocity
    <3>3. f = 0 /\ c = 1
      BY <1>4, <3>2
    <3>4. Utilization(missing) = (100 * n) \div Target
      <4>1. 100 * (n * 1 + 0 * r) = 100 * n /\ Target * 1 = Target
        BY <1>1, <1>2
      <4> QED BY <1>6, <3>3, <4>1
    <3> QED BY <1>1, <1>2, <1>5, <3>4, Quotient
  <2>2. CASE "daily" \notin missing
    <3>1. DailyAges(missing) = DailyAges({})
      BY <2>2 DEF DailyAges
    <3>2. Ewma(missing) = Ewma({})
      BY <3>1 DEF Ewma
    <3>3. Utilization(missing) = (100 * (n * d + e * r)) \div (Target * d)
      BY <1>3, <3>2 DEF Utilization, n, r
    <3> QED BY <1>1, <1>2, <1>5, <3>3, Quotient
  <2> QED BY <2>1, <2>2
<1> QED BY <1>7, <1>8, <1>9 DEF m

\* Queries that return nothing never make the governor select a higher stage.
LEMMA NothingTightens ==
  ASSUME LoopTypes
  PROVE  MissingRowsNeverTighten
<1> SUFFICES ASSUME NEW missing \in SUBSET Queries
             PROVE  NextStage(Utilization(missing)) <= NextStage(Utilization({}))
  BY DEF MissingRowsNeverTighten
<1>1. Utilization(missing) \in Nat /\ Utilization({}) \in Nat
      /\ Utilization(missing) <= Utilization({})
  BY UtilizationSeen
<1>2. stage \in StageOrNone
  BY DEF LoopTypes
<1> QED BY <1>1, <1>2, SelectionMonotone DEF NextStage

\* The last stage has a threshold.
LEMMA LastThresholdType == Threshold[NumStages] \in Nat
<1>1. NumStages \in Stages
  BY StageConstants DEF Stages
<1>2. Threshold[NumStages] \in 1..100
  BY <1>1, StageConstants
<1> QED BY <1>2

\* The bound is a number of cents.
LEMMA LimitType == Threshold[NumStages] * Target \in Nat
<1>1. Threshold[NumStages] \in Nat
  BY LastThresholdType
<1> QED BY <1>1, Windows

\* A full reading that does not select the last stage is one of a month whose
\* spend is below the threshold of this stage.
LEMMA NotLastMeansBelow ==
  ASSUME LoopTypes, BillingLag <= LookbackDays,
         NextStage(Utilization({})) # NumStages
  PROVE  100 * Spent < Threshold[NumStages] * Target
<1>1. Utilization({}) \in Nat /\ stage \in StageOrNone
  BY UtilizationSeen DEF LoopTypes
<1>2. Utilization({}) < Threshold[NumStages]
  BY <1>1, BelowLastThreshold DEF NextStage
<1>3. Threshold[NumStages] \in Nat
  BY LastThresholdType
<1>4. 100 * MonthToDate({}) < Threshold[NumStages] * Target
  BY <1>2, <1>3, UtilizationSeen
<1>5. Spent <= MonthToDate({}) /\ Spent \in Nat /\ MonthToDate({}) \in Nat
  BY NothingUnseen, UsageNat, MonthToDateSeen DEF MonthToDateBracketed, Spent
<1>6. Threshold[NumStages] * Target \in Nat
  BY LimitType
<1>7. \A p, q, k \in Nat : p <= q /\ 100 * q < k => 100 * p < k
  OBVIOUS
<1> QED BY ONLY <1>4, <1>5, <1>6, <1>7

-----------------------------------------------------------------------------
(* The spend of the month.                                                 *)

\* A day adds its usage to the spend of the month, or begins a month.
LEMMA SpentAfterDay ==
  ASSUME LoopTypes, NEW u \in 0..MaxUsage,
         usage' = [a \in 0..Horizon |-> IF a = 0 THEN u ELSE usage[a - 1]],
         day' = NextDay
  PROVE  /\ Spent' \in Nat /\ Spent \in Nat
         /\ Spent' <= u + Spent
         /\ day' = 1 => Spent' <= u
<1> DEFINE n == Horizon + 1
           c == Rows(ThisMonth)
           d == [k \in 1..n |-> IF k - 1 \in 0..(day' - 1) THEN usage'[k - 1] ELSE 0]
           z == [k \in 1..n |-> 0]
<1>1. n \in Nat \ {0} /\ u \in Nat
  BY Windows
<1>2. c \in [1..n -> Nat] /\ Spent = Total(n, c)
  BY RowsType DEF Spent
<1>3. Spent' = Total(n, d)
  BY DEF Spent, UsageOf, ThisMonth
<1>4. day' \in 1..MonthDays /\ (day' # 1 => day' = day + 1) /\ day \in 1..MonthDays
  <2>1. day \in 1..MonthDays /\ MonthDays \in Nat \ {0}
    BY Windows DEF LoopTypes
  <2>2. CASE day = MonthDays
    <3>1. day % MonthDays = 0
      BY <2>1, <2>2
    <3> QED BY <2>1, <2>2, <3>1 DEF NextDay
  <2>3. CASE day # MonthDays
    <3>1. day % MonthDays = day
      BY <2>1, <2>3
    <3> QED BY <2>1, <2>3, <3>1 DEF NextDay
  <2> QED BY <2>2, <2>3
<1>5. \A k \in 1..n : k - 1 \in 0..Horizon
                      /\ usage'[k - 1] = IF k = 1 THEN u ELSE usage[k - 2]
  <2> TAKE k \in 1..n
  <2>1. k - 1 \in 0..Horizon /\ (k - 1) - 1 = k - 2 /\ (k - 1 = 0 <=> k = 1)
    BY Windows
  <2> QED BY <2>1
<1>6. \A k \in 1..n : k # 1 => usage[k - 2] \in Nat
  <2> SUFFICES ASSUME NEW k \in 1..n, k # 1 PROVE usage[k - 2] \in Nat
    OBVIOUS
  <2>1. k - 2 \in 0..Horizon
    BY Windows
  <2> QED BY <2>1, Windows DEF LoopTypes
<1>7. d \in [1..n -> Nat] /\ d[1] = u
  <2>1. \A k \in 1..n : usage'[k - 1] \in Nat
    BY <1>1, <1>5, <1>6
  <2>2. 1 \in 1..n /\ 1 - 1 = 0 /\ 0 \in 0..(day' - 1) /\ 0 \in 0..Horizon
    BY <1>1, <1>4, Windows
  <2>3. usage'[0] = u
    <3>1. 0 \in 0..Horizon
      BY <2>2
    <3> QED BY ONLY <3>1, usage' = [a \in 0..Horizon |-> IF a = 0 THEN u ELSE usage[a - 1]]
  <2>4. d[1] = u
    <3>1. d[1] = IF 1 - 1 \in 0..(day' - 1) THEN usage'[1 - 1] ELSE 0
      BY <2>2
    <3> HIDE DEF d
    <3> QED BY <2>2, <2>3, <3>1
  <2>5. d \in [1..n -> Nat]
    BY <2>1
  <2> QED BY <2>4, <2>5
<1>8. \A i \in 1..n : i # n => d[i + 1] <= c[i]
  <2> SUFFICES ASSUME NEW i \in 1..n, i # n PROVE d[i + 1] <= c[i]
    OBVIOUS
  <2>1. /\ i + 1 \in 1..n /\ i + 1 # 1 /\ (i + 1) - 1 = i /\ (i + 1) - 2 = i - 1
        /\ i - 1 \in 0..Horizon
    BY Windows
  <2>2. usage'[i] = usage[i - 1] /\ usage[i - 1] \in Nat
    <3>1. usage'[(i + 1) - 1] = usage[(i + 1) - 2] /\ usage[(i + 1) - 2] \in Nat
      BY <1>5, <1>6, <2>1
    <3> QED BY <2>1, <3>1
  <2>3. d[i + 1] = IF i \in 0..(day' - 1) THEN usage[i - 1] ELSE 0
    BY <2>1, <2>2
  <2>4. c[i] = IF i - 1 \in 0..(day - 1) THEN usage[i - 1] ELSE 0
    BY DEF Rows, ThisMonth
  <2>5. i \in 0..(day' - 1) => i - 1 \in 0..(day - 1)
    BY <1>4
  <2> HIDE DEF c, d
  <2> QED BY <2>2, <2>3, <2>4, <2>5
<1>9. Total(n, d) <= u + Total(n, c)
  <2> HIDE DEF n, c, d
  <2> QED BY <1>1, <1>2, <1>7, <1>8, TotalShifted
<1>10. ASSUME day' = 1 PROVE Total(n, d) <= u
  <2>1. \A i \in 1..n : i # n => d[i + 1] <= z[i]
    <3> SUFFICES ASSUME NEW i \in 1..n, i # n PROVE d[i + 1] <= z[i]
      OBVIOUS
    <3>1. i + 1 \in 1..n /\ ~ ((i + 1) - 1 \in 0..(day' - 1))
      BY <1>1, <1>10
    <3>2. d[i + 1] = 0
      BY <3>1
    <3> QED BY <3>2
  <2>2. z \in [1..n -> Nat] /\ \A i \in 1..n : z[i] = 0
    OBVIOUS
  <2> HIDE DEF n, d, z
  <2>3. Total(n, z) = 0
    BY <1>1, <2>2, TotalZero
  <2>4. Total(n, d) <= u + Total(n, z)
    BY <1>1, <1>7, <2>1, <2>2, TotalShifted
  <2> QED BY <1>1, <2>3, <2>4
<1>11. Total(n, d) \in Nat /\ Total(n, c) \in Nat
  <2> HIDE DEF n, c, d
  <2> QED BY <1>1, <1>2, <1>7, TotalNat
<1> QED BY <1>2, <1>3, <1>9, <1>10, <1>11

\* Between an evaluation that did not select the last stage and the next, the
\* spend is below the threshold but for the evaluations that did not see it and
\* the day that has gone by.
SpendBelow ==
  NumStages \in Blocking /\ BillingLag <= LookbackDays /\ stage # NumStages =>
    100 * Spent <= Threshold[NumStages] * Target + 100 * MaxUsage * blind
                     + IF phase = "use" THEN 0 ELSE 100 * usage[0]

SpendInv == LoopTypes /\ SpendBounded /\ SpendBelow

\* Initially nothing has been spent.
LEMMA InitSpendInv == LoopInit => SpendInv
<1> SUFFICES ASSUME LoopInit PROVE SpendInv
  OBVIOUS
<1>1. LoopTypes
  BY Windows, StageConstants DEF LoopInit, LoopTypes, StageOrNone
<1>2. Spent = 0
  <2>1. \A k \in 1..(Horizon + 1) : Rows(ThisMonth)[k] = 0
    <3> TAKE k \in 1..(Horizon + 1)
    <3>1. k - 1 \in 0..Horizon
      BY Windows
    <3> QED BY <3>1 DEF LoopInit, Rows
  <2>2. Horizon + 1 \in Nat
    BY Windows
  <2> QED BY <1>1, <2>1, <2>2, RowsType, TotalZero DEF Spent
<1>3. Threshold[NumStages] * Target \in Nat
  BY LimitType
<1>4. 100 * Spent = 0 /\ phase = "use" /\ blind = 0
  BY <1>2 DEF LoopInit
<1>5. 100 * MaxUsage \in Nat
  BY Windows
<1>6. SpendBounded
  BY <1>3, <1>4, <1>5 DEF SpendBounded
<1>7. SpendBelow
  BY <1>3, <1>4, <1>5 DEF SpendBelow
<1> QED BY <1>1, <1>6, <1>7 DEF SpendInv

\* A day of usage.
LEMMA UseADayStep == SpendInv /\ UseADay => SpendInv'
<1> SUFFICES ASSUME SpendInv, UseADay PROVE SpendInv'
  OBVIOUS
<1> DEFINE B == Threshold[NumStages] * Target
           L == 100 * MaxUsage
<1>1. PICK u \in Usages :
        /\ u <= Allowed(stage)
        /\ usage' = [a \in 0..Horizon |-> IF a = 0 THEN u ELSE usage[a - 1]]
  BY DEF UseADay
<1>2. u \in 0..MaxUsage /\ u \in Nat /\ MaxUsage \in Nat
  BY SpendLoopConstants, Windows
<1>3. /\ phase = "use" /\ phase' = "evaluate" /\ day' = NextDay /\ stage' = stage
      /\ trusted' = trusted /\ blind' = IF day' = 1 THEN 0 ELSE blind
      /\ blind \in Nat /\ LoopTypes
  BY DEF UseADay, SpendInv, LoopTypes
<1>4. LoopTypes'
  <2>1. \A a \in 0..Horizon : a # 0 => a - 1 \in 0..Horizon /\ usage[a - 1] \in 0..MaxUsage
    BY <1>3, Windows DEF LoopTypes
  <2>2. usage' \in [0..Horizon -> 0..MaxUsage]
    BY <1>1, <1>2, <2>1
  <2>3. NextDay \in 1..MonthDays
    BY <1>3, Windows DEF LoopTypes, NextDay
  <2> QED BY <1>3, <2>2, <2>3 DEF LoopTypes
<1>5. /\ Spent' \in Nat /\ Spent \in Nat
      /\ Spent' <= u + Spent /\ (day' = 1 => Spent' <= u)
  BY <1>1, <1>2, <1>3, SpentAfterDay
<1>6. usage'[0] = u
  <2>1. 0 \in 0..Horizon
    BY Windows
  <2> QED BY <1>1, <2>1
<1>7. B \in Nat /\ L \in Nat /\ 100 * u <= L
  BY <1>2, LimitType
<1>8. ASSUME NumStages \in Blocking, BillingLag <= LookbackDays
      PROVE  /\ 100 * Spent' <= B + L * (1 + blind')
             /\ stage # NumStages => 100 * Spent' <= B + L * blind' + 100 * u
  <2>1. L * blind \in Nat /\ L * (1 + blind) = L + L * blind
        /\ L * 0 = 0 /\ L * (1 + 0) = L
    <3> HIDE DEF L
    <3> QED BY <1>3, <1>7
  <2>2. CASE day' = 1
    <3>1. blind' = 0 /\ Spent' <= u
      BY <1>3, <1>5, <2>2
    <3>2. \A x, v, b, l \in Nat : x <= v /\ 100 * v <= l =>
            100 * x <= b + l /\ 100 * x <= b + 0 + 100 * v
      OBVIOUS
    <3> HIDE DEF B, L
    <3>3. 100 * Spent' <= B + L /\ 100 * Spent' <= B + 0 + 100 * u
      BY ONLY <1>2, <1>5, <1>7, <3>1, <3>2
    <3>4. L * (1 + blind') = L /\ L * blind' = 0
      BY <2>1, <3>1
    <3> QED BY <3>3, <3>4
  <2>3. CASE day' # 1 /\ stage = NumStages
    <3>1. blind' = blind
      BY <1>3, <2>3
    <3>2. u = 0
      BY <1>1, <1>2, <1>8, <2>3 DEF Allowed
    <3>3. 100 * Spent <= B + L * (1 + blind)
      BY <1>8 DEF SpendInv, SpendBounded
    <3> HIDE DEF B, L
    <3> QED BY <1>5, <1>7, <2>1, <2>3, <3>1, <3>2, <3>3
  <2>4. CASE day' # 1 /\ stage # NumStages
    <3>1. blind' = blind
      BY <1>3, <2>4
    <3>2. 100 * Spent <= B + L * blind + 0
      BY <1>3, <1>8, <2>4 DEF SpendInv, SpendBelow
    <3> HIDE DEF B, L
    <3> QED BY <1>2, <1>5, <1>7, <2>1, <2>4, <3>1, <3>2
  <2> QED BY <2>2, <2>3, <2>4
<1>9. SpendBounded'
  BY <1>8 DEF SpendBounded
<1>10. SpendBelow'
  BY <1>3, <1>6, <1>8 DEF SpendBelow
<1> QED BY <1>4, <1>9, <1>10 DEF SpendInv

\* An evaluation, or none, that ends the day: it changes no usage, and a blind
\* one is counted.
LEMMA EndOfDay ==
  ASSUME SpendInv, phase = "evaluate", phase' = "use", usage' = usage, day' = day,
         stage' \in StageOrNone, trusted' \in BOOLEAN, blind' \in {blind, blind + 1},
         blind' = blind /\ stage' # NumStages
           => \/ 100 * Spent <= Threshold[NumStages] * Target + 100 * MaxUsage * blind
              \/ ~ (NumStages \in Blocking /\ BillingLag <= LookbackDays)
  PROVE  SpendInv'
<1> DEFINE B == Threshold[NumStages] * Target
           L == 100 * MaxUsage
<1>1. LoopTypes'
  BY DEF SpendInv, LoopTypes
<1>2. Spent' = Spent
  BY DEF Spent, UsageOf, ThisMonth
<1>3. Spent \in Nat /\ blind \in Nat /\ B \in Nat /\ L \in Nat
  BY UsageNat, LimitType, Windows DEF SpendInv, LoopTypes, Spent
<1>4. ASSUME NumStages \in Blocking, BillingLag <= LookbackDays
      PROVE  /\ 100 * Spent <= B + L * (1 + blind')
             /\ stage' # NumStages => 100 * Spent <= B + L * blind'
  <2>1. 100 * Spent <= B + L * (1 + blind)
    BY <1>4 DEF SpendInv, SpendBounded
  <2>2. CASE blind' = blind
    BY <1>4, <2>1, <2>2
  <2>3. CASE blind' = blind + 1
    <3>1. L * (1 + blind) \in Nat /\ L * (1 + (blind + 1)) = L + L * (1 + blind)
          /\ L * (blind + 1) = L * (1 + blind)
      <4> HIDE DEF L
      <4> QED BY <1>3
    <3> HIDE DEF B, L
    <3> QED BY <1>3, <2>1, <2>3, <3>1
  <2> QED BY <2>2, <2>3
<1>5. SpendBounded'
  BY <1>2, <1>4 DEF SpendBounded
<1>6. SpendBelow'
  <2>1. \A x \in Nat, y \in Nat : B + y \in Nat /\ (x <= B + y => x <= B + y + 0)
    BY <1>3
  <2>2. blind' \in Nat /\ L * blind' \in Nat /\ 100 * Spent \in Nat
    <3>1. blind' \in Nat
      BY <1>3
    <3>2. \A x, y \in Nat : x * y \in Nat
      OBVIOUS
    <3> QED BY <1>3, <3>1, <3>2
  <2>3. SUFFICES ASSUME NumStages \in Blocking, BillingLag <= LookbackDays, stage' # NumStages
                 PROVE  100 * Spent <= B + L * blind' + 0
    BY <1>2 DEF SpendBelow
  <2>4. 100 * Spent <= B + L * blind'
    BY <1>4, <2>3
  <2> HIDE DEF B, L
  <2> QED BY <2>1, <2>2, <2>4
<1> QED BY <1>1, <1>5, <1>6 DEF SpendInv

\* The decision of an evaluation that saw every table.
LEMMA SeeingDecision ==
  ASSUME SpendInv, phase = "evaluate", NumStages \in Blocking, BillingLag <= LookbackDays,
         stage' = IF Stale({}) THEN stage ELSE NextStage(Utilization({})), stage' # NumStages
  PROVE  100 * Spent <= Threshold[NumStages] * Target + 100 * MaxUsage * blind
<1> DEFINE B == Threshold[NumStages] * Target
           P == 100 * MaxUsage * blind
<1>1. LoopTypes
  BY DEF SpendInv
<1>2. B \in Nat /\ P \in Nat /\ Spent \in Nat
  <2>1. \A x, y \in Nat : 100 * x * y \in Nat
    OBVIOUS
  <2>2. MaxUsage \in Nat /\ blind \in Nat
    BY <1>1, Windows DEF LoopTypes
  <2> QED BY <1>1, <2>1, <2>2, LimitType, UsageNat DEF Spent
<1>3. CASE Stale({})
  <2>1. stage # NumStages /\ usage[0] = 0
    BY <1>1, <1>3, StaleMeansUnused
  <2>2. 100 * Spent <= B + P + 100 * 0
    BY <2>1 DEF SpendInv, SpendBelow
  <2> HIDE DEF B, P
  <2> QED BY <1>2, <2>2 DEF B, P
<1>4. CASE ~ Stale({})
  <2>1. 100 * Spent < B
    BY <1>1, <1>4, NotLastMeansBelow
  <2>2. \A x, b, p \in Nat : 100 * x < b => 100 * x <= b + p
    OBVIOUS
  <2> QED BY ONLY <1>2, <2>1, <2>2
<1> QED BY <1>3, <1>4

\* Every step keeps the invariant.
LEMMA NextSpendInv == SpendInv /\ [LoopNext]_loopVars => SpendInv'
<1> SUFFICES ASSUME SpendInv, [LoopNext]_loopVars PROVE SpendInv'
  OBVIOUS
<1>0. LoopTypes
  BY DEF SpendInv
<1>1. CASE UseADay
  BY <1>1, UseADayStep
<1>2. CASE Evaluate
  <2>1. PICK missing \in SUBSET Queries :
          \/ /\ stage' = IF Stale(missing) THEN stage ELSE NextStage(Utilization(missing))
             /\ trusted' = (missing = {})
          \/ /\ ~Stale(missing) /\ trusted' = FALSE
             /\ \E p \in Predictions : stage' = NextStage(p)
    BY <1>2 DEF Evaluate
  <2>2. /\ phase = "evaluate" /\ phase' = "use" /\ usage' = usage /\ day' = day
        /\ blind' = IF trusted' THEN blind ELSE blind + 1
    BY <1>2 DEF Evaluate
  <2>3. stage' \in StageOrNone
    <3>1. \A p \in Nat : NextStage(p) \in StageOrNone
      BY <1>0, SelectedIsStage DEF NextStage, LoopTypes
    <3>2. stage \in StageOrNone /\ Utilization(missing) \in Nat /\ Predictions \subseteq Nat
      BY <1>0, UtilizationSeen, SpendLoopConstants DEF LoopTypes
    <3> QED BY <2>1, <3>1, <3>2
  <2>4. trusted' \in BOOLEAN
    BY <2>1
  <2>5. CASE trusted'
    <3>1. stage' = IF Stale({}) THEN stage ELSE NextStage(Utilization({}))
      BY <2>1, <2>5
    <3>2. blind' = blind
      BY <2>2, <2>5
    <3>3. stage' # NumStages
            => \/ 100 * Spent <= Threshold[NumStages] * Target + 100 * MaxUsage * blind
               \/ ~ (NumStages \in Blocking /\ BillingLag <= LookbackDays)
      BY <2>2, <3>1, SeeingDecision
    <3> QED BY <2>2, <2>3, <2>4, <3>2, <3>3, EndOfDay
  <2>6. CASE ~ trusted'
    <3>1. blind' = blind + 1 /\ blind \in Nat
      BY <1>0, <2>2, <2>6 DEF LoopTypes
    <3>2. blind' # blind
      BY <3>1
    <3> QED BY <2>2, <2>3, <2>4, <3>1, <3>2, EndOfDay
  <2> QED BY <2>5, <2>6
<1>3. CASE EvaluationFails
  <2>1. /\ phase = "evaluate" /\ phase' = "use" /\ usage' = usage /\ day' = day
        /\ stage' = stage /\ trusted' = FALSE /\ blind' = blind + 1
    BY <1>3 DEF EvaluationFails
  <2>2. stage' \in StageOrNone /\ blind \in Nat
    BY <1>0, <2>1 DEF LoopTypes
  <2>3. blind' # blind
    BY <2>1, <2>2
  <2> QED BY <2>1, <2>2, <2>3, EndOfDay
<1>4. CASE UNCHANGED loopVars
  <2>1. LoopTypes'
    BY <1>0, <1>4 DEF LoopTypes, loopVars
  <2>2. Spent' = Spent
    BY <1>4 DEF Spent, UsageOf, ThisMonth, loopVars
  <2>3. SpendBounded' /\ SpendBelow'
    BY <1>4, <2>2 DEF SpendInv, SpendBounded, SpendBelow, loopVars
  <2> QED BY <2>1, <2>3 DEF SpendInv
<1> QED BY <1>1, <1>2, <1>3, <1>4 DEF LoopNext

-----------------------------------------------------------------------------
\* Every behaviour of the loop keeps the invariant.
THEOREM SpendInvariant == LoopSpec => []SpendInv
<1> QED BY InitSpendInv, NextSpendInv, PTL DEF LoopSpec

\* The month's spend stays within a day's usage of the threshold of the last
\* stage when this one blocks, and a day's more for each evaluation that did not
\* see every table: whatever is used, billed late, missing or predicted.
THEOREM SpendStaysBounded == LoopSpec => []SpendBounded
<1>1. SpendInv => SpendBounded
  BY DEF SpendInv
<1> QED BY <1>1, SpendInvariant, PTL

\* The month to date of the snapshot covers what was spent in the month, and
\* counts at most the lookback window twice.
THEOREM MonthToDateCoversSpend == LoopSpec => []MonthToDateBracketed
<1>1. SpendInv => MonthToDateBracketed
  BY NothingUnseen DEF SpendInv
<1> QED BY <1>1, SpendInvariant, PTL

\* Tables that do not answer never select a higher stage.
THEOREM MissingTablesNeverTighten == LoopSpec => []MissingRowsNeverTighten
<1>1. SpendInv => MissingRowsNeverTighten
  BY NothingTightens DEF SpendInv
<1> QED BY <1>1, SpendInvariant, PTL

=============================================================================
