----------------------------- MODULE FleetProofs -----------------------------
(***************************************************************************)
(* The governors of a bundle, for any number of them, of stages and of     *)
(* identities: types, and what it takes to take a block back.              *)
(***************************************************************************)
EXTENDS Fleet, WellFoundedInduction, TLAPS

\* A governor without a row has no stage, and one that is about to relax had
\* its last change Cooldown ago.
FleetInv ==
  /\ FleetTypeOK
  /\ \A g \in Governors : rows[g].present \/ rows[g].stage = 0
  /\ phase = "commit" /\ pass # 0 =>
       (selected < rows[pass].stage => rows[pass].age = Cooldown)

\* What the constants are, in the words of the proofs below.
LEMMA FleetConstantsAreNat ==
  /\ NumGovernors \in Nat \ {0} /\ NumStages \in Nat \ {0} /\ Cooldown \in Nat
  /\ Readings \subseteq Nat /\ 0 \in StageOrNone
BY FleetConstants, StageConstants DEF StageOrNone

\* A set of stages that is not empty has a last one.
LEMMA LastStage ==
  ASSUME NEW R \in SUBSET Stages, R # {}
  PROVE  \E i \in R : \A j \in R : j <= i
<1> DEFINE Above == {m \in Nat : \A j \in R : j <= m}
           Order == OpToRel(<, Nat)
<1>1. NumStages \in Above /\ \A j \in R : j \in 1..NumStages
  BY StageConstants DEF Stages
<1>2. PICK m \in Above : \A k \in Above : ~ (<<k, m>> \in Order)
  <2>1. IsWellFoundedOn(Order, Nat)
    BY NatLessThanWellFounded, Zenon DEF OpToRel
  <2>2. Above \subseteq Nat /\ Above # {}
    BY <1>1
  <2> HIDE DEF Above, Order
  <2> QED BY <2>1, <2>2, WFMin
<1>3. \A k \in Above : ~ (k < m)
  BY <1>2 DEF OpToRel
<1>4. m # 0
  BY <1>1
<1>5. m - 1 \in Nat /\ m - 1 < m
  BY <1>4
<1>6. PICK i \in R : ~ (i <= m - 1)
  BY <1>3, <1>5
<1>7. i = m
  BY <1>1, <1>5, <1>6
<1> QED BY <1>7

\* The selection is a stage of the policy, or none.
LEMMA SelectedIsStage ==
  ASSUME NEW util \in Nat, NEW active \in StageOrNone
  PROVE  SelectStage(util, active) \in StageOrNone
<1> DEFINE R == Reached(util, active)
<1>1. R \in SUBSET Stages /\ Stages \subseteq StageOrNone /\ 0 \in StageOrNone
  BY StageConstants DEF Reached, Stages, StageOrNone
<1>2. R # {} => \E i \in R : \A j \in R : j <= i
  <2> HIDE DEF R
  <2> QED BY <1>1, LastStage
<1>3. SelectStage(util, active) =
        IF R = {} THEN 0 ELSE CHOOSE i \in R : \A j \in R : j <= i
  BY DEF SelectStage
<1> HIDE DEF R
<1> QED BY <1>1, <1>2, <1>3

\* The invariant holds before the first pass.
LEMMA FleetInitInv == FleetInit => FleetInv
BY FleetConstantsAreNat DEF FleetInit, FleetInv, FleetTypeOK, FleetRow, Governors

\* A utilization is a natural number, that of a stale reading is zero.
LEMMA ReadingsAreNat == ASSUME NEW r \in Reading PROVE r.util \in Nat
<1>1. CASE r \in [util : Readings, stale : {FALSE}]
  BY <1>1, FleetConstantsAreNat
<1>2. CASE r \in [util : {0}, stale : {TRUE}]
  BY <1>2
<1> QED BY <1>1, <1>2 DEF Reading

\* The next evaluation starts undecided.
LEMMA AdvanceTypes ==
  ASSUME pass \in 0..NumGovernors, Advance
  PROVE  pass' \in 0..NumGovernors /\ phase' = "observe" /\ selected' = 0
BY FleetConstantsAreNat DEF Advance

\* The beginning of a pass changes no row.
LEMMA BeginInv == FleetInv /\ Begin => FleetInv'
BY FleetConstantsAreNat DEF FleetInv, FleetTypeOK, Begin, FirstOf

\* A decision to relax is taken only after the cooldown.
LEMMA DecideInv == FleetInv /\ Decide => FleetInv'
<1> SUFFICES ASSUME FleetInv, Decide PROVE FleetInv'
  OBVIOUS
<1> DEFINE to == SelectStage(readings[pass].util, rows[pass].stage)
<1>1. /\ pass \in Governors /\ rows[pass] \in FleetRow
      /\ readings[pass].util \in Nat
      /\ rows[pass].stage \in StageOrNone
  <2>1. pass \in Governors
    BY FleetConstantsAreNat DEF FleetInv, FleetTypeOK, Decide, Governors
  <2>2. rows[pass] \in FleetRow /\ readings[pass] \in Reading
    BY <2>1 DEF FleetInv, FleetTypeOK
  <2>3. readings[pass].util \in Nat
    BY <2>2, ReadingsAreNat
  <2> QED BY <2>1, <2>2, <2>3 DEF FleetRow
<1>2. to \in StageOrNone
  BY <1>1, SelectedIsStage
<1>3. CASE Advance
  BY <1>3, AdvanceTypes, FleetConstantsAreNat DEF FleetInv, FleetTypeOK, Decide
<1>4. CASE ~ CoolingDown(rows[pass], to) /\ phase' = "commit" /\ selected' = to /\ pass' = pass
  <2>1. to < rows[pass].stage => rows[pass].age = Cooldown
    <3> HIDE DEF to
    <3>1. ~ IsRelaxation(rows[pass].stage, to) \/ ~ rows[pass].present \/ ~ (rows[pass].age < Cooldown)
      BY <1>4 DEF CoolingDown
    <3>2. rows[pass].present \/ rows[pass].stage = 0
      BY <1>1 DEF FleetInv
    <3>3. rows[pass].age \in 0..Cooldown
      BY <1>1 DEF FleetRow
    <3> QED BY <1>2, <3>1, <3>2, <3>3, FleetConstantsAreNat DEF IsRelaxation, StageOrNone
  <2> HIDE DEF to
  <2> QED BY <1>2, <1>4, <2>1 DEF FleetInv, FleetTypeOK, Decide
<1> QED BY <1>3, <1>4 DEF Decide

\* A row that is written has a stage of the policy, and is there from then on.
LEMMA CommitInv == FleetInv /\ Commit => FleetInv'
BY FleetConstantsAreNat DEF FleetInv, FleetTypeOK, FleetRow, Governors, Commit

\* Time lets rows age, up to the cooldown and no further.
LEMMA FleetTickInv == FleetInv /\ FleetTick => FleetInv'
<1> SUFFICES ASSUME FleetInv, FleetTick PROVE FleetInv'
  OBVIOUS
<1>1. \A g \in Governors : rows[g] \in FleetRow
  BY DEF FleetInv, FleetTypeOK
<1>2. \A g \in Governors :
        /\ rows'[g] \in FleetRow
        /\ rows'[g].present = rows[g].present /\ rows'[g].stage = rows[g].stage
        /\ rows[g].age = Cooldown => rows'[g].age = Cooldown
  BY <1>1, FleetConstantsAreNat DEF FleetTick, FleetRow
<1>3. rows' \in [Governors -> FleetRow]
  BY <1>2 DEF FleetTick
<1>4. pass # 0 => pass \in Governors
  BY FleetConstantsAreNat DEF FleetInv, FleetTypeOK, Governors
<1> QED BY <1>2, <1>3, <1>4 DEF FleetInv, FleetTypeOK, FleetTick

\* Every step keeps the invariant.
LEMMA FleetStep == FleetInv /\ [FleetNext]_fleetVars => FleetInv'
<1> SUFFICES ASSUME FleetInv, [FleetNext]_fleetVars PROVE FleetInv'
  OBVIOUS
<1>1. CASE Begin
  BY <1>1, BeginInv
<1>2. CASE Decide
  BY <1>2, DecideInv
<1>3. CASE Commit
  BY <1>3, CommitInv
<1>4. CASE Record
  BY <1>4, AdvanceTypes, FleetConstantsAreNat DEF FleetInv, FleetTypeOK, Record
<1>5. CASE Abort
  BY <1>5, FleetConstantsAreNat DEF FleetInv, FleetTypeOK, Abort
<1>6. CASE FleetTick
  BY <1>6, FleetTickInv
<1>7. CASE FleetReading
  BY <1>7 DEF FleetInv, FleetTypeOK, FleetReading
<1>8. CASE UNCHANGED fleetVars
  BY <1>8 DEF FleetInv, FleetTypeOK, fleetVars
<1> QED BY <1>1, <1>2, <1>3, <1>4, <1>5, <1>6, <1>7, <1>8 DEF FleetNext, EvaluationStep

\* Types hold, and no governor is about to relax before its cooldown is over.
THEOREM FleetInvariant == FleetSpec => []FleetInv
BY FleetInitInv, FleetStep, PTL DEF FleetSpec, FleetSafety

\* run_once and its evaluations keep rows, stages and the place in the pass
\* within their types, for any number of governors.
THEOREM FleetTypeCorrect == FleetSpec => []FleetTypeOK
<1>1. FleetInv => FleetTypeOK
  BY DEF FleetInv
<1> QED BY <1>1, FleetInvariant, PTL

\* What Commit changes in the stages of the governors.
LEMMA CommitStages ==
  ASSUME FleetInv, Commit
  PROVE  /\ pass \in Governors /\ rows[pass].stage \in StageOrNone /\ selected \in StageOrNone
         /\ rows'[pass].stage = selected
         /\ \A g \in Governors \ {pass} : rows'[g] = rows[g]
BY FleetConstantsAreNat DEF FleetInv, FleetTypeOK, FleetRow, Governors, Commit

\* No other step changes what is_proxy_blocked answers.
LEMMA OnlyCommitUnblocks ==
  ASSUME [FleetNext]_fleetVars, FleetInv, ~ Commit, NEW i \in Identities
  PROVE  Blocked(i)' = Blocked(i)
<1>1. \A g \in Governors : rows'[g].stage = rows[g].stage
  <2>1. CASE FleetTick
    BY <2>1 DEF FleetTick, FleetInv, FleetTypeOK, FleetRow
  <2>2. CASE UNCHANGED rows
    BY <2>2
  <2> QED BY <2>1, <2>2
          DEF FleetNext, fleetVars, Begin, EvaluationStep, Decide, Record, Abort, FleetReading
<1>2. Blockers' = Blockers
  BY <1>1 DEF Blockers
<1>3. (\E g \in Blockers : i \in Allowlist[g][rows'[g].stage])
        = (\E g \in Blockers : i \in Allowlist[g][rows[g].stage])
  BY <1>1 DEF Blockers
<1> QED BY <1>2, <1>3 DEF Blocked, AllowedBy

\* is_proxy_blocked, for any bundle whose stages go on blocking once they block:
\* an identity is let in again only by a governor that relaxes after its cooldown,
\* or by the allowlist of a stage just entered, and by no other step of any
\* governor.
THEOREM FleetBlocksHold == FleetSpec => BlockIsTakenBackOnPurpose
<1>1. ASSUME FleetInv, [FleetNext]_fleetVars
      PROVE  [BlocksGrow => \A i \in Identities : Blocked(i) /\ ~Blocked(i)' =>
               \E g \in Governors :
                 \/ rows'[g].stage < rows[g].stage /\ rows[g].age = Cooldown
                 \/ rows'[g].stage \in Blocking[g] /\ i \in Allowlist[g][rows'[g].stage]]_fleetVars
  <2> SUFFICES ASSUME BlocksGrow, NEW i \in Identities, Blocked(i), ~Blocked(i)'
               PROVE  \E g \in Governors :
                        \/ rows'[g].stage < rows[g].stage /\ rows[g].age = Cooldown
                        \/ /\ rows'[g].stage \in Blocking[g]
                           /\ i \in Allowlist[g][rows'[g].stage]
    OBVIOUS
  <2>1. Commit
    BY <1>1, OnlyCommitUnblocks
  <2>2. /\ pass \in Governors /\ rows[pass].stage \in StageOrNone /\ selected \in StageOrNone
        /\ rows'[pass].stage = selected
        /\ \A g \in Governors \ {pass} : rows'[g] = rows[g]
    BY <1>1, <2>1, CommitStages
  <2>3. CASE selected < rows[pass].stage
    <3>1. rows[pass].age = Cooldown
      BY <1>1, <2>1, <2>3 DEF FleetInv, Commit
    <3> QED BY <2>2, <2>3, <3>1
  <2>4. CASE ~ (selected < rows[pass].stage)
    <3>1. Blockers \subseteq Blockers'
      <4> SUFFICES ASSUME NEW g \in Blockers PROVE g \in Blockers'
        OBVIOUS
      <4>1. g \in Governors /\ rows[g].stage \in Blocking[g]
        BY DEF Blockers
      <4>2. CASE g # pass
        BY <2>2, <4>1, <4>2 DEF Blockers
      <4>3. CASE g = pass
        <5>1. selected \in (rows[pass].stage)..NumStages
          BY <2>2, <2>4, FleetConstantsAreNat DEF StageOrNone
        <5>2. selected \in Blocking[pass]
          BY <4>1, <4>3, <5>1 DEF BlocksGrow
        <5> QED BY <2>2, <4>1, <4>3, <5>2 DEF Blockers
      <4> QED BY <4>2, <4>3
    <3>2. PICK g \in Blockers' : i \in Allowlist[g][rows'[g].stage]
      BY <3>1 DEF Blocked, AllowedBy
    <3>3. g \in Governors /\ rows'[g].stage \in Blocking[g]
      BY <3>2 DEF Blockers
    <3>4. g = pass
      <4>1. SUFFICES ASSUME g # pass PROVE FALSE
        OBVIOUS
      <4>2. g \in Blockers /\ i \in Allowlist[g][rows[g].stage]
        BY <2>2, <3>2, <3>3, <4>1 DEF Blockers
      <4> QED BY <4>2 DEF Blocked, AllowedBy
    <3> QED BY <3>2, <3>3
  <2> QED BY <2>3, <2>4
<1> QED BY <1>1, FleetInvariant, PTL DEF FleetSpec, FleetSafety, BlockIsTakenBackOnPurpose

=============================================================================
