--------------------------- MODULE GovernorProofs ---------------------------
(***************************************************************************)
(* evaluate, for any stages, readings, endpoints and bounds.  Types and    *)
(* unrelated settings are safe with any number of evaluators; the baseline,*)
(* the cooldown, the endpoint and the audit log with one, for which the    *)
(* refinement of Fleet is proved as well.                                  *)
(***************************************************************************)
EXTENDS Governor, WellFoundedInduction, TLAPS

\* What the constants are, in the words of the proofs below.
LEMMA GovernorConstantsAreTyped ==
  /\ NumStages \in Nat \ {0} /\ 0 \in StageOrNone
  /\ Readings \subseteq Nat /\ Cooldown \in Nat /\ MaxFailures \in Nat /\ MaxApplies \in Nat
  /\ InitialGateways \subseteq Gateway /\ DeclaredLimit \in Nat \ {0}
  /\ StageFallback \in [Stages -> Fallbacks] /\ PolicyFallback \in Fallbacks
BY GovernorConstants, StageConstants DEF StageOrNone

\* A set of stages that is not empty has a last one.
LEMMA LastStage ==
  ASSUME NEW R \in SUBSET Stages, R # {}
  PROVE  \E i \in R : \A j \in R : j <= i
<1> DEFINE Above == {m \in Nat : \A j \in R : j <= m}
           Order == OpToRel(<, Nat)
<1>1. NumStages \in Above /\ \A j \in R : j \in 1..NumStages
  BY StageConstants DEF Stages
<1>2. PICK m \in Above : \A k \in Above : ~ (<<k, m>> \in Order)
  <2>1. IsWellFoundedOn(Order, Nat)
    BY NatLessThanWellFounded, Zenon DEF OpToRel
  <2>2. Above \subseteq Nat /\ Above # {}
    BY <1>1
  <2> HIDE DEF Above, Order
  <2> QED BY <2>1, <2>2, WFMin
<1>3. \A k \in Above : ~ (k < m)
  BY <1>2 DEF OpToRel
<1>4. m # 0
  BY <1>1
<1>5. m - 1 \in Nat /\ m - 1 < m
  BY <1>4
<1>6. PICK i \in R : ~ (i <= m - 1)
  BY <1>3, <1>5
<1>7. i = m
  BY <1>1, <1>5, <1>6
<1> QED BY <1>7

\* The selection is a stage of the policy, or none.
LEMMA SelectedIsStage ==
  ASSUME NEW util \in Nat, NEW active \in StageOrNone
  PROVE  SelectStage(util, active) \in StageOrNone
<1> DEFINE R == Reached(util, active)
<1>1. R \in SUBSET Stages /\ Stages \subseteq StageOrNone /\ 0 \in StageOrNone
  BY StageConstants DEF Reached, Stages, StageOrNone
<1>2. R # {} => \E i \in R : \A j \in R : j <= i
  <2> HIDE DEF R
  <2> QED BY <1>1, LastStage
<1>3. SelectStage(util, active) =
        IF R = {} THEN 0 ELSE CHOOSE i \in R : \A j \in R : j <= i
  BY DEF SelectStage
<1> HIDE DEF R
<1> QED BY <1>1, <1>2, <1>3

\* A utilization is a natural number, that of a stale reading is zero.
LEMMA ReadingsAreNat == ASSUME NEW r \in Reading PROVE r.util \in Nat
<1>1. CASE r \in [util : Readings, stale : {FALSE}]
  BY <1>1, GovernorConstants
<1>2. CASE r \in [util : {0}, stale : {TRUE}]
  BY <1>2
<1> QED BY <1>1, <1>2 DEF Reading

\* A scaled limit is a limit.
LEMMA ScaleIsNat ==
  ASSUME NEW limit \in Nat, NEW stage \in StageOrNone
  PROVE  Scale(limit, stage) \in Nat
<1>1. CASE stage = 0
  BY <1>1 DEF Scale
<1>2. CASE stage # 0
  <2>1. stage \in Stages
    BY <1>2, StageConstants DEF Stages, StageOrNone
  <2>2. Multiplier[stage] \in Nat
    BY <2>1, StageConstants
  <2>3. limit * Multiplier[stage] \in Nat
    BY <2>2
  <2>4. \A n \in Nat : n \div 100 \in Nat
    OBVIOUS
  <2> QED BY <1>2, <2>3, <2>4 DEF Scale
<1> QED BY <1>1, <1>2

\* The rows of the state store and what an evaluation holds of them.
LEMMA RowTypes ==
  /\ NoRow \in Row
  /\ \A r \in Row : /\ r.present \in BOOLEAN /\ r.stage \in StageOrNone
                    /\ r.age \in 0..Cooldown /\ r.baseline \in Baseline
BY GovernorConstantsAreTyped DEF NoRow, Row, Baseline, Fallbacks

\* The fields of an evaluation, and what makes one.
LEMMA EvaluationTypes ==
  ASSUME NEW x \in Evaluation
  PROVE  /\ x.runtime \in Row /\ x.selected \in StageOrNone
         /\ x.baseline \in Baseline /\ x.got \in Gateway
         /\ x = [pc |-> x.pc, runtime |-> x.runtime, selected |-> x.selected,
                 baseline |-> x.baseline, got |-> x.got]
BY DEF Evaluation

\* An evaluator between evaluations.
LEMMA AtRestTypes ==
  ASSUME original \in Gateway, NEW pc \in {"idle", "down"}
  PROVE  AtRest(pc) \in Evaluation
<1>1. NoRow \in Row /\ NoRow.baseline \in Baseline
  BY RowTypes
<1> QED BY <1>1, GovernorConstantsAreTyped DEF AtRest, Evaluation

\* A merged configuration is a configuration.
LEMMA MergeTypes ==
  ASSUME NEW x \in Evaluation
  PROVE  Merge(x.got, NewLimit(x), NewFallback(x)) \in Gateway
<1>1. NewLimit(x) \in Nat
  <2>1. x.baseline.limit \in Nat /\ x.selected \in StageOrNone
    BY DEF Evaluation, Baseline
  <2> QED BY <2>1, ScaleIsNat DEF NewLimit
<1>2. NewFallback(x) \in Fallbacks
  <2>1. x.selected # 0 => StageFallback[x.selected] \in Fallbacks
    BY GovernorConstantsAreTyped DEF Evaluation, Stages, StageOrNone
  <2>2. {"on", "off"} \subseteq Fallbacks
    BY DEF Fallbacks
  <2> QED BY <2>1, <2>2, GovernorConstantsAreTyped DEF NewFallback
<1>3. x.got \in Gateway
  BY DEF Evaluation
<1> HIDE DEF Evaluation
<1> QED BY <1>1, <1>2, <1>3 DEF Merge, Gateway

\* One evaluation goes on, the others stay where they are.
LEMMA EvaluationsTyped ==
  ASSUME ev \in [Evaluators -> Evaluation], NEW e \in Evaluators, NEW y \in Evaluation,
         ev' = [ev EXCEPT ![e] = y]
  PROVE  ev' \in [Evaluators -> Evaluation]
OBVIOUS

\* The initial states have the types.
LEMMA GovernorInitTypes == GovernorInit => GovernorTypeOK
<1> SUFFICES ASSUME GovernorInit PROVE GovernorTypeOK
  OBVIOUS
<1>1. gw \in Gateway /\ original \in Gateway
  BY GovernorConstantsAreTyped DEF GovernorInit
<1>2. AtRest("idle") \in Evaluation
  BY <1>1, AtRestTypes
<1>3. chosen \subseteq OtherSettings
  BY <1>1 DEF GovernorInit, Gateway
<1>4. ev \in [Evaluators -> Evaluation] /\ applier \in [pc : {"idle", "put"}, got : Gateway]
  BY <1>1, <1>2 DEF GovernorInit
<1>5. stray = FALSE /\ tainted = FALSE /\ unaudited = FALSE
  BY DEF GovernorInit
<1>6. row \in Row /\ audit \in StageOrNone /\ reading \in Reading
  BY RowTypes, GovernorConstantsAreTyped DEF GovernorInit
<1>7. failures \in 0..MaxFailures /\ applies \in 0..MaxApplies
  BY GovernorConstantsAreTyped DEF GovernorInit
<1> QED BY <1>1, <1>3, <1>4, <1>5, <1>6, <1>7 DEF GovernorTypeOK

\* Each step of evaluate keeps the types: what it makes of its evaluation is one.
LEMMA EvaluateTypes ==
  ASSUME GovernorTypeOK, NEW e \in Evaluators, EvaluateStep(e)
  PROVE  GovernorTypeOK'
<1>0. ev[e] \in Evaluation /\ row \in Row /\ gw \in Gateway
      /\ original \in Gateway /\ ev \in [Evaluators -> Evaluation]
  BY DEF GovernorTypeOK
<1>1. ev[e].runtime \in Row /\ ev[e].selected \in StageOrNone /\ ev[e].baseline \in Baseline
  BY <1>0, EvaluationTypes
<1>2. CASE Read(e)
  <2>1. [ev[e] EXCEPT !.pc = "observe", !.runtime = row, !.baseline = row.baseline] \in Evaluation
    BY <1>0, RowTypes DEF Evaluation
  <2>2. ev' \in [Evaluators -> Evaluation]
    BY <1>0, <1>2, <2>1 DEF Read
  <2> QED BY <1>2, <2>2 DEF GovernorTypeOK, Read, inputs, history
<1>3. CASE Observe(e)
  <2> DEFINE to == SelectStage(reading.util, ev[e].runtime.stage)
  <2>1. to \in StageOrNone
    BY <1>1, RowTypes, ReadingsAreNat, SelectedIsStage DEF GovernorTypeOK
  <2>2. AtRest("idle") \in Evaluation
    BY <1>0, AtRestTypes
  <2>3. ev' \in [Evaluators -> Evaluation]
    <3> HIDE DEF to
    <3>1. [ev[e] EXCEPT !.pc = FirstCall(ev[e].runtime, to), !.selected = to] \in Evaluation
      BY <1>0, <2>1 DEF Evaluation, FirstCall
    <3>2. ev' = [ev EXCEPT ![e] = AtRest("idle")]
          \/ ev' = [ev EXCEPT ![e] = [ev[e] EXCEPT !.pc = FirstCall(ev[e].runtime, to), !.selected = to]]
      BY <1>3 DEF Observe, Return, to
    <3> QED BY <1>0, <2>2, <3>1, <3>2
  <2> QED BY <1>3, <2>3 DEF GovernorTypeOK, Observe, inputs, history
<1>4. CASE Capture(e)
  <2>1. [limit |-> CapturedLimit(gw.limit), fallback |-> gw.fallback] \in Baseline
    BY <1>0, GovernorConstantsAreTyped DEF Gateway, Baseline, CapturedLimit
  <2>2. ev' \in [Evaluators -> Evaluation]
    <3> DEFINE b == [limit |-> CapturedLimit(gw.limit), fallback |-> gw.fallback]
    <3> HIDE DEF b
    <3>1. \A pc \in {"save", "get"} : [ev[e] EXCEPT !.pc = pc, !.baseline = b] \in Evaluation
      BY <1>0, <2>1 DEF Evaluation, b
    <3>2. \E pc \in {"save", "get"} : ev' = [ev EXCEPT ![e] = [ev[e] EXCEPT !.pc = pc, !.baseline = b]]
      BY <1>0, <1>4 DEF Capture, b
    <3> QED BY <1>0, <3>1, <3>2
  <2>3. {stray, tainted, unaudited} \subseteq BOOLEAN => {stray', tainted', unaudited'} \subseteq BOOLEAN
    BY <1>4 DEF Capture
  <2> QED BY <1>4, <2>2, <2>3 DEF GovernorTypeOK, Capture, inputs
<1>5. CASE Get(e)
  <2>1. [ev[e] EXCEPT !.pc = "put", !.got = gw] \in Evaluation /\ AtRest("down") \in Evaluation
    BY <1>0, AtRestTypes DEF Evaluation
  <2>2. ev' \in [Evaluators -> Evaluation]
    BY <1>0, <1>5, <2>1 DEF Get, Raise
  <2> QED BY <1>5, <2>2 DEF GovernorTypeOK, Get, inputs, history
<1>6. CASE Put(e)
  <2>1. gw' \in Gateway
    BY <1>0, <1>6, MergeTypes DEF Put
  <2>2. [ev[e] EXCEPT !.pc = AfterPut] \in Evaluation
    BY <1>0 DEF Evaluation, AfterPut
  <2>3. ev' \in [Evaluators -> Evaluation]
    BY <1>0, <1>6, <2>2 DEF Put, Goto
  <2> QED BY <1>6, <2>1, <2>3 DEF GovernorTypeOK, Put, inputs
<1>7. CASE Save(e)
  <2>1. row' \in Row
    BY <1>1, <1>7, GovernorConstantsAreTyped DEF Save, SavedBaseline, Row
  <2>2. [ev[e] EXCEPT !.pc = "audit"] \in Evaluation
    BY <1>0 DEF Evaluation
  <2>3. ev' \in [Evaluators -> Evaluation]
    BY <1>0, <1>7, <2>2 DEF Save, Goto
  <2> QED BY <1>7, <2>1, <2>3 DEF GovernorTypeOK, Save, inputs, history
<1>8. CASE Audit(e)
  <2>1. ev' \in [Evaluators -> Evaluation]
    BY <1>0, <1>8, AtRestTypes DEF Audit, Return
  <2> QED BY <1>1, <1>8, <2>1 DEF GovernorTypeOK, Audit, inputs
<1> QED BY <1>2, <1>3, <1>4, <1>5, <1>6, <1>7, <1>8 DEF EvaluateStep

\* A failed evaluation keeps the types.
LEMMA FailsTypes ==
  ASSUME GovernorTypeOK, NEW e \in Evaluators, Fails(e)
  PROVE  GovernorTypeOK'
<1>1. ev' \in [Evaluators -> Evaluation]
  BY AtRestTypes DEF GovernorTypeOK, Fails, Raise
<1>2. failures' \in 0..MaxFailures
  BY GovernorConstantsAreTyped DEF GovernorTypeOK, Fails
<1>3. {stray', tainted', unaudited'} \subseteq BOOLEAN
  BY DEF GovernorTypeOK, Fails
<1> QED BY <1>1, <1>2, <1>3 DEF GovernorTypeOK, Fails

\* A row, or the copy of one, as it is a tick later.
LEMMA OlderRow ==
  ASSUME NEW r \in Row,
         NEW s, s = [r EXCEPT !.age = IF r.present /\ @ < Cooldown THEN @ + 1 ELSE @]
  PROVE  /\ s \in Row
         /\ s.present = r.present /\ s.stage = r.stage /\ s.baseline = r.baseline
         /\ r.age = Cooldown => s.age = Cooldown
         /\ s.age = IF r.present /\ r.age < Cooldown THEN r.age + 1 ELSE r.age
<1>1. /\ s.present = r.present /\ s.stage = r.stage /\ s.baseline = r.baseline
      /\ s.age = IF r.present /\ r.age < Cooldown THEN r.age + 1 ELSE r.age
      /\ s = [present |-> s.present, stage |-> s.stage, age |-> s.age, baseline |-> s.baseline]
  BY DEF Row
<1>2. r.age \in 0..Cooldown
  BY RowTypes
<1>3. s.age \in 0..Cooldown /\ (r.age = Cooldown => s.age = Cooldown)
  BY <1>1, <1>2, GovernorConstantsAreTyped
<1> QED BY <1>1, <1>3, RowTypes DEF Row

\* So does the clock.
LEMMA TickTypes ==
  ASSUME GovernorTypeOK, Tick
  PROVE  GovernorTypeOK'
<1> DEFINE older(r) == [r EXCEPT !.age = IF r.present /\ @ < Cooldown THEN @ + 1 ELSE @]
<1>1. \A r \in Row : older(r) \in Row
  BY OlderRow
<1>2. row' = older(row) /\ ev' = [e \in Evaluators |-> [ev[e] EXCEPT !.runtime = older(ev[e].runtime)]]
  BY DEF Tick
<1> HIDE DEF older
<1>3. \A e \in Evaluators : [ev[e] EXCEPT !.runtime = older(ev[e].runtime)] \in Evaluation
  BY <1>1 DEF GovernorTypeOK, Evaluation
<1>4. row' \in Row /\ ev' \in [Evaluators -> Evaluation]
  BY <1>1, <1>2, <1>3 DEF GovernorTypeOK
<1> QED BY <1>4 DEF GovernorTypeOK, Tick, inputs, history

\* The operator and gateway-policy apply put configurations of an endpoint.
LEMMA OthersTypes ==
  ASSUME GovernorTypeOK, NewReading \/ ChangeOther \/ ApplyGet \/ ApplyPut
  PROVE  GovernorTypeOK'
<1>1. CASE NewReading
  BY <1>1 DEF GovernorTypeOK, NewReading, history
<1>2. CASE ChangeOther
  <2>1. gw' \in Gateway /\ chosen' \subseteq OtherSettings
    BY <1>2 DEF GovernorTypeOK, ChangeOther, Gateway
  <2> QED BY <1>2, <2>1 DEF GovernorTypeOK, ChangeOther, inputs
<1>3. CASE ApplyGet
  <2>1. applies' \in 0..MaxApplies
    BY <1>3, GovernorConstantsAreTyped DEF GovernorTypeOK, ApplyGet
  <2>2. applier' \in [pc : {"idle", "put"}, got : Gateway]
    BY <1>3 DEF GovernorTypeOK, ApplyGet
  <2> QED BY <1>3, <2>1, <2>2 DEF GovernorTypeOK, ApplyGet, history
<1>4. CASE ApplyPut
  <2>1. gw' \in Gateway
    <3>1. applier.got \in Gateway
      BY DEF GovernorTypeOK
    <3> QED BY <1>4, <3>1, GovernorConstantsAreTyped DEF ApplyPut, Merge, Gateway
  <2>2. applier' \in [pc : {"idle", "put"}, got : Gateway]
    BY <1>4 DEF GovernorTypeOK, ApplyPut
  <2>3. stray' = TRUE
    BY <1>4 DEF ApplyPut
  <2> QED BY <1>4, <2>1, <2>2, <2>3 DEF GovernorTypeOK, ApplyPut, inputs
<1> QED BY <1>1, <1>2, <1>3, <1>4

\* Every step keeps the types.
LEMMA GovernorStepTypes ==
  ASSUME GovernorTypeOK, [GovernorNext]_govVars
  PROVE  GovernorTypeOK'
<1>1. CASE UNCHANGED govVars
  BY <1>1 DEF GovernorTypeOK, govVars, inputs, history
<1> QED BY <1>1, EvaluateTypes, FailsTypes, TickTypes, OthersTypes DEF GovernorNext

\* evaluate, however often it fails and however many evaluators run it, keeps the
\* row, the endpoint and the baseline within their types; no baseline is empty.
THEOREM GovernorTypeCorrect == GovernorSpec => []GovernorTypeOK
BY GovernorInitTypes, GovernorStepTypes, PTL DEF GovernorSpec

-----------------------------------------------------------------------------
(* Unrelated settings *)

\* What is about to be put back is what the operator chose, as long as that is
\* unambiguous.
SettingsInv ==
  /\ gw.other \in chosen
  /\ \A e \in Evaluators : ev[e].pc = "put" => ev[e].got.other \in chosen
  /\ applier.pc = "put" => applier.got.other \in chosen

\* merge_ai_gateway touches the limits and the fallback only.
LEMMA MergeKeepsOther ==
  ASSUME NEW g \in Gateway, NEW limit, NEW fallback
  PROVE  Merge(g, limit, fallback).other = g.other
BY DEF Merge, Gateway

\* A step of an evaluation keeps the setting it read, up to its PUT.
LEMMA EvaluationsKeepSettings ==
  ASSUME GovernorTypeOK, SettingsInv, NEW e \in Evaluators, EvaluateStep(e) \/ Fails(e)
  PROVE  SettingsInv'
<1>0. ev \in [Evaluators -> Evaluation] /\ ev[e] \in Evaluation
  BY DEF GovernorTypeOK
<1>1. chosen' = chosen /\ applier' = applier
  BY DEF EvaluateStep, Read, Observe, Capture, Get, Put, Save, Audit, Fails, history
<1>2. \A f \in Evaluators \ {e} : ev'[f] = ev[f]
  BY <1>0 DEF EvaluateStep, Read, Observe, Capture, Get, Put, Save, Audit, Fails, Goto, Return, Raise
<1>3. gw'.other \in chosen
  <2>1. CASE Put(e)
    BY <1>0, <2>1, MergeKeepsOther, EvaluationTypes DEF Put, SettingsInv
  <2>2. CASE gw' = gw
    BY <2>2 DEF SettingsInv
  <2> QED BY <2>1, <2>2 DEF EvaluateStep, Read, Observe, Capture, Get, Save, Audit, Fails
<1>4. ev'[e].pc = "put" => ev'[e].got.other \in chosen
  <2>1. CASE Get(e)
    BY <1>0, <2>1 DEF Get, Raise, AtRest, Evaluation, SettingsInv
  <2>2. CASE ~ Get(e)
    <3>1. ev'[e].pc # "put"
      BY <1>0, <2>2 DEF EvaluateStep, Read, Observe, Capture, Put, Save, Audit, Fails,
                        Goto, Return, Raise, AtRest, FirstCall, AfterPut, Evaluation
    <3> QED BY <3>1
  <2> QED BY <2>1, <2>2
<1> QED BY <1>1, <1>2, <1>3, <1>4 DEF SettingsInv

\* Every step keeps the invariant about settings.
LEMMA SettingsStep ==
  ASSUME GovernorTypeOK, SettingsInv, [GovernorNext]_govVars
  PROVE  SettingsInv'
<1>1. CASE Tick
  BY <1>1 DEF Tick, SettingsInv, history, GovernorTypeOK, Evaluation
<1>2. CASE ChangeOther
  <2>1. PICK o \in OtherSettings :
          gw' = [gw EXCEPT !.other = o] /\ chosen' = IF PutPending THEN OtherSettings ELSE {o}
    BY <1>2 DEF ChangeOther
  <2>2. gw'.other = o
    BY <2>1 DEF GovernorTypeOK, Gateway
  <2>3. \A e \in Evaluators : ev[e].got.other \in OtherSettings
    BY DEF GovernorTypeOK, Evaluation, Gateway
  <2>4. applier.got.other \in OtherSettings
    BY DEF GovernorTypeOK, Gateway
  <2> QED BY <1>2, <2>1, <2>2, <2>3, <2>4 DEF ChangeOther, PutPending, SettingsInv
<1>3. CASE ApplyPut
  <2>1. gw'.other = applier.got.other /\ applier'.pc = "idle"
    BY <1>3, MergeKeepsOther DEF ApplyPut, GovernorTypeOK
  <2> QED BY <1>3, <2>1 DEF ApplyPut, SettingsInv
<1>4. CASE ApplyGet
  BY <1>4 DEF ApplyGet, SettingsInv, history
<1>5. CASE NewReading
  BY <1>5 DEF NewReading, SettingsInv, history
<1>6. CASE UNCHANGED govVars
  BY <1>6 DEF govVars, SettingsInv, history
<1> QED BY <1>1, <1>2, <1>3, <1>4, <1>5, <1>6, EvaluationsKeepSettings DEF GovernorNext

\* README.md: "Governor never mutates ... unrelated AI Gateway settings": with any
\* number of evaluators and gateway-policy apply, a setting is as the operator
\* last chose it, unless it was changed between a GET and the PUT of its result.
THEOREM GovernorKeepsSettings == GovernorSpec => []UnrelatedSettingsKept
<1>1. GovernorInit => SettingsInv
  BY DEF GovernorInit, SettingsInv, AtRest
<1>2. GovernorTypeOK /\ SettingsInv /\ [GovernorNext]_govVars => SettingsInv'
  BY SettingsStep
<1>3. SettingsInv => UnrelatedSettingsKept
  BY DEF SettingsInv, UnrelatedSettingsKept
<1> QED BY <1>1, <1>2, <1>3, GovernorTypeCorrect, PTL DEF GovernorSpec

-----------------------------------------------------------------------------
(* One evaluator *)

\* What an evaluation knows and has done, when it is the only one: the row it has
\* read is the row; a relaxation has waited for its cooldown; the baseline it
\* will use is the one of the row or, before the first throttle, the endpoint's.
EvaluationInv(x) ==
  /\ x.pc \in {"idle", "down", "observe"} => x.selected = 0
  /\ x.pc \in {"observe", "capture", "get", "put", "save"} => x.runtime = row
  /\ x.pc \in {"capture", "get", "put", "save"} /\ x.selected < row.stage => row.age = Cooldown
  /\ x.pc = "capture" => ~ row.present
  /\ x.pc \in {"observe", "get", "put", "save"} /\ row.present => x.baseline = row.baseline
  /\ x.pc \in {"get", "put", "save"} /\ ~ tainted => x.baseline = OriginalBaseline
  /\ x.pc = "audit" => x.selected = row.stage

\* What the endpoint has: before a row, what it had at first; at the end of an
\* evaluation, the limits of the stage that is about to be saved; otherwise
\* those of the row.
EndpointInv(x) ==
  /\ ~ row.present /\ ~ stray /\ x.pc # "save" =>
       gw.limit = original.limit /\ gw.fallback = original.fallback
  /\ x.pc = "save" /\ ~ stray =>
       /\ \/ gw.limit = Scale(x.baseline.limit, x.selected)
          \/ x.selected = 0 /\ gw.limit = original.limit
       /\ x.selected = 0 => (gw.fallback = "on" <=> x.baseline.fallback = "on")
  /\ row.present /\ ~ stray /\ x.pc # "save" =>
       /\ HasLimitsOf(row.stage)
       /\ row.stage = 0 => (gw.fallback = "on" <=> row.baseline.fallback = "on")

RowInv(x) ==
  /\ row.present \/ row.stage = 0
  /\ row.present /\ ~ tainted => row.baseline = OriginalBaseline
  /\ audit = row.stage \/ unaudited \/ x.pc = "audit"

SoleInv(d) == EvaluationInv(ev[d]) /\ EndpointInv(ev[d]) /\ RowInv(ev[d])

\* What the types say when there is a single evaluator.
LEMMA SoleTypes ==
  ASSUME NEW d, Evaluators = {d}, GovernorTypeOK
  PROVE  /\ ev \in [{d} -> Evaluation] /\ ev[d] \in Evaluation /\ row \in Row /\ gw \in Gateway
         /\ ev[d].runtime \in Row /\ ev[d].selected \in StageOrNone
         /\ ev[d].baseline \in Baseline /\ ev[d].got \in Gateway
         /\ row.present \in BOOLEAN /\ row.stage \in StageOrNone /\ row.age \in 0..Cooldown
BY EvaluationTypes, RowTypes DEF GovernorTypeOK

\* The invariant holds before the first evaluation.
LEMMA SoleInit ==
  ASSUME NEW d, Evaluators = {d}, GovernorInit
  PROVE  SoleInv(d)
<1>1. ev[d] = AtRest("idle")
  BY DEF GovernorInit
<1>2. row = NoRow /\ audit = 0 /\ original = gw /\ stray = FALSE
  BY DEF GovernorInit
<1> QED BY <1>1, <1>2 DEF SoleInv, EvaluationInv, EndpointInv, RowInv, AtRest, NoRow

\* Reading the row: what is held of it is true of it.
LEMMA SoleRead ==
  ASSUME NEW d, Evaluators = {d}, GovernorTypeOK, SoleInv(d), Read(d)
  PROVE  SoleInv(d)'
<1>1. /\ ev'[d].pc = "observe" /\ ev'[d].runtime = row /\ ev'[d].baseline = row.baseline
      /\ ev'[d].selected = ev[d].selected /\ ev[d].pc \in {"idle", "down"}
  BY SoleTypes DEF Read, Evaluation
<1>2. UNCHANGED <<gw, row, audit, history>>
  BY DEF Read
<1> QED BY <1>1, <1>2
        DEF SoleInv, EvaluationInv, EndpointInv, RowInv, history, OriginalBaseline, HasLimitsOf

\* Deciding: the stage is selected from the row as it still is.
LEMMA SoleObserve ==
  ASSUME NEW d, Evaluators = {d}, GovernorTypeOK, SoleInv(d), Observe(d)
  PROVE  SoleInv(d)'
<1> DEFINE to == SelectStage(reading.util, ev[d].runtime.stage)
<1>1. UNCHANGED <<gw, row, audit, history>> /\ ev[d].pc = "observe" /\ ev[d].runtime = row
  BY DEF Observe, SoleInv, EvaluationInv
<1>2. CASE ev'[d] = AtRest("idle")
  <2>1. ev'[d].pc = "idle" /\ ev'[d].selected = 0
    BY <1>2 DEF AtRest
  <2> QED BY <1>1, <2>1
          DEF SoleInv, EvaluationInv, EndpointInv, RowInv, history, OriginalBaseline, HasLimitsOf
<1>3. CASE ~ CoolingDown(row, to)
           /\ ev'[d] = [ev[d] EXCEPT !.pc = FirstCall(ev[d].runtime, to), !.selected = to]
  <2>1. to \in StageOrNone
    BY SoleTypes, RowTypes, ReadingsAreNat, SelectedIsStage DEF GovernorTypeOK
  <2> HIDE DEF to
  <2>2. /\ ev'[d].pc = IF row.present THEN "get" ELSE "capture"
        /\ ev'[d].runtime = row /\ ev'[d].selected = to /\ ev'[d].baseline = ev[d].baseline
    BY <1>1, <1>3, SoleTypes DEF Evaluation, FirstCall
  <2>3. to < row.stage => row.age = Cooldown
    <3>1. ~ (to < row.stage) \/ ~ row.present \/ ~ (row.age < Cooldown)
      BY <1>3 DEF CoolingDown, IsRelaxation
    <3>2. row.present \/ row.stage = 0
      BY DEF SoleInv, RowInv
    <3> QED BY <2>1, <3>1, <3>2, SoleTypes, GovernorConstantsAreTyped DEF StageOrNone
  <2>4. row.present => ev[d].baseline = row.baseline
    BY <1>1 DEF SoleInv, EvaluationInv
  <2> QED BY <1>1, <2>2, <2>3, <2>4
          DEF SoleInv, EvaluationInv, EndpointInv, RowInv, history, OriginalBaseline, HasLimitsOf
<1> QED BY <1>1, <1>2, <1>3, SoleTypes DEF Observe, Return, to

\* Capturing the baseline, before anything is throttled.
LEMMA SoleCapture ==
  ASSUME NEW d, Evaluators = {d}, GovernorTypeOK, SoleInv(d), Capture(d)
  PROVE  SoleInv(d)'
<1> DEFINE b == [limit |-> CapturedLimit(gw.limit), fallback |-> gw.fallback]
<1>1. /\ UNCHANGED <<gw, row, audit, original, stray, unaudited>>
      /\ ev[d].pc = "capture" /\ ev[d].runtime = row /\ ~ row.present /\ row.stage = 0
      /\ tainted' = (tainted \/ stray)
  BY DEF Capture, SoleInv, EvaluationInv, RowInv
<1>2. /\ ev'[d].pc = IF ev[d].selected = 0 THEN "save" ELSE "get"
      /\ ev'[d].runtime = row /\ ev'[d].selected = ev[d].selected /\ ev'[d].baseline = b
  BY <1>1, SoleTypes DEF Capture, Evaluation
<1>3. ~ stray => gw.limit = original.limit /\ gw.fallback = original.fallback
  BY <1>1 DEF SoleInv, EndpointInv
<1>4. ~ tainted' => b = OriginalBaseline /\ OriginalBaseline' = OriginalBaseline
  BY <1>1, <1>3 DEF OriginalBaseline
<1>5. b.fallback = gw.fallback
  OBVIOUS
<1> HIDE DEF b
<1>6. EvaluationInv(ev[d])'
  BY <1>1, <1>2, <1>4 DEF EvaluationInv, SoleInv
<1>7. EndpointInv(ev[d])'
  BY <1>1, <1>2, <1>3, <1>5 DEF EndpointInv
<1>8. RowInv(ev[d])'
  BY <1>1, <1>2 DEF RowInv, SoleInv
<1> QED BY <1>6, <1>7, <1>8 DEF SoleInv

\* Reading the endpoint.
LEMMA SoleGet ==
  ASSUME NEW d, Evaluators = {d}, GovernorTypeOK, SoleInv(d), Get(d)
  PROVE  SoleInv(d)'
<1>1. UNCHANGED <<gw, row, audit, history>> /\ ev[d].pc = "get"
  BY DEF Get
<1>2. CASE ev'[d] = [ev[d] EXCEPT !.pc = "put", !.got = gw]
  <2>1. /\ ev'[d].pc = "put" /\ ev'[d].runtime = ev[d].runtime
        /\ ev'[d].selected = ev[d].selected /\ ev'[d].baseline = ev[d].baseline
    BY <1>2, SoleTypes DEF Evaluation
  <2> QED BY <1>1, <2>1
          DEF SoleInv, EvaluationInv, EndpointInv, RowInv, history, OriginalBaseline, HasLimitsOf
<1>3. CASE ev'[d] = AtRest("down")
  <2>1. ev'[d].pc = "down" /\ ev'[d].selected = 0
    BY <1>3 DEF AtRest
  <2> QED BY <1>1, <2>1
          DEF SoleInv, EvaluationInv, EndpointInv, RowInv, history, OriginalBaseline, HasLimitsOf
<1> QED BY <1>2, <1>3, SoleTypes DEF Get, Raise

\* Writing the endpoint: it is ahead of the row until Save.
LEMMA SolePut ==
  ASSUME NEW d, Evaluators = {d}, GovernorTypeOK, SoleInv(d), Put(d)
  PROVE  SoleInv(d)'
<1>1. /\ UNCHANGED <<row, audit, original, tainted, unaudited>> /\ ev[d].pc = "put"
      /\ stray' = FALSE
  BY DEF Put
<1>2. /\ ev'[d].pc = "save" /\ ev'[d].runtime = ev[d].runtime
      /\ ev'[d].selected = ev[d].selected /\ ev'[d].baseline = ev[d].baseline
  BY SoleTypes DEF Put, Goto, AfterPut, Evaluation
<1>3. gw'.limit = Scale(ev[d].baseline.limit, ev[d].selected)
  BY SoleTypes DEF Put, Merge, NewLimit, Gateway
<1>4. ev[d].selected = 0 => gw'.fallback = IF ev[d].baseline.fallback = "on" THEN "on" ELSE "off"
  BY SoleTypes DEF Put, Merge, NewFallback, Gateway
<1>5. EvaluationInv(ev[d])'
  BY <1>1, <1>2 DEF EvaluationInv, SoleInv, OriginalBaseline
<1>6. EndpointInv(ev[d])'
  BY <1>2, <1>3, <1>4 DEF EndpointInv
<1>7. RowInv(ev[d])'
  BY <1>1, <1>2 DEF RowInv, SoleInv, OriginalBaseline
<1> QED BY <1>5, <1>6, <1>7 DEF SoleInv

\* Writing the row: it is what the endpoint has been given.
LEMMA SoleSave ==
  ASSUME NEW d, Evaluators = {d}, GovernorTypeOK, SoleInv(d), Save(d)
  PROVE  SoleInv(d)'
<1>1. UNCHANGED <<gw, audit, history>> /\ ev[d].pc = "save"
  BY DEF Save
<1>2. ev'[d].pc = "audit" /\ ev'[d].selected = ev[d].selected
  BY SoleTypes DEF Save, Goto, Evaluation
<1>3. /\ row'.present /\ row'.stage = ev[d].selected /\ row'.baseline = ev[d].baseline
  BY DEF Save, SavedBaseline
<1>4. EvaluationInv(ev[d])'
  BY <1>2, <1>3 DEF EvaluationInv
<1>5. EndpointInv(ev[d])'
  BY <1>1, <1>2, <1>3 DEF EndpointInv, HasLimitsOf, SoleInv, history
<1>6. RowInv(ev[d])'
  BY <1>1, <1>2, <1>3 DEF RowInv, EvaluationInv, SoleInv, OriginalBaseline, history
<1> QED BY <1>4, <1>5, <1>6 DEF SoleInv

\* Appending to the audit log: it is what the row says.
LEMMA SoleAudit ==
  ASSUME NEW d, Evaluators = {d}, GovernorTypeOK, SoleInv(d), Audit(d)
  PROVE  SoleInv(d)'
<1>1. UNCHANGED <<gw, row, original, stray, tainted>> /\ ev[d].pc = "audit" /\ audit' = ev[d].selected
  BY DEF Audit
<1>2. ev'[d].pc = "idle" /\ ev'[d].selected = 0
  BY SoleTypes DEF Audit, Return, AtRest
<1> QED BY <1>1, <1>2
        DEF SoleInv, EvaluationInv, EndpointInv, RowInv, OriginalBaseline, HasLimitsOf

\* Dying at any of these calls.
LEMMA SoleFails ==
  ASSUME NEW d, Evaluators = {d}, GovernorTypeOK, SoleInv(d), Fails(d)
  PROVE  SoleInv(d)'
<1>1. UNCHANGED <<gw, row, audit, original, tainted>>
  BY DEF Fails
<1>2. ev'[d].pc = "down" /\ ev'[d].selected = 0
  BY SoleTypes DEF Fails, Raise, AtRest
<1>3. stray' = (stray \/ ev[d].pc = "save") /\ unaudited' = (unaudited \/ ev[d].pc = "audit")
  BY DEF Fails
<1> QED BY <1>1, <1>2, <1>3
        DEF SoleInv, EvaluationInv, EndpointInv, RowInv, OriginalBaseline, HasLimitsOf

\* Row and copy grow older together.
LEMMA SoleTick ==
  ASSUME NEW d, Evaluators = {d}, GovernorTypeOK, SoleInv(d), Tick
  PROVE  SoleInv(d)'
<1> DEFINE older(r) == [r EXCEPT !.age = IF r.present /\ @ < Cooldown THEN @ + 1 ELSE @]
<1>1. UNCHANGED <<gw, audit, history>>
  BY DEF Tick
<1>2. row' = older(row) /\ ev'[d] = [ev[d] EXCEPT !.runtime = older(ev[d].runtime)]
  BY DEF Tick
<1>3. /\ older(row).present = row.present /\ older(row).stage = row.stage
      /\ older(row).baseline = row.baseline
      /\ row.age = Cooldown => older(row).age = Cooldown
  BY SoleTypes, OlderRow
<1> HIDE DEF older
<1>4. /\ ev'[d].pc = ev[d].pc /\ ev'[d].runtime = older(ev[d].runtime)
      /\ ev'[d].selected = ev[d].selected /\ ev'[d].baseline = ev[d].baseline
  BY <1>2, SoleTypes DEF Evaluation
<1>5. EvaluationInv(ev[d])'
  BY <1>1, <1>2, <1>3, <1>4 DEF EvaluationInv, SoleInv, OriginalBaseline, history
<1>6. EndpointInv(ev[d])'
  BY <1>1, <1>2, <1>3, <1>4 DEF EndpointInv, SoleInv, HasLimitsOf, history
<1>7. RowInv(ev[d])'
  BY <1>1, <1>2, <1>3, <1>4 DEF RowInv, SoleInv, OriginalBaseline, history
<1> QED BY <1>5, <1>6, <1>7 DEF SoleInv

\* Others change the limits of the endpoint by gateway-policy apply only.
LEMMA SoleOthers ==
  ASSUME NEW d, Evaluators = {d}, GovernorTypeOK, SoleInv(d),
         NewReading \/ ChangeOther \/ ApplyGet \/ ApplyPut \/ UNCHANGED govVars
  PROVE  SoleInv(d)'
<1>1. UNCHANGED <<row, audit, ev, original, tainted, unaudited>>
  BY DEF NewReading, ChangeOther, ApplyGet, ApplyPut, govVars, inputs, history
<1>2. \/ gw'.limit = gw.limit /\ gw'.fallback = gw.fallback /\ stray' = stray
      \/ stray' = TRUE
  <2>1. CASE ChangeOther
    BY <2>1, SoleTypes DEF ChangeOther, Gateway
  <2> QED BY <2>1 DEF NewReading, ApplyGet, ApplyPut, govVars, history
<1>3. EvaluationInv(ev[d])' /\ RowInv(ev[d])'
  BY <1>1 DEF EvaluationInv, RowInv, SoleInv, OriginalBaseline
<1>4. EndpointInv(ev[d])'
  BY <1>1, <1>2 DEF EndpointInv, SoleInv, HasLimitsOf
<1> QED BY <1>3, <1>4 DEF SoleInv

\* With one evaluator, what it remembers between its calls stays true of the row
\* and of the endpoint, failures and gateway-policy apply accounted for.
THEOREM SoleInvariant ==
  ASSUME NEW d, Evaluators = {d}
  PROVE  GovernorSpec => [](GovernorTypeOK /\ SoleInv(d))
<1>1. GovernorInit => SoleInv(d)
  BY SoleInit
<1>2. GovernorTypeOK /\ SoleInv(d) /\ [GovernorNext]_govVars => SoleInv(d)'
  BY SoleRead, SoleObserve, SoleCapture, SoleGet, SolePut, SoleSave, SoleAudit, SoleFails,
     SoleTick, SoleOthers DEF GovernorNext, EvaluateStep
<1> QED BY <1>1, <1>2, GovernorTypeCorrect, PTL DEF GovernorSpec

\* README.md: "Baseline limits are captured before the first throttle": whatever
\* evaluations the single evaluator dies in, the baseline is what the endpoint had
\* before them, unless it was captured from an endpoint put behind the row's back.
THEOREM GovernorKeepsOriginal ==
  ASSUME NEW d, Evaluators = {d}
  PROVE  GovernorSpec => []BaselineBeforeThrottle
<1>1. SoleInv(d) => BaselineBeforeThrottle
  BY DEF SoleInv, RowInv, BaselineBeforeThrottle
<1> QED BY <1>1, SoleInvariant, PTL

\* Between the evaluations of a single evaluator the endpoint has the limits of
\* the stage its row names, whatever stages, limits and failures came before.
THEOREM GovernorGatewayMatches ==
  ASSUME NEW d, Evaluators = {d}
  PROVE  GovernorSpec => []GatewayMatchesState
<1>1. SoleInv(d) => GatewayMatchesState
  <2> SUFFICES ASSUME SoleInv(d), row.present, ~ stray, \A e \in Evaluators : ev[e].pc # "save"
               PROVE  /\ HasLimitsOf(row.stage)
                      /\ row.stage = 0 => (gw.fallback = "on" <=> row.baseline.fallback = "on")
    BY DEF GatewayMatchesState
  <2> QED BY DEF SoleInv, EndpointInv
<1> QED BY <1>1, SoleInvariant, PTL

\* record_decision of a single evaluator follows its row, except where an
\* evaluation died between the two.
THEOREM GovernorAuditFollows ==
  ASSUME NEW d, Evaluators = {d}
  PROVE  GovernorSpec => []AuditFollowsRow
<1>1. SoleInv(d) => AuditFollowsRow
  BY DEF SoleInv, RowInv, AuditFollowsRow
<1> QED BY <1>1, SoleInvariant, PTL

\* No step but Save of an evaluator replaces the row.
LEMMA OnlySaveReplaces ==
  ASSUME GovernorTypeOK, [GovernorNext]_govVars, \A e \in Evaluators : ~ Save(e)
  PROVE  /\ row'.present = row.present /\ row'.stage = row.stage
         /\ row'.baseline = row.baseline
<1>1. CASE Tick
  BY <1>1, OlderRow DEF Tick, GovernorTypeOK
<1>2. CASE UNCHANGED row
  BY <1>2
<1> QED BY <1>1, <1>2
        DEF GovernorNext, EvaluateStep, Read, Observe, Capture, Get, Put, Audit, Fails,
            NewReading, ChangeOther, ApplyGet, ApplyPut, govVars

\* Once a single evaluator has saved a baseline, no step of it, no failure and no
\* gateway-policy apply ever changes it.
THEOREM GovernorKeepsBaseline ==
  ASSUME NEW d, Evaluators = {d}
  PROVE  GovernorSpec => BaselineIsKept
<1>1. ASSUME GovernorTypeOK, SoleInv(d), [GovernorNext]_govVars
      PROVE  [row.present => row'.present /\ row'.baseline = row.baseline]_govVars
  <2> SUFFICES ASSUME row.present
               PROVE  row'.present /\ row'.baseline = row.baseline
    OBVIOUS
  <2>1. CASE Save(d)
    <3>1. ev[d].baseline = row.baseline
      BY <1>1, <2>1 DEF Save, SoleInv, EvaluationInv
    <3> QED BY <2>1, <3>1 DEF Save, SavedBaseline
  <2>2. CASE ~ Save(d)
    BY <1>1, <2>2, OnlySaveReplaces
  <2> QED BY <2>1, <2>2
<1> QED BY <1>1, SoleInvariant, PTL DEF GovernorSpec, BaselineIsKept

\* A single evaluator relaxes a stage only Cooldown after its last change: the age
\* it has read is that of the row until it saves.
THEOREM GovernorHonoursCooldown ==
  ASSUME NEW d, Evaluators = {d}
  PROVE  GovernorSpec => CooldownHonoured
<1>1. ASSUME GovernorTypeOK, SoleInv(d), [GovernorNext]_govVars
      PROVE  [row'.stage < row.stage => row.age = Cooldown]_govVars
  <2> SUFFICES ASSUME row'.stage < row.stage
               PROVE  row.age = Cooldown
    OBVIOUS
  <2>1. CASE Save(d)
    BY <1>1, <2>1 DEF Save, SoleInv, EvaluationInv
  <2>2. CASE ~ Save(d)
    <3>1. row'.stage = row.stage /\ row.stage \in Int
      BY <1>1, <2>2, OnlySaveReplaces, SoleTypes, GovernorConstantsAreTyped DEF StageOrNone
    <3> QED BY <3>1
  <2> QED BY <2>1, <2>2
<1> QED BY <1>1, SoleInvariant, PTL DEF GovernorSpec, CooldownHonoured

-----------------------------------------------------------------------------
(* With one evaluator, every step of Governor is a step of Fleet with one   *)
(* governor, or a stutter, for any values of the constants.                 *)

\* The same stages are selected, from the same readings, for the same governor.
LEMMA SameSelection ==
  ASSUME NEW util, NEW active
  PROVE  Abstract!SelectStage(util, active) = SelectStage(util, active)
<1>1. Abstract!Stages = Stages
  BY DEF Abstract!Stages, Stages
<1>2. \A i : Abstract!EffectiveThreshold(i, active) = EffectiveThreshold(i, active)
  BY DEF Abstract!EffectiveThreshold, EffectiveThreshold
<1>3. Abstract!Reached(util, active) = Reached(util, active)
  BY <1>1, <1>2 DEF Abstract!Reached, Reached
<1> QED BY <1>3 DEF Abstract!SelectStage, SelectStage

\* The abstract fleet has one governor and the same readings.
LEMMA SameReadings == Abstract!Reading = Reading /\ Abstract!Governors = {1}
<1>1. 1..1 = {1}
  OBVIOUS
<1> QED BY <1>1 DEF Abstract!Reading, Reading, Abstract!Governors

\* The variables of Fleet, by the pc of the evaluation.
LEMMA Mapping ==
  ASSUME NEW d, Evaluators = {d}
  PROVE  /\ ev[d].pc \in {"idle", "down"} => MappedPass = 0
         /\ ev[d].pc \notin {"idle", "down"} => MappedPass = 1
         /\ ev[d].pc \in {"idle", "down", "observe"} => MappedPhase = "observe"
         /\ ev[d].pc = "audit" => MappedPhase = "record" /\ MappedSelected = 0
         /\ ev[d].pc \in {"capture", "get", "put", "save"} => MappedPhase = "commit"
         /\ ev[d].pc # "audit" => MappedSelected = ev[d].selected
         /\ ev[d].pc = "down" => MappedDown = 1
         /\ ev[d].pc # "down" => MappedDown = 0
<1>1. TheEvaluation = ev[d]
  BY DEF TheEvaluation
<1> QED BY <1>1 DEF MappedPass, MappedPhase, MappedSelected, MappedDown, InProgress

\* Initial states are initial states of the fleet.
LEMMA InitRefines ==
  ASSUME NEW d, Evaluators = {d}, GovernorInit
  PROVE  Abstract!FleetInit
<1>1. ev[d].pc = "idle" /\ ev[d].selected = 0
  BY DEF GovernorInit, AtRest
<1>2. MappedRow = [present |-> FALSE, stage |-> 0, age |-> 0] /\ reading \in Reading
  BY DEF GovernorInit, NoRow, MappedRow
<1> QED BY <1>1, <1>2, SameReadings, Mapping DEF Abstract!FleetInit

\* What a step of the evaluation makes of them.
LEMMA MappingNext ==
  ASSUME NEW d, Evaluators = {d}
  PROVE  /\ ev'[d].pc \in {"idle", "down"} => MappedPass' = 0
         /\ ev'[d].pc \notin {"idle", "down"} => MappedPass' = 1
         /\ ev'[d].pc \in {"idle", "down", "observe"} => MappedPhase' = "observe"
         /\ ev'[d].pc = "audit" => MappedPhase' = "record" /\ MappedSelected' = 0
         /\ ev'[d].pc \in {"capture", "get", "put", "save"} => MappedPhase' = "commit"
         /\ ev'[d].pc # "audit" => MappedSelected' = ev'[d].selected
         /\ ev'[d].pc = "down" => MappedDown' = 1
         /\ ev'[d].pc # "down" => MappedDown' = 0
<1>1. TheEvaluation' = ev'[d]
  BY DEF TheEvaluation
<1> QED BY <1>1 DEF MappedPass, MappedPhase, MappedSelected, MappedDown, InProgress

\* Begin: the row is read.
LEMMA ReadRefines ==
  ASSUME NEW d, Evaluators = {d}, GovernorTypeOK, SoleInv(d), Read(d)
  PROVE  Abstract!Begin
<1>1. /\ ev[d].pc \in {"idle", "down"} /\ ev[d].selected = 0
      /\ ev'[d].pc = "observe" /\ ev'[d].selected = 0
  BY SoleTypes DEF Read, Evaluation, SoleInv, EvaluationInv
<1>2. MappedRow' = MappedRow /\ reading' = reading
  BY DEF Read, MappedRow, inputs
<1> QED BY <1>1, <1>2, Mapping, MappingNext DEF Abstract!Begin, Abstract!FirstOf

\* Decide: from the row, which the evaluation has read and which is the same still.
LEMMA ObserveRefines ==
  ASSUME NEW d, Evaluators = {d}, GovernorTypeOK, SoleInv(d), Observe(d)
  PROVE  Abstract!Decide
<1> DEFINE to == SelectStage(reading.util, row.stage)
           ends == reading.stale \/ CoolingDown(row, to) \/ Unchanged(row, to)
<1>1. /\ ev[d].pc = "observe" /\ ev[d].runtime = row /\ ev[d].selected = 0
  BY DEF Observe, SoleInv, EvaluationInv
<1>2. MappedRow' = MappedRow /\ reading' = reading
  BY DEF Observe, MappedRow, inputs
<1>3. /\ ends => ev'[d].pc = "idle" /\ ev'[d].selected = 0
      /\ ~ ends => ev'[d].pc \in {"capture", "get"} /\ ev'[d].selected = to
  <2>1. CASE ends
    BY <1>1, <2>1, SoleTypes DEF Observe, Return, AtRest
  <2>2. CASE ~ ends
    <3>1. ev' = [ev EXCEPT ![d].pc = FirstCall(row, to), ![d].selected = to]
      BY <1>1, <2>2 DEF Observe
    <3> HIDE DEF to
    <3> QED BY <2>2, <3>1, SoleTypes DEF Evaluation, FirstCall
  <2> QED BY <2>1, <2>2
<1>4. Abstract!SelectStage(reading.util, MappedRow.stage) = to
  BY SameSelection DEF MappedRow
<1>5. ends <=> reading.stale \/ Abstract!CoolingDown(MappedRow, to) \/ Abstract!Unchanged(MappedRow, to)
  BY DEF MappedRow, Abstract!CoolingDown, Abstract!Unchanged, Abstract!IsRelaxation,
         CoolingDown, Unchanged, IsRelaxation
<1> HIDE DEF to, ends
<1>6. /\ MappedPass = 1 /\ MappedPhase = "observe" /\ MappedDown = 0 /\ MappedDown' = 0
      /\ ends => MappedPass' = 0 /\ MappedPhase' = "observe" /\ MappedSelected' = 0
      /\ ~ ends => MappedPass' = 1 /\ MappedPhase' = "commit" /\ MappedSelected' = to
  BY <1>1, <1>3, Mapping, MappingNext
<1> QED BY <1>2, <1>4, <1>5, <1>6 DEF Abstract!Decide, Abstract!Advance

\* Commit: the row is written.
LEMMA SaveRefines ==
  ASSUME NEW d, Evaluators = {d}, GovernorTypeOK, SoleInv(d), Save(d)
  PROVE  Abstract!Commit
<1>1. ev[d].pc = "save" /\ ev'[d].pc = "audit"
  BY SoleTypes DEF Save, Goto, Evaluation
<1>2. MappedRow' = [present |-> TRUE, stage |-> ev[d].selected, age |-> 0] /\ reading' = reading
  BY DEF Save, MappedRow, inputs
<1>3. /\ MappedPass = 1 /\ MappedPass' = 1 /\ MappedPhase = "commit" /\ MappedPhase' = "record"
      /\ MappedSelected = ev[d].selected /\ MappedSelected' = 0
      /\ MappedDown = 0 /\ MappedDown' = 0
  BY <1>1, Mapping, MappingNext
<1>4. [g \in {1} |-> MappedRow'] = [[g \in {1} |-> MappedRow] EXCEPT ![1] = MappedRow']
  OBVIOUS
<1> QED BY <1>2, <1>3, <1>4 DEF Abstract!Commit

\* Record: the audit log is written, the last governor of the pass is done.
LEMMA AuditRefines ==
  ASSUME NEW d, Evaluators = {d}, GovernorTypeOK, SoleInv(d), Audit(d)
  PROVE  Abstract!Record
<1>1. ev[d].pc = "audit" /\ ev'[d].pc = "idle" /\ ev'[d].selected = 0
  BY SoleTypes DEF Audit, Return, AtRest
<1>2. MappedRow' = MappedRow /\ reading' = reading
  BY DEF Audit, MappedRow, inputs
<1>3. /\ MappedPass = 1 /\ MappedPass' = 0 /\ MappedPhase = "record" /\ MappedPhase' = "observe"
      /\ MappedSelected' = 0 /\ MappedDown = 0 /\ MappedDown' = 0
  BY <1>1, Mapping, MappingNext
<1> QED BY <1>2, <1>3 DEF Abstract!Record, Abstract!Advance

\* Abort: an exception, wherever it comes from.
LEMMA RaiseRefines ==
  ASSUME NEW d, Evaluators = {d}, GovernorTypeOK, ev[d].pc \notin {"idle", "down"}, Raise(d),
         UNCHANGED <<row, reading>>
  PROVE  Abstract!Abort
<1>1. ev'[d].pc = "down" /\ ev'[d].selected = 0
  BY SoleTypes DEF Raise, AtRest
<1>2. MappedRow' = MappedRow
  BY DEF MappedRow
<1>3. /\ MappedPass = 1 /\ MappedPass' = 0 /\ MappedPhase' = "observe"
      /\ MappedSelected' = 0 /\ MappedDown' = 1
  BY <1>1, Mapping, MappingNext
<1> QED BY <1>2, <1>3 DEF Abstract!Abort

\* A stutter: the calls to the gateway.
LEMMA CallsRefine ==
  ASSUME NEW d, Evaluators = {d}, GovernorTypeOK, SoleInv(d),
         Capture(d) \/ Put(d) \/ (Get(d) /\ NewLimit(ev[d]) > 0)
  PROVE  UNCHANGED Abstract!fleetVars
<1>1. /\ ev[d].pc \in {"capture", "get", "put"} /\ ev'[d].pc \in {"get", "put", "save"}
      /\ ev'[d].selected = ev[d].selected
  <2>1. CASE Capture(d)
    BY <2>1, SoleTypes DEF Capture, Evaluation
  <2>2. CASE Put(d)
    BY <2>2, SoleTypes DEF Put, Goto, AfterPut, Evaluation
  <2>3. CASE Get(d) /\ NewLimit(ev[d]) > 0
    BY <2>3, SoleTypes DEF Get, Evaluation
  <2> QED BY <2>1, <2>2, <2>3
<1>2. MappedRow' = MappedRow /\ reading' = reading
  BY DEF Capture, Put, Get, MappedRow, inputs
<1> QED BY <1>1, <1>2, Mapping, MappingNext DEF Abstract!fleetVars

\* FleetTick.
LEMMA TickRefines ==
  ASSUME NEW d, Evaluators = {d}, GovernorTypeOK, Tick
  PROVE  Abstract!FleetTick
<1> DEFINE older(r) == [r EXCEPT !.age = IF r.present /\ @ < Cooldown THEN @ + 1 ELSE @]
<1>1. row' = older(row) /\ ev'[d] = [ev[d] EXCEPT !.runtime = older(ev[d].runtime)] /\ reading' = reading
  BY DEF Tick, inputs
<1>2. ev'[d].pc = ev[d].pc /\ ev'[d].selected = ev[d].selected
  <2> HIDE DEF older
  <2> QED BY <1>1, SoleTypes DEF Evaluation
<1>3. MappedRow' = [MappedRow EXCEPT !.age = IF row.present /\ @ < Cooldown THEN @ + 1 ELSE @]
  <2>1. /\ row'.present = row.present /\ row'.stage = row.stage
        /\ row'.age = IF row.present /\ row.age < Cooldown THEN row.age + 1 ELSE row.age
    BY <1>1, SoleTypes, OlderRow
  <2> QED BY <2>1 DEF MappedRow
<1>4. MappedRow.present = row.present
  BY DEF MappedRow
<1>5. /\ MappedPass' = MappedPass /\ MappedPhase' = MappedPhase
      /\ MappedSelected' = MappedSelected /\ MappedDown' = MappedDown
  BY <1>2, Mapping, MappingNext, SoleTypes DEF Evaluation
<1> QED BY <1>1, <1>3, <1>4, <1>5, SameReadings DEF Abstract!FleetTick

\* FleetReading, or a stutter.
LEMMA OthersRefine ==
  ASSUME NEW d, Evaluators = {d}, GovernorTypeOK,
         NewReading \/ ChangeOther \/ ApplyGet \/ ApplyPut \/ UNCHANGED govVars
  PROVE  Abstract!FleetReading \/ UNCHANGED Abstract!fleetVars
<1>1. row' = row /\ ev' = ev
  BY DEF NewReading, ChangeOther, ApplyGet, ApplyPut, govVars
<1>2. /\ MappedRow' = MappedRow /\ MappedPass' = MappedPass /\ MappedPhase' = MappedPhase
      /\ MappedSelected' = MappedSelected /\ MappedDown' = MappedDown
  BY <1>1 DEF MappedRow, MappedPass, MappedPhase, MappedSelected, MappedDown, InProgress, TheEvaluation
<1>3. CASE NewReading
  <2>1. reading' \in Reading
    BY <1>3 DEF NewReading
  <2> QED BY <1>2, <2>1, SameReadings DEF Abstract!FleetReading
<1>4. CASE reading' = reading
  BY <1>2, <1>4 DEF Abstract!fleetVars
<1> QED BY <1>3, <1>4 DEF ChangeOther, ApplyGet, ApplyPut, govVars, inputs

\* Every step is a step of the fleet, or changes nothing there.
LEMMA StepRefines ==
  ASSUME NEW d, Evaluators = {d}, GovernorTypeOK, SoleInv(d), [GovernorNext]_govVars
  PROVE  [Abstract!FleetNext]_Abstract!fleetVars
<1>1. CASE Get(d) /\ ~ (NewLimit(ev[d]) > 0)
  <2>1. Raise(d) /\ UNCHANGED <<row, reading>> /\ ev[d].pc = "get"
    BY <1>1 DEF Get, inputs
  <2> QED BY <2>1, RaiseRefines DEF Abstract!FleetNext
<1>2. CASE Fails(d)
  <2>1. Raise(d) /\ UNCHANGED <<row, reading>> /\ ev[d].pc \notin {"idle", "down"}
    BY <1>2 DEF Fails
  <2> QED BY <2>1, RaiseRefines DEF Abstract!FleetNext
<1>3. CASE Read(d) \/ Observe(d) \/ Save(d) \/ Audit(d)
  BY <1>3, ReadRefines, ObserveRefines, SaveRefines, AuditRefines
     DEF Abstract!FleetNext, Abstract!EvaluationStep
<1>4. CASE Capture(d) \/ Put(d) \/ (Get(d) /\ NewLimit(ev[d]) > 0)
  BY <1>4, CallsRefine
<1>5. CASE Tick
  BY <1>5, TickRefines DEF Abstract!FleetNext
<1>6. CASE NewReading \/ ChangeOther \/ ApplyGet \/ ApplyPut \/ UNCHANGED govVars
  BY <1>6, OthersRefine DEF Abstract!FleetNext
<1> QED BY <1>1, <1>2, <1>3, <1>4, <1>5, <1>6 DEF GovernorNext, EvaluateStep

\* evaluate of a single evaluator, call by call, with its failures and with
\* others at the endpoint, decides and records as the one-step evaluation of
\* Fleet does.  ImplementsFleet adds fairness to this.
THEOREM GovernorRefinesFleet ==
  ASSUME NEW d, Evaluators = {d}
  PROVE  GovernorSpec => Abstract!FleetSafety
<1>1. GovernorInit => Abstract!FleetInit
  BY InitRefines
<1>2. GovernorTypeOK /\ SoleInv(d) /\ [GovernorNext]_govVars => [Abstract!FleetNext]_Abstract!fleetVars
  BY StepRefines
<1> QED BY <1>1, <1>2, SoleInvariant, PTL DEF GovernorSpec, Abstract!FleetSafety

=============================================================================
