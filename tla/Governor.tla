------------------------------ MODULE Governor ------------------------------
(***************************************************************************)
(* The burn-rate governor (governor/engine.py): GovernorEngine.evaluate    *)
(* with apply=True for one governor and its serving endpoint.  Evaluators  *)
(* are the processes that may call it: the daemon, the Lakeflow job, the   *)
(* control plane's evaluate endpoint.  evaluate reads its row, fetches the *)
(* telemetry, GETs and PUTs the AI Gateway configuration, writes its row   *)
(* back and appends to the audit log; each is a step here, and evaluators  *)
(* interleave between them.  For one evaluator this implements Fleet with  *)
(* one governor, which takes the decision as one step.                     *)
(*                                                                         *)
(* The limits of the endpoint are one number, the qpm of one limit; 0 is   *)
(* an empty list of limits.  The ownership tags, which every PUT replaces, *)
(* are not among its settings here; Reconciler has them.  The columns the  *)
(* stage alone determines (block_proxy_traffic and the allowlist) are in   *)
(* Fleet.  A dry run (apply=False) changes nothing.                        *)
(***************************************************************************)
EXTENDS StageSelection

CONSTANTS
  Evaluators,
  Readings,         \* forecast utilizations
  InitialGateways,  \* configurations the endpoint may have before the governor runs
  DeclaredLimit,    \* qpm of the EndpointRateLimitPolicy
  StageFallback,    \* fallback_enabled of each stage, "unset" for None
  PolicyFallback,   \* fallback_enabled of the EndpointRateLimitPolicy
  OtherSettings,    \* guardrails, inference tables...: values of the rest
  Cooldown,         \* cooldown_seconds, in ticks
  MaxFailures,      \* bound: evaluations that end in an exception
  MaxApplies        \* bound: runs of gateway-policy apply

Fallbacks == {"on", "off", "unset"}

Gateway  == [limit : Nat, fallback : Fallbacks, other : OtherSettings]
Baseline == [limit : Nat \ {0}, fallback : Fallbacks]

ASSUME GovernorConstants ==
  /\ Readings \subseteq Nat
  /\ InitialGateways \subseteq Gateway /\ DeclaredLimit \in Nat \ {0}
  /\ StageFallback \in [Stages -> Fallbacks] /\ PolicyFallback \in Fallbacks
  /\ Cooldown \in Nat /\ MaxFailures \in Nat /\ MaxApplies \in Nat

VARIABLES
  gw,        \* the endpoint's AI Gateway configuration
  row,       \* the governor_state row
  audit,     \* the stage in the last audit record of a change
  reading,   \* what the telemetry and the forecast return
  ev,        \* the evaluations in progress
  applier,   \* gateway-policy apply on the same endpoint
  failures, applies,
  original,  \* history: the configuration before the governor ran
  chosen,    \* history: the other settings the operator chose, when unambiguous
  stray,     \* history: the endpoint has been put behind the back of the row
  tainted,   \* history: a baseline has been captured from a stray endpoint
  unaudited  \* history: a change was saved and its audit record never written

inputs  == <<reading, failures, applies>>
history == <<original, chosen, stray, tainted, unaudited>>
govVars == <<gw, row, audit, ev, applier, inputs, history>>

\* governor_state.  "age" is the time since last_applied_at, up to Cooldown.
Row == [present : BOOLEAN, stage : StageOrNone, age : 0..Cooldown, baseline : Baseline]

NoRow == [present |-> FALSE, stage |-> 0, age |-> 0,
          baseline |-> [limit |-> DeclaredLimit, fallback |-> "unset"]]

\* A stale snapshot is an empty one, its forecast is 0.
Reading == [util : Readings, stale : {FALSE}] \cup [util : {0}, stale : {TRUE}]

\* The local variables of evaluate: runtime, selected, the baseline it will
\* use and save, and the configuration _apply_rate_limits has read.  "down" is
\* a process that an exception has ended.
Evaluation ==
  [pc : {"idle", "down", "observe", "capture", "get", "put", "save", "audit"},
   runtime : Row, selected : StageOrNone, baseline : Baseline, got : Gateway]

AtRest(pc) == [pc |-> pc, runtime |-> NoRow, selected |-> 0,
               baseline |-> NoRow.baseline, got |-> original]

GovernorInit ==
  /\ gw \in InitialGateways
  /\ row = NoRow /\ audit = 0
  /\ reading \in Reading
  /\ original = gw /\ chosen = {gw.other}
  /\ stray = FALSE /\ tainted = FALSE /\ unaudited = FALSE
  /\ ev = [e \in Evaluators |-> AtRest("idle")]
  /\ applier = [pc |-> "idle", got |-> gw]
  /\ failures = 0 /\ applies = 0

-----------------------------------------------------------------------------
(* evaluate *)

Goto(e, pc) == ev' = [ev EXCEPT ![e].pc = pc]
Return(e)   == ev' = [ev EXCEPT ![e] = AtRest("idle")]
Raise(e)    == ev' = [ev EXCEPT ![e] = AtRest("down")]

\* get_governor_state, and _baseline_limits and _baseline_gateway of the row.
Read(e) ==
  /\ ev[e].pc \in {"idle", "down"}
  /\ ev' = [ev EXCEPT ![e].pc = "observe", ![e].runtime = row, ![e].baseline = row.baseline]
  /\ UNCHANGED <<gw, row, audit, applier, inputs, history>>

\* _is_relaxation, for stages in the order of the policy.
IsRelaxation(active, selected) == selected < active

\* Defects: the cooldown is ignored, or never ends.
NeverCoolingDown(runtime, selected) == FALSE

EndlessCooldown(runtime, selected) ==
  IsRelaxation(runtime.stage, selected) /\ runtime.present

CoolingDown(runtime, selected) ==
  IsRelaxation(runtime.stage, selected) /\ runtime.present /\ runtime.age < Cooldown

\* Defect: without an active stage nothing selected counts as unchanged, even
\* before the first row.
UnchangedByDefault(runtime, selected) == selected = runtime.stage

Unchanged(runtime, selected) == runtime.present /\ selected = runtime.stage

\* Defect: the baseline is read again before every change.
RecaptureNext(runtime, selected) == "capture"

\* The first call to the gateway once a change is decided: without a row the
\* baseline is captured from the endpoint.
FirstCall(runtime, selected) == IF runtime.present THEN "get" ELSE "capture"

\* The forecast, the choice of a stage, and the early returns.
Observe(e) ==
  LET runtime  == ev[e].runtime
      selected == SelectStage(reading.util, runtime.stage)
      ends     == reading.stale \/ CoolingDown(runtime, selected) \/ Unchanged(runtime, selected)
  IN  /\ ev[e].pc = "observe"
      /\ IF ends THEN Return(e)
         ELSE ev' = [ev EXCEPT ![e].pc = FirstCall(runtime, selected), ![e].selected = selected]
      /\ UNCHANGED <<gw, row, audit, applier, inputs, history>>

\* Defect: an endpoint without limits has no baseline.
CapturedAsIs(limit) == limit

\* Captured limits replace the declared ones, unless there are none.
CapturedLimit(limit) == IF limit = 0 THEN DeclaredLimit ELSE limit

\* _capture_baseline_gateway.  With no stage selected and none active nothing
\* is put, the row is written at once.
Capture(e) ==
  /\ ev[e].pc = "capture"
  /\ ev' = [ev EXCEPT ![e].pc = IF ev[e].selected = 0 /\ ev[e].runtime.stage = 0
                                THEN "save" ELSE "get",
                      ![e].baseline = [limit |-> CapturedLimit(gw.limit),
                                       fallback |-> gw.fallback]]
  /\ tainted' = (tainted \/ stray)
  /\ UNCHANGED <<gw, row, audit, applier, inputs, original, chosen, stray, unaudited>>

NewLimit(x) == Scale(x.baseline.limit, x.selected)

\* Defect: recovery leaves the fallback of the last stage in place.
FallbackNotRestored(x) ==
  IF x.selected # 0 /\ StageFallback[x.selected] # "unset" THEN StageFallback[x.selected]
  ELSE PolicyFallback

\* The fallback to put, "unset" to leave it alone.
NewFallback(x) ==
  CASE x.selected = 0 -> IF x.baseline.fallback = "on" THEN "on" ELSE "off"
    [] x.selected # 0 /\ StageFallback[x.selected] # "unset" -> StageFallback[x.selected]
    [] OTHER -> PolicyFallback

\* Defect: the configuration to put is not made from the one that is there.
MergeFromScratch(existing, limit, fallback) ==
  [limit |-> limit, fallback |-> fallback, other |-> CHOOSE o \in OtherSettings : TRUE]

\* merge_gateway_rate_limits, but for the ownership tags.
Merge(existing, limit, fallback) ==
  [existing EXCEPT !.limit = limit, !.fallback = IF fallback = "unset" THEN @ ELSE fallback]

\* The GET of _apply_rate_limits.  A limit of 0 then fails the validation of
\* RateLimitPolicy, and the exception ends the evaluation.
Get(e) ==
  /\ ev[e].pc = "get"
  /\ IF NewLimit(ev[e]) > 0 THEN ev' = [ev EXCEPT ![e].pc = "put", ![e].got = gw] ELSE Raise(e)
  /\ UNCHANGED <<gw, row, audit, applier, inputs, history>>

\* Defect: the decision is recorded but its row is not written.
RecordOnly == "audit"

AfterPut == "save"

\* The PUT of _apply_rate_limits, of what the GET returned with new limits.
Put(e) ==
  /\ ev[e].pc = "put"
  /\ gw' = Merge(ev[e].got, NewLimit(ev[e]), NewFallback(ev[e]))
  /\ Goto(e, AfterPut)
  /\ stray' = FALSE
  /\ UNCHANGED <<row, audit, applier, inputs, original, chosen, tainted, unaudited>>

\* Defect: the limits just applied are saved, not those they were made from.
SavedBaselineScaled(x) == [x.baseline EXCEPT !.limit = NewLimit(x)]

SavedBaseline(x) == x.baseline

\* upsert_governor_state.
Save(e) ==
  /\ ev[e].pc = "save"
  /\ row' = [present |-> TRUE, stage |-> ev[e].selected, age |-> 0,
             baseline |-> SavedBaseline(ev[e])]
  /\ Goto(e, "audit")
  /\ UNCHANGED <<gw, audit, applier, inputs, history>>

\* record_decision: governor_stage_applied or governor_recovered.
Audit(e) ==
  /\ ev[e].pc = "audit"
  /\ audit' = ev[e].selected /\ unaudited' = FALSE
  /\ Return(e)
  /\ UNCHANGED <<gw, row, applier, inputs, original, chosen, stray, tainted>>

\* An exception from the store, the telemetry or the gateway ends the
\* evaluation; so does the end of the process.  The next one starts afresh.
\* Between the PUT and the upsert this leaves a change that no row tells of.
Fails(e) ==
  /\ ev[e].pc \notin {"idle", "down"} /\ failures < MaxFailures
  /\ failures' = failures + 1
  /\ Raise(e)
  /\ stray' = (stray \/ ev[e].pc = "save")
  /\ unaudited' = (unaudited \/ ev[e].pc = "audit")
  /\ UNCHANGED <<gw, row, audit, reading, applier, applies, original, chosen, tainted>>

EvaluateStep(e) ==
  Read(e) \/ Observe(e) \/ Capture(e) \/ Get(e) \/ Put(e) \/ Save(e) \/ Audit(e)

-----------------------------------------------------------------------------
(* Around the governor *)

\* Time passes for the row and for the copies of it in memory.
Tick ==
  LET older(r) == [r EXCEPT !.age = IF r.present /\ @ < Cooldown THEN @ + 1 ELSE @]
  IN  /\ row' = older(row)
      /\ ev' = [e \in Evaluators |-> [ev[e] EXCEPT !.runtime = older(@)]]
      /\ UNCHANGED <<gw, audit, applier, inputs, history>>

\* Spend changes, telemetry becomes stale or fresh.
NewReading ==
  /\ reading' \in Reading
  /\ UNCHANGED <<gw, row, audit, ev, applier, failures, applies, history>>

\* A configuration has been read and is about to be put back.
PutPending == applier.pc = "put" \/ \E e \in Evaluators : ev[e].pc = "put"

\* An operator changes a setting of the endpoint other than its limits.
ChangeOther ==
  /\ \E o \in OtherSettings :
        /\ gw' = [gw EXCEPT !.other = o]
        /\ chosen' = IF PutPending THEN OtherSettings ELSE {o}
  /\ UNCHANGED <<row, audit, ev, applier, inputs, original, stray, tainted, unaudited>>

\* Applier._apply_rate_limit_action for the planned update of this endpoint:
\* a GET and a PUT of the declared limits.  The plan is a no-op when limits
\* and fallback are as declared.
ApplyGet ==
  /\ applier.pc = "idle" /\ applies < MaxApplies
  /\ gw.limit # DeclaredLimit \/ gw.fallback # PolicyFallback
  /\ applies' = applies + 1
  /\ applier' = [pc |-> "put", got |-> gw]
  /\ UNCHANGED <<gw, row, audit, reading, ev, failures, history>>

ApplyPut ==
  /\ applier.pc = "put"
  /\ gw' = Merge(applier.got, DeclaredLimit, PolicyFallback)
  /\ applier' = [pc |-> "idle", got |-> original]
  /\ stray' = TRUE
  /\ UNCHANGED <<row, audit, ev, inputs, original, chosen, tainted, unaudited>>

GovernorNext ==
  \/ \E e \in Evaluators : EvaluateStep(e) \/ Fails(e)
  \/ Tick \/ NewReading \/ ChangeOther \/ ApplyGet \/ ApplyPut

\* run_daemon evaluates for ever and the job is scheduled, every call it makes
\* returns or raises, and time passes.
GovernorFairness == (\A e \in Evaluators : WF_govVars(EvaluateStep(e))) /\ WF_govVars(Tick)

GovernorSpec == GovernorInit /\ [][GovernorNext]_govVars /\ GovernorFairness

-----------------------------------------------------------------------------
GovernorTypeOK ==
  /\ gw \in Gateway /\ original \in Gateway /\ chosen \subseteq OtherSettings
  /\ row \in Row /\ audit \in StageOrNone
  /\ reading \in Reading
  /\ ev \in [Evaluators -> Evaluation]
  /\ applier \in [pc : {"idle", "put"}, got : Gateway]
  /\ failures \in 0..MaxFailures /\ applies \in 0..MaxApplies
  /\ {stray, tainted, unaudited} \subseteq BOOLEAN

OriginalBaseline == [limit |-> CapturedLimit(original.limit), fallback |-> original.fallback]

\* README.md: "Baseline limits are captured before the first throttle".  The
\* baseline that recovery restores is the configuration the endpoint had before
\* any evaluation changed it, unless it was captured after an evaluation had
\* died with its throttle in place, or after gateway-policy apply.
BaselineBeforeThrottle == row.present /\ ~tainted => row.baseline = OriginalBaseline

\* Once saved, the baseline is never replaced, whatever evaluate, its failures
\* and gateway-policy apply make of the endpoint's limits afterwards.
BaselineIsKept == [][row.present => row'.present /\ row'.baseline = row.baseline]_govVars

\* The limits of a stage, as made from the baseline of the row.  Without a stage
\* they are the baseline; an endpoint that never had a limit has none until it
\* is throttled.
HasLimitsOf(stage) ==
  \/ gw.limit = Scale(row.baseline.limit, stage)
  \/ stage = 0 /\ gw.limit = original.limit

\* Between evaluations the endpoint has the limits of the stage that the row
\* names, and the limits and fallback of the baseline when it names none.  An
\* evaluation that died after its PUT, or an apply, may break this, and the next
\* change of stage mends it.
GatewayMatchesState ==
  row.present /\ ~stray /\ (\A e \in Evaluators : ev[e].pc # "save") =>
    /\ HasLimitsOf(row.stage)
    /\ row.stage = 0 => (gw.fallback = "on" <=> row.baseline.fallback = "on")

\* The audit log tells the stage of the row: a record is never ahead of its
\* change, and behind it only while the evaluation is about to write it or when
\* the evaluation died there.
AuditFollowsRow == audit = row.stage \/ unaudited \/ \E e \in Evaluators : ev[e].pc = "audit"

\* A stage is relaxed only Cooldown after the last change.
CooldownHonoured == [][row'.stage < row.stage => row.age = Cooldown]_govVars

\* No stage scales the limit down to zero.
Throttleable == \A i \in Stages : Scale(OriginalBaseline.limit, i) > 0

\* When the telemetry stays fresh and the forecast stays put, the governor ends
\* in the stage the forecast selects, with the limits of this stage on the
\* endpoint: it throttles when spend is high and restores when it is low.  For
\* this no stage may scale the limit to zero: such a stage is never applied.  A
\* stray endpoint is not noticed while the stage stays.
ConvergesOnSteadyReading ==
  Throttleable => \A u \in Readings :
    <>[](reading = [util |-> u, stale |-> FALSE])
      => <>[](\/ /\ row.present
                 /\ row.stage = SelectStage(u, row.stage)
                 /\ HasLimitsOf(row.stage) \/ stray
              \/ tainted)

\* README.md: "Governor never mutates budgets or unrelated AI Gateway settings".
\* A setting is as the operator last chose it, unless the change was made between
\* a GET and the PUT of what it had returned.  (Of the ownership tags this does
\* not hold: every PUT replaces them.)
UnrelatedSettingsKept == gw.other \in chosen

-----------------------------------------------------------------------------
(* Refinement, for one evaluator *)

TheEvaluation == ev[CHOOSE e \in Evaluators : TRUE]
InProgress    == TheEvaluation.pc \notin {"idle", "down"}

MappedRow      == [present |-> row.present, stage |-> row.stage, age |-> row.age]
MappedPass     == IF InProgress THEN 1 ELSE 0
MappedSelected == IF TheEvaluation.pc = "audit" THEN 0 ELSE TheEvaluation.selected
MappedDown     == IF TheEvaluation.pc = "down" THEN 1 ELSE 0
MappedPhase    ==
  IF TheEvaluation.pc \in {"idle", "down", "observe"} THEN "observe"
  ELSE IF TheEvaluation.pc = "audit" THEN "record" ELSE "commit"

Abstract == INSTANCE Fleet WITH
  NumGovernors <- 1, Identities <- {},
  Blocking  <- [g \in {1} |-> {}],
  Allowlist <- [g \in {1} |-> [i \in Stages |-> {}]],
  rows      <- [g \in {1} |-> MappedRow],
  readings  <- [g \in {1} |-> reading],
  pass      <- MappedPass,
  phase     <- MappedPhase,
  selected  <- MappedSelected,
  down      <- MappedDown

\* The reads, calls and failures of evaluate, gateway-policy apply and an
\* operator's changes in between, amount to the steps of Fleet, and to its
\* fairness: a decision on a reading and on the row as it is at that time, then
\* nothing, an exception, or the row of this decision.
ImplementsFleet == Abstract!FleetSpec

=============================================================================
