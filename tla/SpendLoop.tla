----------------------------- MODULE SpendLoop -----------------------------
(***************************************************************************)
(* The loop that the governor closes: usage of the endpoint shows up in    *)
(* the system tables, telemetry.py makes a spend snapshot of them,         *)
(* forecast.py or the forecast endpoint a utilization of the monthly       *)
(* target, the engine a stage, and the stage limits the usage of the next  *)
(* day.  Time goes by in days and one evaluation ends each day: whatever   *)
(* several evaluations of a day do is covered, but the usage between two   *)
(* is never more than a day's.  A cooldown is over by the next day.        *)
(*                                                                         *)
(* Usage is in dollars of a single model that is in model_prices.  All of  *)
(* it goes through the session proxy, nobody is on an emergency allowlist. *)
(***************************************************************************)
EXTENDS StageSelection, Totals

CONSTANTS
  MonthDays,     \* days of a month, all months alike
  LookbackDays,  \* lookback_days
  BillingLag,    \* days until usage is in system.billing.usage
  Usages,        \* what may be spent on a day
  MaxUsage,      \* what is spent on a day at the limits of the baseline
  Target,        \* monthly_target_usd
  Blocking,      \* the stages with block_proxy_traffic
  Predictions    \* utilizations the forecast endpoint may predict

Horizon == IF LookbackDays < MonthDays THEN MonthDays ELSE LookbackDays
Queries == {"billing", "daily", "tokens"}

ASSUME SpendLoopConstants ==
  /\ {MonthDays, LookbackDays, Target} \subseteq Nat \ {0} /\ BillingLag \in Nat
  /\ MaxUsage \in Nat /\ Usages \subseteq 0..MaxUsage
  /\ Blocking \subseteq Stages /\ Predictions \subseteq Nat

VARIABLES
  usage,    \* dollars, by age in days: usage[0] is that of today
  day,      \* day of the month
  stage,    \* active_stage
  phase,    \* "use" or "evaluate"
  trusted,  \* history: the last evaluation saw every table and used its own forecast
  blind     \* history: evaluations of this month that did not

loopVars == <<usage, day, stage, phase, trusted, blind>>

LoopInit ==
  /\ usage = [a \in 0..Horizon |-> 0] /\ day \in 1..MonthDays
  /\ stage = 0 /\ phase = "use" /\ trusted = TRUE /\ blind = 0

-----------------------------------------------------------------------------
(* Usage *)

\* A stage that blocks lets nothing through the proxy, another one scales what
\* the endpoint will serve.
Allowed(s) == IF s \in Blocking THEN 0 ELSE Scale(MaxUsage, s)

NextDay == (day % MonthDays) + 1

UseADay ==
  /\ phase = "use"
  /\ \E u \in Usages :
       /\ u <= Allowed(stage)
       /\ usage' = [a \in 0..Horizon |-> IF a = 0 THEN u ELSE usage[a - 1]]
  /\ day' = NextDay
  /\ blind' = IF day' = 1 THEN 0 ELSE blind
  /\ phase' = "evaluate"
  /\ UNCHANGED <<stage, trusted>>

-----------------------------------------------------------------------------
(* fetch_spend_snapshot.  A statement that has not succeeded within its     *)
(* wait_timeout has no result, and _query_rows makes no rows of that:       *)
(* "missing" are the queries this happens to.                               *)

\* The usage of the days with these ages.
UsageOf(ages) ==
  Total(Horizon + 1, [k \in 1..(Horizon + 1) |-> IF k - 1 \in ages THEN usage[k - 1] ELSE 0])

ThisMonth == 0..(day - 1)

\* Defect: the month is the last MonthDays days.
BilledRolling == BillingLag..(MonthDays - 1)

\* The days since the first that system.billing.usage and external_model_spend
\* have rows of.
BilledDays == {a \in ThisMonth : a >= BillingLag}

Billed(missing) == IF "billing" \in missing THEN 0 ELSE UsageOf(BilledDays)

TokenWindow == 0..(LookbackDays - 1)

\* Defects: the model has no price; without rows the worst is assumed.
UnpricedEstimate(missing) == 0

PessimisticEstimate(missing) ==
  IF "tokens" \in missing THEN LookbackDays * MaxUsage ELSE UsageOf(TokenWindow)

\* _estimate_recent_tokens, whether or not the tokens are billed already.
RecentEstimate(missing) == IF "tokens" \in missing THEN 0 ELSE UsageOf(TokenWindow)

MonthToDate(missing) == Billed(missing) + RecentEstimate(missing)

\* Days without usage have no row.
DailyAges(missing) ==
  IF "daily" \in missing THEN {} ELSE {a \in BillingLag..LookbackDays : usage[a] > 0}

Stale(missing) == DailyAges(missing) = {} /\ RecentEstimate(missing) = 0

-----------------------------------------------------------------------------
(* forecast_month_end *)

\* ewma_daily_burn with alpha = 0.35, a fraction <<numerator, denominator>>.
\* The value v of the days before, smoothed with the row of the day with this
\* age if there is one; the oldest row is the first value.
Smoothed(rows, age, v) ==
  IF age \notin rows THEN v
  ELSE IF \A a \in rows : a <= age THEN <<usage[age], 1>>
  ELSE <<7 * usage[age] * v[2] + 13 * v[1], 20 * v[2]>>

\* By usage_date, the oldest first: value[k] is that of the first k days.
Ewma(missing) ==
  LET value[k \in 0..(LookbackDays + 1)] ==
        IF k = 0 THEN <<0, 1>>
        ELSE Smoothed(DailyAges(missing), (LookbackDays + 1) - k, value[k - 1])
  IN  value[LookbackDays + 1]

\* Percent of the target, rounded down: thresholds are whole.
Utilization(missing) ==
  LET v == Ewma(missing)
  IN  (100 * (MonthToDate(missing) * v[2] + v[1] * (MonthDays - day))) \div (Target * v[2])

\* Defect: stages are never left.
NeverRelaxed(util) == IF SelectStage(util, stage) < stage THEN stage ELSE SelectStage(util, stage)

NextStage(util) == SelectStage(util, stage)

\* Snapshot, forecast, by the endpoint or its fallback, and stage.
Evaluate ==
  /\ phase = "evaluate" /\ phase' = "use"
  /\ \E missing \in SUBSET Queries :
       \/ /\ stage' = IF Stale(missing) THEN stage ELSE NextStage(Utilization(missing))
          /\ trusted' = (missing = {})
       \/ /\ ~Stale(missing) /\ trusted' = FALSE
          /\ \E p \in Predictions : stage' = NextStage(p)
  /\ blind' = IF trusted' THEN blind ELSE blind + 1
  /\ UNCHANGED <<usage, day>>

\* An exception, or no evaluation at all: the daemon is down for a day.
EvaluationFails ==
  /\ phase = "evaluate" /\ phase' = "use"
  /\ trusted' = FALSE /\ blind' = blind + 1
  /\ UNCHANGED <<usage, day, stage>>

LoopNext == UseADay \/ Evaluate \/ EvaluationFails

\* Days go by and end in an evaluation, which may fail.
LoopSpec == LoopInit /\ [][LoopNext]_loopVars /\ WF_loopVars(LoopNext)

-----------------------------------------------------------------------------
Spent == UsageOf(ThisMonth)

\* The month to date is never less than what was spent in the month, billed or
\* not, and counts at most the lookback window twice or from last month.
MonthToDateBracketed ==
  BillingLag <= LookbackDays =>
    /\ Spent <= MonthToDate({})
    /\ MonthToDate({}) <= Spent + UsageOf(TokenWindow)

\* Queries that return nothing may relax a stage, or hide that the telemetry is
\* stale, but never select a stage that the full telemetry would not.
MissingRowsNeverTighten ==
  \A missing \in SUBSET Queries :
    Stale(missing) \/ NextStage(Utilization(missing)) <= NextStage(Utilization({}))

\* The month's spend: when the last stage blocks, it passes the threshold of
\* this stage by a day's usage at most, and by one more day for each evaluation
\* that failed, missed a table or took the endpoint's forecast instead.
SpendBounded ==
  NumStages \in Blocking /\ BillingLag <= LookbackDays =>
    100 * Spent <= Threshold[NumStages] * Target + 100 * MaxUsage * (1 + blind)

\* The window is counted twice, so this is the usage the governor forgives.
Low(u) == 100 * u * (MonthDays + LookbackDays) < (Threshold[1] - Hysteresis) * Target

\* When evaluations can be trusted and the daily usage stays low, but not zero,
\* the governor ends without a stage.
LowUsageIsReleased ==
  \A u \in Usages \ {0} :
    Low(u) => (<>[](usage[0] = u /\ trusted) => <>[](stage = 0))

\* README.md: "restored after cooldown + sustained recovery".  A block of the
\* proxy is lifted some time, when evaluations can be trusted.
BlockIsLifted == <>[]trusted => []<>(stage \notin Blocking)

=============================================================================
