# A formal model of the adaptive AI spend governor

This directory specifies, in TLA+, the parts of `gateway_policy` whose correctness depends
on interleavings, failures and long sequences of calls. TLC checks the models on small
instances; TLAPS proves the theorems of the `*Proofs` modules for every value of the
constants. Paths below are relative to the repository; `README.md:37` and the like are
lines of the repository's own README.

## 1. The system

| Component | State it keeps | Operations | Talks to |
|---|---|---|---|
| Session store, SQLite (`governor/state.py`, `proxy/store.py`) | tables `sessions`, `reservations`, `idempotency`, `governor_state`, `audit_log` | create, close, reserve, finalize, idempotency lookup/store, governor state read/upsert, `is_proxy_blocked` | called by proxy, engine, control plane |
| Session store, Lakebase (`governor/store.py`) | the same tables in PostgreSQL | the same, in transactions with `SELECT ... FOR UPDATE` | the same, from several replicas |
| Session manager (`proxy/session.py`) | none | estimate, price, reserve, finalize | proxy → store |
| Proxy (`proxy/app.py`) | one asyncio task per call | verify token, replay, block check, reserve, call upstream, finalize, store response | client → proxy → upstream; store |
| Governor engine (`governor/engine.py`) | the `governor_state` row; the endpoint's AI Gateway configuration | evaluate: forecast, select a stage, capture baseline, GET+PUT, upsert | telemetry, gateway API, store; blocks the proxy through the row |
| Forecast (`governor/forecast.py`, `predictor.py`) | none | daily burn, month end, stage selection, scaling of limits; prediction by an endpoint, with a fallback | engine |
| Telemetry (`governor/telemetry.py`) | none (system tables) | spend and freshness, by four queries | engine |
| Audit log (`governor/audit.py`) | table `audit_log` | one record per decision | engine → store |
| Planner and applier (`planner.py`, `clients/*.py`) | account budgets, endpoints' limits | plan, apply, prune | account and workspace APIs |
| Control plane, job, daemon (`control_plane.py`, `jobs.py`, `run_daemon`) | none | evaluate one governor or all of them in a pass | engine, store |
| Session tokens (`proxy/tokens.py`) | none | sign, verify | proxy, control plane |
| Zerobus sink (`zerobus_events.py`) | a stream | ingest with retries | engine, proxy |
| Omnigent, CLI, runtime, auth, metrics | none | rendering and wiring | everything |

Where it is hard, and what makes each part correct:

* **Ledger.** Many requests of one session check and change one balance at once, in
  several processes. Correct: balances equal the sums of the reservation rows; the cap is
  passed only by what requests used above their estimates; no new reservation after close
  or expiry; one reservation per request id; calls are atomic and always return.
* **Proxy.** Between reserve and finalize lies an upstream call that may fail, time out
  or be cut off by a crash. Correct: nothing is forwarded that the ledger does not know
  (fail-closed policies); an answered call is settled, at the usage its answer reports; an
  answered idempotency key is never forwarded again; blocks are honoured.
* **Governor.** A row in a database stands for what an endpoint elsewhere is configured
  to; the two are written by separate calls, by several kinds of process, each of which may
  be the last. Correct: the baseline is what was there before the first throttle and is
  kept; endpoint, row and audit log agree; relaxation waits for the cooldown; the governor
  converges; other settings survive.
* **Fleet of governors.** One pass evaluates them all and ends with the first exception;
  whom the proxy blocks is a query over all their rows. Correct: a block is taken back only
  on purpose; a governor converges unless it, or one before it, keeps failing.
* **Spend loop.** The governor acts on tables that lag behind by days, through queries that
  may time out, and its stages limit the usage that these tables will show. Correct: no
  spend of the month is missed, missing rows never tighten, spend stays near the threshold
  of a blocking stage, low usage is released again.
* **Event sink.** A record is acknowledged, or it is sent again. Correct: at least once,
  exactly once when undisturbed; no failure keeps later events from being delivered.
* **Reconciler.** A plan is stale by the time it is carried out, and a run may stop
  anywhere. Correct: only the bundle's own budgets change, deletes only with `--prune`,
  no budgets beyond those the policy lists, a run that succeeds leaves what its policy
  says, and run again it changes nothing; though a policy may list a name twice.

`PROJECT.json` lists the hazards one by one, at their lines, with the property for each.

## 2. Modules

```
Totals ──┬── SessionLedger ──┬── LakebaseLedger     StageSelection ──┬── Governor ──> Fleet
         │                   └── ProxyRequest                        ├── Fleet
         └──────────────────────────────────────────────────────────┴── SpendLoop
Reconciler        UsageSink

SessionLedgerProofs ──┬── LakebaseProofs            FleetProofs       GovernorProofs
                      └── ProxyProofs               SpendLoopProofs   ReconcilerProofs
                                                    UsageSinkProofs
```

Lines are EXTENDS; each module of proofs also extends the model it is about.
`LakebaseLedger` implements `SessionLedger` and, for one evaluator, `Governor` implements
`Fleet` (the arrow), each by an INSTANCE with a refinement mapping.
Most models have an `MC...` module with the values of their constants. Operators that a
comment calls a *defect* are plausible bugs, defined before the operator they would
replace; no model uses them. They are there to see each property fail when the code goes
wrong.

**`SessionLedger`** — what a store promises, one atomic step per call; this is literally
the SQLite store, which runs `reserve` and `finalize` under `BEGIN IMMEDIATE`. `session`,
`expired` are the `closed` and `expires_at` columns; `spent`, `reserved` the two pairs of
counters, as functions of the unit; `rows` the reservations table. `Reserve` is
`reserve_budget` returning True (its other outcomes change nothing), `Finalize`
`finalize_reservation`. `EstimateOf` and `ChargeFor` are the two formulas of
`SessionManager`: reserve prices the output only, finalize input and output. The output is
the `max_tokens` of the request, which nothing checks (`app.py:187`): estimates are integers,
and a negative one makes the reserved columns negative (`Balance`). `NaturalHolds` says of a
session that no request of it asked for one. Dollars are integers. `UniqueRequests` tells the stores apart: only Lakebase has
`UNIQUE (session_id, request_id)`.

**`LakebaseLedger`** — the same calls as PostgreSQL transactions, statement by statement,
of several workers. `tx` is where each worker is, `sessionLock` and `rowLock` the row locks;
a statement that needs a locked row waits and then sees it as last committed (READ
COMMITTED). `NOW()` is frozen when the transaction begins, so a reserve that waits for a
lock may be granted after the deadline; the refinement mapping lets a session expire, in
the abstract ledger, once no such call is left, so that `RefinesLedger` permits these late
grants, and `LateGrantsBeganInTime` says that there are no others. A worker may crash anywhere.

**`ProxyRequest`** — `_proxy_openai_request` and `_stream_response` over the ledger. Every
store access and every await is a step. `call` is the handler's program counter with what
it knows (does it hold a reservation id?); `used` what the upstream really consumed, and which
of the two fields that the handler reads (`app.py:248`) the answer reports it in (`Fields`);
`cache` the idempotency table; `blocked` the sessions `is_proxy_blocked` refuses. Store
calls may raise before or after their commit (a `RuntimeError` of `reserve` is taken for an
exhausted budget, whatever the fail mode), the upstream may answer, refuse, time out
after doing the work; the process may die. The generator of a streaming response runs after
`async with httpx.AsyncClient` has been left, hence `StreamFails`. A call arrives when its
token is valid (`Verified`): its session has been created, perhaps closed since.

**`StageSelection`** — `select_stage`, `apply_stage_to_policy` and what the validators of
`GovernorPolicy` guarantee of its stages. A stage is its index.

**`Governor`** — `GovernorEngine.evaluate` with `apply=True`, call by call: read the row
(`Read`), telemetry, forecast and the early returns (`Observe`), capture the baseline
(`Capture`), GET, PUT, upsert (`Save`), audit record (`Audit`). Each is a step, and the
process may die at each (`Fails`). Around it: time, changing telemetry, an operator who
changes other settings, and `gateway-policy apply` on the same endpoint (a GET and a PUT).
The limits of an endpoint are one number, 0 for none. Three history variables name what the
code cannot notice: the endpoint is `stray` after a PUT whose row was never written, or
after `apply`; a baseline is `tainted` when it was captured from a stray endpoint; a change
is `unaudited` when its record was never written. `chosen` is the setting the operator last
chose, or any when the choice fell between a GET and its PUT.

**`Fleet`** — `run_once`, `run_daemon` and the job: governors evaluated in order, in passes
that the first exception ends (`Abort`). An evaluation is three steps: `Decide`, `Commit`
(the row), `Record` (the audit log). `Blocked` is `is_proxy_blocked` over all rows, with
their allowlists. It is also what `Governor` is shown to implement.

**`SpendLoop`** — the loop around the decision. A day's usage is bounded by the stage; the
billing tables show it after `BillingLag` days, the token table at once. `fetch_spend_snapshot`
is four windows over the usage (`Billed` stands for `billing_usd` and `external_usd`),
`Ewma` and `Utilization` are `forecast.py` with exact fractions, and `missing` are the queries
that return nothing because they time out. The endpoint of `ModelServingForecastProvider`
predicts anything, or fails and the deterministic forecast is used.

**`UsageSink`** — `ZerobusUsageEventSink`: `emit` over a stream that breaks, records that
arrive or are lost with it, `create_stream` and `close` that raise. `flying` and `table` are
the attempts whose record is on its way, or in the table.

**`Reconciler`** — `apply`: `StartRun` loads the file and computes the plan as the planner
does, with its comparisons and lookups; then one action per API call, each of which may
fail before or after it takes effect. Planning changes nothing and is one step: what makes
a plan stale happens between it and the calls, or between two calls. A budget's
wording is one value. A policy is two lists, as in the file, and names may repeat in both:
the planner goes through the lists, the applier looks up the last entry of a name
(`LastEntry`). The account is taken to list budgets in the order they were made, so that
`First` is the budget each plan looks at. The owner's tags and the two tags the code adds are
fields of their own, for the comparison treats them differently.

## 3. What the runs check

| Run (`.cfg`) | Checks |
|---|---|
| `MCSessionLedger` | type correctness, `ReservedMatchesOpenRows`, `SpentMatchesFinalRows`, `CapRespected`, `ClosedSessionsAdmitNothing` |
| `MCLakebaseLedger` | `RefinesLedger`: transactions with row locks implement the atomic ledger; `EveryCallReturns`: no deadlock, no lock kept |
| `MCProxyRequest` | `ForwardedIsCovered`, `ResentReachesUpstreamOnce`, `AnsweredIsSettled`, `ReplaysAreSettled`, `AnsweredKeysReplay`, `BlockIsHonoured` |
| `MCGovernor` | one evaluator that may die anywhere, with `apply` and an operator: `BaselineBeforeThrottle`, `BaselineIsKept`, `GatewayMatchesState`, `AuditFollowsRow`, `UnrelatedSettingsKept`, `CooldownHonoured`, `ConvergesOnSteadyReading`, and `ImplementsFleet`: the calls amount to one decision |
| `MCFleet` | two governors: `BlockIsTakenBackOnPurpose`, `GovernorsConverge` |
| `MCSpendLoop` | `MonthToDateBracketed`: no spend of the month is missed, and at most the lookback window is counted on top of it; `MissingRowsNeverTighten`; `SpendBounded`: the threshold of a blocking last stage is passed by a day's usage at most, plus one for each evaluation that failed, missed rows or believed a prediction; `LowUsageIsReleased` |
| `UsageSink` (`MCUsageSink.cfg`) | `ReturnedIsIngested`, `UndisturbedIsOnce`, `DeliversAfterFaults` |
| `MCReconciler` | two processes that run `apply`, failing anywhere, on a policy that is edited: `NoStrayBudgets`, `AppliedMatchesPolicy` and `ApplyIsIdempotent` as long as no two runs have overlapped, `OthersUntouched` and `DeletesArePruned` always |

Four further runs each check one statement of the repository that the code does not keep,
and end in a counterexample:

| Run | The code | The statement |
|---|---|---|
| `MCChargeMatchesUsage` | a stream is opened on a closed HTTP client, fails, and one token is charged | "reconcile the reservation with actual usage" (`README.md:37`) |
| `MCEndedCallsAreReconciled` | an exception of the upstream call leaves the reservation open for good | the same |
| `MCBaselineRace` | two evaluators of a new governor: the second captures throttled limits | "Baseline limits are captured before the first throttle" (`README.md:423`) |
| `MCBlockIsLifted` | a blocking stage leaves no usage, hence no rows in the lookback window; every evaluation from then on is skipped as stale, also in the months to come | "restored after cooldown + sustained recovery" (`README.md:423`) |

What the conditions in the properties say about the code:

* Spending may pass the cap of a session. The estimate covers the output only, finalize
  charges input and output without looking at the cap, though `README.md:8` says that the
  proxy "enforces immediate session USD/token limits". `CapRespected` gives the exact bound:
  the cap plus what finalized requests used above their own estimates.
* A negative `max_tokens` is a negative reservation (`app.py:187`): while it is open it lends
  its amount to other requests of the session, and counts as its own overrun once it is
  finalized. The cut-off at zero in finalize may then leave more reserved than the open rows
  hold, which keeps requests out for good. `ReservedMatchesOpenRows` claims equality only
  under `NaturalHolds`, and otherwise that the columns are never less than the rows.
* The charge is what the answer reports as `prompt_tokens` and `completion_tokens`, each 0
  when it is missing (`app.py:248`). An answer of `/v1/responses`, which names them
  `input_tokens` and `output_tokens`, and one without usage are therefore settled at 0,
  returned and replayed, though the upstream was used. `AnsweredIsSettled` and
  `ReplaysAreSettled` claim that the charge is the usage only of answers that report all of
  it, and of the others that it is no more. `ChargeMatchesUsage`, which its run refutes with a
  stream, fails for these answers as well.
* No check makes the names in a policy differ (`config.py:52`, `models.py:255`). A budget
  listed twice is created twice, by one run (`planner.py:68`), and from then on only the first
  of the two is compared and updated, to the last entry; the other keeps what it had. Of two
  rate limits of one name the last is applied twice and the first never (`planner.py:225`),
  and the run reports success. Two entries of different names for one endpoint take turns.
  `NoStrayBudgets` bounds the budgets of a name by what a version of the policy lists, or by
  what there was at first, and `AppliedMatchesPolicy` is about the entries that are not hidden
  by a later one (`Effective`): for a policy whose names and endpoints differ, all of them.
* A setting changed between a GET and its PUT is reverted by the PUT, though `README.md:422`
  says "Governor never mutates budgets or unrelated AI Gateway settings".
  `UnrelatedSettingsKept` says that this is the only way to lose one.
* An evaluation that dies between its first PUT and its upsert leaves a throttle that no row
  tells of, and the next one captures it as the baseline (`tainted`).
* `gateway-policy apply` puts the declared limits back on a throttled endpoint, and
  `evaluate`, which compares the stage with its row only (`engine.py:133`), does not notice
  until the stage changes (`stray`).
* An endpoint whose limit a stage scales down to 0 is never put into this stage
  (`Throttleable`): the PUT is refused by `RateLimitPolicy` in every evaluation
  (`forecast.py:83`, `models.py:121`), and the exception ends the pass of all governors.
* Nothing validates that the stages after a blocking one block too (`BlocksGrow`): a
  governor that tightens further may let everybody in again.
* Usage is counted twice while it is both in the token window and billed, and early in a
  month the window reaches into the last one: `MonthToDateBracketed` gives the error, and
  `Low` in `LowUsageIsReleased` allows for it.
* The plan is never empty: the two tags that `apply` adds stay in the tags of the live budget
  (`budgets.py:226`), so that each plan lists an update for every budget, where
  `README.md:213` lets CI fail unless there is none. `ApplyIsIdempotent` says that these
  updates write what is there.

Seen while reading:

* `_list_managed_endpoints` returns no endpoint (`planner.py:207`), so `apply --prune` never
  removes the limits of an endpoint that has left the policy, though `README.md:189` says
  `--prune` includes "deletes for managed resources removed from policy".
* The cooldown runs from the last change, so that one low forecast after it restores the
  baseline, which `README.md:423` calls "sustained recovery".
* When the forecast endpoint fails, the deterministic forecast may select a stricter stage
  than the last prediction; `README.md:410` says that failure "never causes autonomous
  tightening".
* The proxy is given one session policy (`control_plane.py:116`), while sessions may be
  created under any policy of the bundle.
* The tag that marks a budget's owner is `gateway-policy` where `README.md:166` says
  `managed_by`.
* A rate-limit policy that leaves the fallback unset never equals an endpoint that has one set.
* Two governors may name one endpoint: the second captures the limits of the first one's
  stage as its baseline.
* A stage that is renamed while it is active has index 0 in `stage_order` (`engine.py:328`), so that
  leaving it is no relaxation and waits for no cooldown.
* With `max_retries` of 0, `emit` returns without having sent anything (`zerobus_events.py:41`);
  `ReturnedIsIngested` excepts it.
* The branch for a live budget without `budget_configuration_id` cannot be reached.

### Bounds

* `MCSessionLedger`: 2 sessions, 3 reservations, estimates of -1, 0 and 2. The caps let two typical
  reservations in and not a third, in one session by tokens, in the other by dollars, and
  charges lie below, at and above estimates: overruns, refunds and both refusals occur, and
  a negative estimate makes room for a request that would not fit.
* `MCLakebaseLedger`: 2 workers, 1 session, 2 reservations, estimates of -1, 1 and 2. Locks are per row, and a race or
  a cycle of waits between transactions that each lock at most one row of either table
  already shows with two workers and one session.
* `MCProxyRequest`: 2 calls of 4 kinds over two sessions, one failing closed and one open:
  a call with a key, its retry under the same and under a new request id, the same key in
  another session, and a stream. Answers report both fields of the usage, as chat completions
  do, the first only, as embeddings, or none, as `/v1/responses`. Its properties relate at
  most two calls. This is the largest run, of 2.4 million states.
* `MCGovernor`: 2 stages; the readings are calm (60), at stage 1 or holding stage 2 by
  hysteresis alone (92), and at stage 2 (97); an endpoint without a limit, with one, and with
  one too small to be scaled; a cooldown of one tick; one death of an evaluation and one
  `apply`, the two ways an endpoint goes stray, which may follow each other in any order.
* `MCFleet`: 2 governors that fail at any time, for ever; a cooldown of 2 ticks; both block
  in their last stage, one lets the on-call in, and names it in a stage that does not block.
* `MCSpendLoop`: months of 4 days, a lookback of 2 and a lag of 1, so that a window of days
  lies within a month, at its start, and across its end, billed and not; a day uses
  nothing, a little that is forgiven, what stage 1 allows, or everything; a target of two
  days at full usage. `Usages` bounds no day below the baseline's limit.
* `MCUsageSink`: `max_retries` of 0 to 3, the default; 4 faults are enough to fail every
  attempt of one event and one of the next.
* `MCReconciler`: 2 names, 1 endpoint, 3 versions of the file, 3 runs by 2 processes (one
  to fail, one to repeat it, and one after an edit; or two at once), and an account that
  already has a budget of another bundle with the same name and one made by hand. One
  version lists a budget twice, a rate limit twice, and two rate limits for the endpoint.
  `NumIds` is as many budgets as the runs can create before one finds them all. The
  processes are symmetric (`RunSymmetry`): nothing names one of them, and the run checks no
  liveness.

`NumReservations`, `NumIds`, `MaxRuns`, `MaxFailures`, `MaxApplies` and `MaxFaults` bound
counters the code does not; `Kinds`, `Readings`, `Usages`, `Predictions`, `Policies` and the
like are small sets of inputs. `CHECK_DEADLOCK` is left on: every model can always take a step.

### Fairness

* `LakebaseFairness`: strong fairness of each worker. PostgreSQL queues those who wait for
  a row lock, so none is passed over for ever; a worker that has not crashed runs on.
* `GovernorFairness`: weak fairness of each evaluator and of the clock. `run_daemon` loops
  for ever and the Lakeflow job is scheduled; an exception ends one evaluation, and the
  restart policy or the schedule starts the next. Failures are finitely many, and
  readings, operators and `apply` owe nothing.
* `FleetFairness`: weak fairness of `Begin`, of the steps of an evaluation and of the clock,
  for the same reasons. Failures may recur for ever here: `GovernorsConverge` says whose.
  `ImplementsFleet` includes this fairness.
* `LoopSpec`: weak fairness of the whole next-state relation, that is, days go by. Whether
  an evaluation succeeds is up to the premises (`trusted`).
* `SinkSpec`: weak fairness of `Emit`, of the steps of `emit`, and of the arrival of what is
  on its way; events keep coming. Faults are finitely many.
* `SessionLedger`, `ProxyRequest` and `Reconciler` assume none: clients, processes and
  users may stop at any point, and their properties are about safety.

## 4. What is proved

From the named assumptions on the constants (`LedgerConstants`, `WorkerConstants`,
`ProxyConstants`, `StageConstants`, `FleetConstants`, `GovernorConstants`, `SpendLoopConstants`,
`SinkConstants`, `ReconcilerConstants`), which TLC evaluates in every run of those models.
TLC checked each inductive invariant on the constants of the model's run before its proof.

* `SessionLedgerProofs`. For every set of sessions, caps, prices, integer estimates (negative
  ones too) and number of reservations, the ledger keeps `TypeOK` (`LedgerTypeCorrect`), `ReservedMatchesOpenRows`,
  `SpentMatchesFinalRows`, `CapRespected` and `ClosedSessionsAdmitNothing`. The
  last three rest on the inductive invariant `LedgerInv`, the conjunction of the first four.
  It is needed because `CapRespected` alone is not inductive: `Finalize` adds the charge and
  takes off the estimate, cut off at zero, and only the balance equations say that the cut
  never leaves less reserved than the open rows hold and, when no estimate of the session was
  negative, never hides a shortfall, `reserved[s][u]` being then at least the amount of the
  row (`TotalBoundsRow`). `AdmissionColumns` and `FinalizeColumns` say what a step does to the
  sums, `AdmissionStep` and `FinalizeStep` that it keeps the invariant.
  The module starts with the lemmas about `Totals`: the sum of a column is a natural number
  (`TotalNat`), is zero for a zero column, at least each of its entries, and changes by the
  difference when one entry changes (`TotalUpdate`). These are facts by induction over the
  number of rows. The induction is written out: `LeastElement` gives the least
  counterexample of a set of naturals, and `RunningTotalExists` with it that the recursive
  function is the running total.
* `LakebaseProofs`. For any number of workers, sessions and reservations: types
  (`LakebaseTypeCorrect`), and the refinement, `RefinesLedger` (`LakebaseRefinesLedger`): every
  commit is one call of `SessionLedger`, every other statement changes nothing there. The
  inductive invariant `LakebaseInv` says, for each place in a transaction, what its locks
  protect: what the worker has read under a lock is still true when it commits
  (`ReserveProtected`, `FinalizeProtected`, `CloseProtected`). `StepOfWorker` says what a step of
  one worker leaves to the others and `OtherWorkersKeep` that this is enough, so that each
  statement is looked at for its own worker only. The clock is what makes the refinement
  less than obvious: `NOW()` is that of the beginning of the transaction, so a session
  expires in the abstract ledger once no call that began in time is left
  (`StatementRefines` to `OutsideRefines`). From the refinement follow the balances and the cap
  under concurrent workers (`LakebaseKeepsBalances`). What the frozen clock leaves open is
  stated of the store itself: `LakebaseLateGrantsBeganInTime`.
* `ProxyProofs`. For any number of calls, sessions and keys, failures of the store and
  of the upstream anywhere, and the process dying at any of them: types (`ProxyTypeCorrect`), the
  balances (`ProxyKeepsBalances`), and the six safety properties of the run:
  `ForwardedIsCovered`, `ResentReachesUpstreamOnce`, `AnsweredIsSettled`, `ReplaysAreSettled`,
  `AnsweredKeysReplay` and `BlockIsHonoured`. None is inductive: each speaks of the end of a
  call, and depends on what its handler held many awaits earlier. `ProxyInv` relates the
  place of every handler to the tables: its row and whether it knows its reservation id
  (`RowOfCall`), its key and the cached answer (`KeyOfCall`), and the block (`BlockOfCall`); with
  `CacheInv`, a cached answer is that of an answered call of the same session and key.
  `ProxySendsRequestOnce` holds with `UniqueRequests`, that is over Lakebase: a repeated
  request is stopped by its `UNIQUE` constraint, which SQLite lacks.
* `FleetProofs`. For any number of governors, stages, identities and allowlists: types
  (`FleetTypeCorrect`), and `BlockIsTakenBackOnPurpose` (`FleetBlocksHold`). The inductive
  invariant `FleetInv` adds to the types that a governor without a row has no stage, and
  that a decision to relax, taken and not committed yet, has waited for its cooldown: the
  property speaks of the step that commits, and the code looks at the clock in the one that
  decides. `OnlyCommitUnblocks` reduces the rest to `Commit`.
* `GovernorProofs`. For any set of evaluators: types (`GovernorTypeCorrect`: among other
  things, a saved baseline always has limits) and `UnrelatedSettingsKept`
  (`GovernorKeepsSettings`), from `SettingsInv`: whoever is about to PUT holds a
  configuration with a setting that was last chosen. For a single evaluator (`Evaluators = {d}`,
  since with two the baseline is lost, as `MCBaselineRace` shows), any stages, readings,
  endpoints, cooldown and number of failures and applies: `BaselineBeforeThrottle`,
  `GatewayMatchesState`, `AuditFollowsRow`, `BaselineIsKept` and `CooldownHonoured`. They rest
  on `SoleInv`, in three parts: what the evaluation's local variables still say of the row
  at each of its calls (`EvaluationInv`), what the endpoint has (`EndpointInv`), and what the
  row and the log say (`RowInv`). None of the properties is inductive: each speaks of the
  time between evaluations, or of one step, and depends on a row read several steps before.
  There is one lemma per action (`SoleRead` to `SoleOthers`).
  With a single evaluator, moreover, every step of `Governor` is a step of `Fleet` with one
  governor, or changes nothing there (`GovernorRefinesFleet`): this is `ImplementsFleet`
  without fairness. `SoleInv` is needed again: `Save` writes what `Observe` decided, and is
  `Commit` only because nobody has written the row in between.
* `SpendLoopProofs`. First stage selection, for every list of stages the validators accept,
  every reading and every active stage: a selected stage is selected again by the same
  reading (`SelectionStable`), and hysteresis can keep the active stage and do nothing else
  (`HysteresisHolds`). Without the first, `ConvergesOnSteadyReading` would fail. They rest on
  `SelectedIsLast` and `LastReachedIsSelected`, two facts about the `CHOOSE`; that a higher
  reading does not select a lower stage is `SelectionMonotone`.
  Then the loop that it closes, for every length of the month, lookback, billing lag, target,
  usage and list of stages: `MonthToDateBracketed`, `MissingRowsNeverTighten` and `SpendBounded`.
  The first two hold of every state with the right types. `SpendBounded` is not inductive:
  that a day adds its usage at most is no bound by itself, it must be known that the spend
  was below the threshold before. `SpendBelow` says so: short of the last stage, the spend of
  the month is below its threshold, but for a day's usage per blind evaluation and, before
  the evaluation, for today's. It survives an evaluation because the quotient of
  `Utilization`, rounded down, is below a threshold only if the month to date is (`Quotient`),
  and a snapshot taken for stale hides no usage of today (`StaleMeansUnused`); it survives
  `UseADay` by `SpentAfterDay`, which shifts the days by one. The induction over days is written
  out once (`UpTo`, for the elements of a set of numbers), and `RecursionExists` has the
  functions by recursion that the sums and the moving average are.
* `UsageSinkProofs`. For every retry limit and any number of faults: `ReturnedIsIngested`
  (`SinkDelivers`) and `UndisturbedIsOnce` (`SinkDeliversOnce`). `UndisturbedInv` says that, as
  long as nothing broke, an attempt about to send is the first to send.
* `ReconcilerProofs`. For every policy, repeated names included, every account, and number of
  runs and processes: types, `OthersUntouched` and `DeletesArePruned`, however runs overlap; and
  as long as they do not (`alone`), `NoStrayBudgets`, `AppliedMatchesPolicy` and
  `ApplyIsIdempotent`. The inductive invariant is `ApplierInv`. Its part `PlansInv` says that each
  planned action is still justified: the budget it is about is the bundle's and still has the
  name it was planned for, deleted or not. The other parts hold when runs do not overlap: what
  the policy asks for is at any time in place or left to do (`AllCovered`), and the budgets of
  a name together with the creates left to do stay within what the policy lists (`Bounded`).
  The lemmas at the start say that the plan lists a finite set, each element once, and count
  the creates of a name: `SetToSeq` and the concatenation of plans are where an action could
  be lost. Two runs that overlap may leave two budgets of a name, and no later run removes
  the second.

`LastStage` and the lemmas about natural numbers are repeated where two modules of proofs
need them and have no common model to extend.

Only model-checked: all liveness, which is out of the prover's reach (`EveryCallReturns`,
`ConvergesOnSteadyReading`, `GovernorsConverge`, `LowUsageIsReleased`, `DeliversAfterFaults`, and the
fairness in `ImplementsFleet`).

## 5. What is not modelled

The Omnigent renderer, the CLI, the runtime wiring, auth and metrics: pure functions, or
input and output. The encoding and the signature of session tokens. The status, audit and
Omnigent endpoints of the control plane, which read only, and its wiring of policies to
the proxy. The anonymous mode of the proxy without sessions, and dry runs of the governor,
which change nothing. Rounding of dollars in SQLite's `REAL`, and `Decimal` to 28 digits in
the forecast. Models without a price in `SpendLoop`, and a cooldown
longer than a day there (`Governor` and `Fleet` have it). Edits of the policy while a
governor runs, and two governors over one endpoint. The ownership tags of an endpoint in
`Governor`, which every PUT replaces (`rate_limits.py:141`). Listings of the account in any
other order than that of creation. `StoreRaises` in `ProxyRequest` stands
for a body that cannot be parsed, or whose usage cannot be read, as well: the handler ends in
the same place.

## 6. Plan

Done, in this order, the most important first: the ledger and its proofs; the Lakebase
transactions and their refinement; the proxy; stage selection, its proofs and the
governor; the reconciler; the fleet and its refinement by the governor; the spend loop; the
event sink; the proofs about the fleet and the governor, the Lakebase refinement, the proxy,
the event sink, the reconciler and the spend loop.

Next, in the proofs: what safety the liveness properties rest on, for every constant; first
that, with usage low and evaluations to be trusted, no step selects a higher stage
(`LowUsageIsReleased`).

Next, in the model:

1. `Fleet` composed with `ProxyRequest`, whose `blocked` it implements.
2. Concurrent calls with one idempotency key, as a property of its own.
3. The anonymous mode of the proxy.

## 7. Running it

`tlc -config MCGovernor.cfg MCGovernor.tla` checks a run (`MCGovernor` and
`MCProxyRequest` take two to three minutes with two workers, the others at most about one); `tlapm GovernorProofs.tla` checks a
module's proofs. `PROJECT.json` maps each definition to the lines it models.
