------------------------------- MODULE Fleet -------------------------------
(***************************************************************************)
(* The governors of a bundle as GovernorEngine.run_once evaluates them:    *)
(* one after the other, in the order of spec.governors, in a pass that the *)
(* first exception ends.  run_daemon repeats the pass; an exception ends   *)
(* the daemon and the container restarts it, the job is simply scheduled   *)
(* again.  The rows of the governors together decide whom the session      *)
(* proxy blocks.                                                           *)
(*                                                                         *)
(* One evaluation is three steps: it decides on a stage, writes its row    *)
(* and appends to the audit log.  Governor.tla has the calls between them  *)
(* and implements this module for a bundle of one governor.                *)
(***************************************************************************)
EXTENDS StageSelection

CONSTANTS
  NumGovernors,   \* length of spec.governors
  Readings,       \* forecast utilizations
  Cooldown,       \* cooldown_seconds, in ticks
  Blocking,       \* the stages with block_proxy_traffic
  Identities,
  Allowlist       \* emergency_allowlist of each stage of each governor

Governors == 1..NumGovernors

ASSUME FleetConstants ==
  /\ NumGovernors \in Nat \ {0} /\ Readings \subseteq Nat /\ Cooldown \in Nat
  /\ Blocking \in [Governors -> SUBSET Stages]
  /\ Allowlist \in [Governors -> [Stages -> SUBSET Identities]]

VARIABLES
  rows,      \* governor_state, by governor
  readings,  \* what telemetry and forecast of each governor return
  pass,      \* the governor being evaluated, 0 between passes
  phase,     \* how far its evaluation is
  selected,  \* the stage it has decided on, while it has not written its row
  down       \* the governor whose exception ended the last pass, 0 if none did

fleetVars == <<rows, readings, pass, phase, selected, down>>

\* "age" is the time since last_applied_at, up to Cooldown.
FleetRow == [present : BOOLEAN, stage : StageOrNone, age : 0..Cooldown]

\* A stale snapshot is an empty one, its forecast is 0.
Reading == [util : Readings, stale : {FALSE}] \cup [util : {0}, stale : {TRUE}]

FleetInit ==
  /\ rows = [g \in Governors |-> [present |-> FALSE, stage |-> 0, age |-> 0]]
  /\ readings \in [Governors -> Reading]
  /\ pass = 0 /\ phase = "observe" /\ selected = 0 /\ down = 0

-----------------------------------------------------------------------------
\* Defect: the evaluations of a pass start with the governor that failed last.
ResumeFailed(failed) == IF failed = 0 THEN 1 ELSE failed

FirstOf(failed) == 1

Begin ==
  /\ pass = 0
  /\ pass' = FirstOf(down) /\ phase' = "observe" /\ down' = 0
  /\ UNCHANGED <<rows, readings, selected>>

\* Defect: the pass does not end after the last governor.
AdvancePastEnd == pass' = pass + 1 /\ phase' = "observe" /\ selected' = 0

\* The list comprehension of run_once goes on to the next governor.
Advance ==
  /\ pass' = IF pass < NumGovernors THEN pass + 1 ELSE 0
  /\ phase' = "observe" /\ selected' = 0

IsRelaxation(active, to) == to < active

CoolingDown(row, to) == IsRelaxation(row.stage, to) /\ row.present /\ row.age < Cooldown

Unchanged(row, to) == row.present /\ to = row.stage

\* evaluate up to its first change: stale telemetry, a cooldown and an
\* unchanged stage end it.
Decide ==
  LET row == rows[pass]
      to  == SelectStage(readings[pass].util, row.stage)
  IN  /\ pass # 0 /\ phase = "observe"
      /\ IF readings[pass].stale \/ CoolingDown(row, to) \/ Unchanged(row, to)
         THEN Advance
         ELSE phase' = "commit" /\ selected' = to /\ pass' = pass
      /\ UNCHANGED <<rows, readings, down>>

\* The gateway has the new limits, upsert_governor_state has returned.
Commit ==
  /\ pass # 0 /\ phase = "commit"
  /\ rows' = [rows EXCEPT ![pass] = [present |-> TRUE, stage |-> selected, age |-> 0]]
  /\ phase' = "record" /\ selected' = 0
  /\ UNCHANGED <<readings, pass, down>>

\* append_audit has returned.
Record ==
  /\ pass # 0 /\ phase = "record" /\ Advance
  /\ UNCHANGED <<rows, readings, down>>

\* An exception of the evaluation ends the pass.
Abort ==
  /\ pass # 0
  /\ pass' = 0 /\ phase' = "observe" /\ selected' = 0 /\ down' = pass
  /\ UNCHANGED <<rows, readings>>

FleetTick ==
  /\ rows' = [g \in Governors |->
                [rows[g] EXCEPT !.age = IF rows[g].present /\ @ < Cooldown THEN @ + 1 ELSE @]]
  /\ UNCHANGED <<readings, pass, phase, selected, down>>

\* Spend changes, telemetry becomes stale or fresh.
FleetReading ==
  /\ \E g \in Governors, r \in Reading : readings' = [readings EXCEPT ![g] = r]
  /\ UNCHANGED <<rows, pass, phase, selected, down>>

EvaluationStep == Decide \/ Commit \/ Record

FleetNext == Begin \/ EvaluationStep \/ Abort \/ FleetTick \/ FleetReading

\* Passes recur, every call made by an evaluation returns or raises, and time
\* passes.
FleetFairness == WF_fleetVars(Begin) /\ WF_fleetVars(EvaluationStep) /\ WF_fleetVars(FleetTick)

FleetSafety == FleetInit /\ [][FleetNext]_fleetVars
FleetSpec   == FleetSafety /\ FleetFairness

-----------------------------------------------------------------------------
(* is_proxy_blocked *)

\* Defect: the allowlists of governors that do not block count too.
AllowedByAny(i, blocking) ==
  \E g \in Governors : rows[g].stage # 0 /\ i \in Allowlist[g][rows[g].stage]

\* One allowlist that names the identity is enough.
AllowedBy(i, blocking) == \E g \in blocking : i \in Allowlist[g][rows[g].stage]

Blockers == {g \in Governors : rows[g].stage \in Blocking[g]}

Blocked(i) == Blockers # {} /\ ~AllowedBy(i, Blockers)

-----------------------------------------------------------------------------
FleetTypeOK ==
  /\ rows \in [Governors -> FleetRow] /\ readings \in [Governors -> Reading]
  /\ pass \in 0..NumGovernors /\ phase \in {"observe", "commit", "record"}
  /\ selected \in StageOrNone /\ down \in 0..NumGovernors

\* Nothing in GovernorPolicy makes the stages after a blocking one block.
BlocksGrow == \A g \in Governors : \A i \in Blocking[g] : i..NumStages \subseteq Blocking[g]

\* When they do, a blocked identity is let in only by a governor that relaxes,
\* Cooldown after it had last changed its stage, or by one that enters a blocking
\* stage whose allowlist names this identity.  Nothing another governor does, or
\* fails to do, takes a block back.
BlockIsTakenBackOnPurpose ==
  [][BlocksGrow => \A i \in Identities : Blocked(i) /\ ~Blocked(i)' =>
       \E g \in Governors :
         \/ rows'[g].stage < rows[g].stage /\ rows[g].age = Cooldown
         \/ rows'[g].stage \in Blocking[g] /\ i \in Allowlist[g][rows'[g].stage]]_fleetVars

\* A governor follows a steady forecast if, from some time on, no evaluation
\* raises, neither its own nor that of a governor before it in the bundle.
\* Governors after it may fail for ever.
GovernorsConverge ==
  \A g \in Governors, u \in Readings :
    <>[](readings[g] = [util |-> u, stale |-> FALSE] /\ down \notin 1..g)
      => <>[](rows[g].present /\ rows[g].stage = SelectStage(u, rows[g].stage))

=============================================================================
