--------------------------- MODULE StageSelection ---------------------------
(***************************************************************************)
(* The pure part of the burn-rate governor (governor/forecast.py): which   *)
(* stage a forecast utilization selects, and what a stage makes of a limit.*)
(* A stage is its index in GovernorPolicy.stages; 0 stands for no stage.   *)
(***************************************************************************)
EXTENDS Integers

CONSTANTS
  NumStages,    \* length of GovernorPolicy.stages
  Threshold,    \* forecast_utilization_pct of each stage
  Multiplier,   \* qpm_multiplier of each stage, in percent
  Hysteresis    \* hysteresis_pct

Stages      == 1..NumStages
StageOrNone == 0..NumStages

\* What GovernorStage and GovernorPolicy.validate_stages accept.
ASSUME StageConstants ==
  /\ NumStages \in Nat \ {0}
  /\ Threshold \in [Stages -> 1..100]
  /\ Multiplier \in [Stages -> 1..100]
  /\ Hysteresis \in 0..20
  /\ \A i, j \in Stages : i < j =>
        Threshold[i] <= Threshold[j] /\ Multiplier[j] <= Multiplier[i]

\* The active stage is left only Hysteresis below its threshold.
EffectiveThreshold(i, active) ==
  IF i # active THEN Threshold[i]
  ELSE IF Threshold[i] > Hysteresis THEN Threshold[i] - Hysteresis ELSE 0

Reached(util, active) == {i \in Stages : util >= EffectiveThreshold(i, active)}

\* The last stage reached, in the order of the thresholds.
SelectStage(util, active) ==
  IF Reached(util, active) = {} THEN 0
  ELSE CHOOSE i \in Reached(util, active) : \A j \in Reached(util, active) : j <= i

\* int(limit * multiplier): rounded down, to 0 for a small limit.
Scale(limit, stage) ==
  IF stage = 0 THEN limit ELSE (limit * Multiplier[stage]) \div 100

-----------------------------------------------------------------------------
\* A decision is stable: the stage a reading selects is selected again by the
\* same reading, so the governor does not flap on a constant forecast.
SelectionIsStable(util, active) ==
  LET chosen == SelectStage(util, active) IN SelectStage(util, chosen) = chosen

\* Hysteresis can hold the active stage, and can do nothing else: it never
\* selects a stage the reading alone would not, and never lowers the choice.
HysteresisOnlyHolds(util, active) ==
  LET bare == SelectStage(util, 0)
  IN  SelectStage(util, active) =
        IF active > bare /\ util + Hysteresis >= Threshold[active] THEN active ELSE bare

=============================================================================
