\* A day uses nothing or all that is allowed; evaluations are not disturbed by predictions.
SPECIFICATION LoopSpec
CONSTANTS
  NumStages = 2
  Threshold <- MCThreshold
  Multiplier <- MCMultiplier
  Hysteresis = 5
  MonthDays = 4
  LookbackDays = 2
  BillingLag = 1
  Usages = {0, 6}
  MaxUsage = 6
  Target = 12
  Blocking = {2}
  Predictions = {}
PROPERTIES
  BlockIsLifted
