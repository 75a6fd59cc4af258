\* Months of four days.  A day may use nothing, little, what stage 1 allows, or
\* what the baseline allows.
SPECIFICATION LoopSpec
CONSTANTS
  NumStages = 2
  Threshold <- MCThreshold
  Multiplier <- MCMultiplier
  Hysteresis = 5
  MonthDays = 4
  LookbackDays = 2
  BillingLag = 1
  Usages = {0, 1, 3, 6}
  MaxUsage = 6
  Target = 12
  Blocking = {2}
  Predictions = {0, 96}
INVARIANTS
  MonthToDateBracketed
  MissingRowsNeverTighten
  SpendBounded
PROPERTIES
  LowUsageIsReleased
