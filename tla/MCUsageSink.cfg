\* The default of three attempts, and the smaller limits.
SPECIFICATION SinkSpec
CONSTANTS
  RetryLimits = {0, 1, 2, 3}
  MaxFaults = 4
INVARIANTS
  ReturnedIsIngested
  UndisturbedIsOnce
PROPERTIES
  DeliversAfterFaults
