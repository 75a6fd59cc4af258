\* Runs one after the other and overlapping, of a policy that is edited meanwhile.
SPECIFICATION ReconcilerSpec
CONSTANTS
  b1 = b1
  b2 = b2
  e1 = e1
  low = low
  high = high
  run1 = run1
  run2 = run2
  Runs = {run1, run2}
  Names = {b1, b2}
  Endpoints = {e1}
  Contents = {low, high}
  Limits = {low, high}
  Policies <- MCPolicies
  NumIds = 7
  InitialBudgets <- MCInitialBudgets
  InitialEndpoints <- MCInitialEndpoints
  NoLimits = NoLimits
  Bundle = Bundle
  Stranger = Stranger
  MaxRuns = 3
SYMMETRY RunSymmetry
INVARIANTS
  ReconcilerTypeOK
  NoStrayBudgets
  AppliedMatchesPolicy
  ApplyIsIdempotent
PROPERTIES
  OthersUntouched
  DeletesArePruned
