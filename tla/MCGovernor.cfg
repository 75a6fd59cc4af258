\* One evaluator that may die anywhere, with gateway-policy apply and an operator
\* on the same endpoint.  Scaled, a limit of 1 would be 0.  The readings are calm,
\* at stage 1 or holding stage 2, and at stage 2.
SPECIFICATION GovernorSpec
CONSTANTS
  Evaluators = {"daemon"}
  NumStages = 2
  Threshold <- MCThreshold
  Multiplier <- MCMultiplier
  Hysteresis = 5
  Readings = {60, 92, 97}
  InitialGateways <- MCInitialGateways
  DeclaredLimit = 20
  StageFallback <- MCStageFallback
  PolicyFallback = "off"
  OtherSettings = {"guardrails", "none"}
  Cooldown = 1
  MaxFailures = 1
  MaxApplies = 1
INVARIANTS
  GovernorTypeOK
  BaselineBeforeThrottle
  GatewayMatchesState
  AuditFollowsRow
  UnrelatedSettingsKept
PROPERTIES
  BaselineIsKept
  CooldownHonoured
  ImplementsFleet
  ConvergesOnSteadyReading
