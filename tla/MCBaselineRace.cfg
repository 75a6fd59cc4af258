\* Two evaluators: the job and the control plane.
SPECIFICATION GovernorSpec
CONSTANTS
  Evaluators = {"job", "control_plane"}
  NumStages = 2
  Threshold <- MCThreshold
  Multiplier <- MCMultiplier
  Hysteresis = 5
  Readings = {60, 97}
  InitialGateways <- MCOneGateway
  DeclaredLimit = 20
  StageFallback <- MCStageFallback
  PolicyFallback = "unset"
  OtherSettings = {"guardrails"}
  Cooldown = 2
  MaxFailures = 0
  MaxApplies = 0
INVARIANTS
  BaselineBeforeThrottle
