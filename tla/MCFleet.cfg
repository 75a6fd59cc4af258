\* Two governors, failing at any time; the readings are calm, holding stage 2,
\* and at stage 2.
SPECIFICATION FleetSpec
CONSTANTS
  NumStages = 2
  Threshold <- MCThreshold
  Multiplier <- MCMultiplier
  Hysteresis = 5
  NumGovernors = 2
  Readings = {60, 92, 97}
  Cooldown = 2
  Blocking <- MCBlocking
  Identities = {"agent", "oncall"}
  Allowlist <- MCAllowlist
INVARIANTS
  FleetTypeOK
PROPERTIES
  BlockIsTakenBackOnPurpose
  GovernorsConverge
