\* Chain marks, the detector, every web control and a re-placement, interleaved.
SPECIFICATION Spec
CONSTANTS
  d1 = d1
  d2 = d2
  d3 = d3
  NoDevice = NoDevice
  Device = {d1, d2}
  InitPlacement <- TwoStages
  InitRecovery <- MutualBackups
  AutoMode = TRUE
  Heartbeating = {d1, d2}
  WebOps = {"inject", "revive", "clear", "reconfigure"}
  MaxCrashes = 1
  MaxReconfigs = 1
INVARIANTS
  TypeOK
  PlanFollowsDead
  PlanIsSomeViablePlan
PROPERTY FailureMovesOnlyTheFailed
