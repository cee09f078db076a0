\* The detector alone, with false suspicions and late heartbeats.
SPECIFICATION FairSpec
CONSTANTS
  d1 = d1
  d2 = d2
  d3 = d3
  NoDevice = NoDevice
  Device = {d1, d2, d3}
  InitPlacement <- TwoStages
  InitRecovery <- ChainedBackups
  AutoMode = FALSE
  Heartbeating = {d1, d2}
  WebOps = {}
  MaxCrashes = 2
  MaxReconfigs = 0
INVARIANT SuspicionReachesGateway
PROPERTY CrashIsRouted
