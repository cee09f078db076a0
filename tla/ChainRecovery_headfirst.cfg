\* The heartbeat timeout notices the crash of the head before a step does.
SPECIFICATION Spec
CONSTANTS
  w1 = w1
  w2 = w2
  w3 = w3
  w4 = w4
  NoDevice = NoDevice
  Device = {w1, w2, w3}
  Request = {1}
  Placement <- ThreeStages
  Recovery <- RingBackups
  Mode = "full_replay"
  Retry = TRUE
  MaxTokens = 2
  Heartbeats = TRUE
  Markable = {}
  Crashable = {w1}
  MaxCrashes = 1
INVARIANT NoWrongToken
