\* Surgical mode; the tail crashes, heartbeats, injected failures and late mirrors race the chain.
SPECIFICATION Spec
CONSTANTS
  w1 = w1
  w2 = w2
  w3 = w3
  w4 = w4
  NoDevice = NoDevice
  Device = {w1, w2, w3}
  Request = {1}
  Placement <- ThreeStages
  Recovery <- RingBackups
  Mode = "surgical"
  Retry = TRUE
  MaxTokens = 3
  Heartbeats = TRUE
  Markable = {w2, w3}
  Crashable = {w3}
  MaxCrashes = 1
INVARIANTS
  NoWrongToken
