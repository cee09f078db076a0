\* Two crashes behind the head, found by the chain or by heartbeats: the reference generator is implemented.
SPECIFICATION Spec
CONSTANTS
  w1 = w1
  w2 = w2
  w3 = w3
  w4 = w4
  NoDevice = NoDevice
  Device = {w1, w2, w3, w4}
  Request = {1}
  Placement <- FourStages
  Recovery <- RingBackups
  Mode = "full_replay"
  Retry = TRUE
  MaxTokens = 3
  Heartbeats = TRUE
  Markable = {}
  Crashable = {w2, w3, w4}
  MaxCrashes = 2
PROPERTY GeneratesLikeReference
