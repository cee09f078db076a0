\* Two requests share the chain, one worker crashes: both come to an end.
SPECIFICATION FairSpec
CONSTANTS
  w1 = w1
  w2 = w2
  w3 = w3
  w4 = w4
  NoDevice = NoDevice
  Device = {w1, w2, w3}
  Request = {1, 2}
  Placement <- TwoStages
  Recovery <- RingBackups
  Mode = "full_replay"
  Retry = TRUE
  MaxTokens = 2
  Heartbeats = FALSE
  Markable = {}
  Crashable = {w1, w2}
  MaxCrashes = 1
PROPERTY RequestsEnd
