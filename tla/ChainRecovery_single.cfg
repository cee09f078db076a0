\* Streaming, no second chances: any one worker of four crashes at any point.
SPECIFICATION FairSpec
CONSTANTS
  w1 = w1
  w2 = w2
  w3 = w3
  w4 = w4
  NoDevice = NoDevice
  Device = {w1, w2, w3, w4}
  Request = {1}
  Placement <- FourStages
  Recovery <- RingBackups
  Mode = "full_replay"
  Retry = FALSE
  MaxTokens = 3
  Heartbeats = FALSE
  Markable = {}
  Crashable = {w1, w2, w3, w4}
  MaxCrashes = 1
INVARIANTS
  TypeOK
  SingleFaultSurvived
  OnlyCrashedAreDead
  ChainFollowsPlan
  EndedRequestsHoldNoKV
PROPERTY RequestsEnd
