\* Single parity, double parity and replicas: two crashes, lost pushes, a second request.
SPECIFICATION Spec
CONSTANTS
  w1 = w1
  w2 = w2
  w3 = w3
  w4 = w4
  NoDevice = NoDevice
  Device = {w1, w2, w3, w4}
  Request = {1, 2}
  Subject = 1
  Placement <- FourStages
  Recovery <- Backups
  LayersOf <- Widths
  Prompt = 2
  MaxTokens = 3
  max_bytes = 6
  Crashable = {w2, w3, w4}
  Bounds <- Troubles
  MaxBehind = 1
INVARIANTS
  TypeOK
  FoldedOnce
  LoadsWhatWasLost
  NoWrongToken
