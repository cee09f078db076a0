\* Three workers, deploys over all of them and over two; crashes and restarts.
SPECIFICATION Spec
CONSTANTS
  a = a
  b = b
  c = c
  NoDevice = NoDevice
  Device = {a, b, c}
  Solutions <- Solved
  fleet <- InOrder
  Layers = 3
  eager_backup = TRUE
  MaxCrashes = 2
  MaxDeploys = 2
CHECK_DEADLOCK FALSE
INVARIANTS
  TypeOK
  OnePlanAtATime
  DeployedIsReady
PROPERTY NoSilentTruncation
