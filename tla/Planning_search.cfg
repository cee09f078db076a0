\* Fleets of three devices under every knob, a worker that restarts, a link that fails, a coordinator that crashes.
SPECIFICATION Spec
CONSTANTS
  d1 = d1
  d2 = d2
  d3 = d3
  Fleets <- MeasuredFleets
  Drifted <- SameOrSlower
  Flaky <- OneUnstable
  Shaky <- OneBadLink
  MaxSolves = 2
  MaxCrashes = 1
INVARIANTS
  TypeOK
  DPIsOptimal
  BackupsFitTogether
  AnswerFits
  ConvergedIsItsOwnTable
  BestPipeline
  BaselinesAreNotFaster
  JointLosesNothing
  AnswerIsWhole
