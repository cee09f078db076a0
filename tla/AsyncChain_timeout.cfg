\* Three workers in the asynchronous mode; one behind the head crashes, one result is lost.
SPECIFICATION FairSpec
CONSTANTS
  w1 = w1
  w2 = w2
  w3 = w3
  NoDevice = NoDevice
  Device = {w1, w2, w3}
  Placement <- ThreeStages
  Recovery <- LastCovers
  MaxTokens = 3
  Crashable = {w2, w3}
  MaxCrashes = 1
  MaxLost = 1
  MaxHasty = 1
INVARIANTS
  TypeOK
  OneWriterPerCache
  NoWrongToken
PROPERTY RequestEnds
