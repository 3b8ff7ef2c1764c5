SPECIFICATION Spec
CONSTANTS
  A = 2
  S = 2
  Blocks <- ThreeAndOne
  INT_MAX = 3
  ZeroBlock = ZeroBlock
  NoData = NoData
  NoBlock = NoBlock
  MaxAccesses = 6
INVARIANTS TypeOK OneLinePerBlock ModifyWriteHits StampsFollowRecency StampsAreUseTimes CrashNeedsStampOverflow
PROPERTIES EvictsOldestOrSuccessor ImplementsWriteBack
CHECK_DEADLOCK FALSE
