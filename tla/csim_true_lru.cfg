SPECIFICATION Spec
CONSTANTS
  A = 2
  S = 1
  Blocks <- FourBlocks
  INT_MAX = 100
  ZeroBlock = ZeroBlock
  NoData = NoData
  NoBlock = NoBlock
  MaxAccesses = 6
PROPERTIES EvictsLeastRecentlyUsed
CHECK_DEADLOCK FALSE
