SPECIFICATION FairSpec
CONSTANTS
  A = 2
  S = 1
  Blocks <- ThreeBlocks
  INT_MAX = 7
  ZeroBlock <- Zeroes
  NoData = NoData
  Words <- TwoWords
  Values <- Bits
  d = 3
  Width = 2
  WRAP = 8
  MaxRequests = 5
  NoRequest = NoRequest
  InitialMemories <- Distinct
INVARIANTS TypeOK CleanLinesMatchMemory WaitBelongsToRequest CountersAtRest CrashNeedsStampOverflow
PROPERTIES ImplementsFlatMemory AccessCost EvictsLeastRecentlyUsed EveryAccessAnswered
CHECK_DEADLOCK FALSE
