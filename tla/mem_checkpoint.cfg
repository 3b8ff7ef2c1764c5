SPECIFICATION Spec
CONSTANTS
  A = 2
  S = 1
  Blocks <- ThreeBlocks
  INT_MAX = 1000
  ZeroBlock <- Zeroes
  NoData = NoData
  Words <- TwoWords
  Values <- Bits
  d = 2
  Width = 2
  WRAP = 8
  MaxRequests = 3
  NoRequest = NoRequest
  InitialMemories <- Distinct
INVARIANTS CheckpointShowsStores
CHECK_DEADLOCK FALSE
