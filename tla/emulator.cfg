SPECIFICATION Spec
CONSTANTS
  PageSize = 4
  Width = 2
  PageNumbers = {0,1,2,3,4,5,6,7,8,9,10,11,12,13,14,15}
  Buckets = {0, 1}
  Hash <- MCHash
  Bytes = {0, 1, 2}
  Files <- MCFiles
  seg_starts <- MCseg_starts
  Addresses <- MCAddresses
  None = None
  CommandLines <- MCCommandLines
  MAX_NUM_INSTR = 3
  IntWrap = 128
  LongWrap = 4
  NoFile = NoFile
  NoCache = NoCache
  IO_CHAR_ADDR = 90
  CHECKPOINT_ADDR = 88
  Words <- MCWords
  NoWalk = NoWalk
INVARIANTS
  TypeOK
  TableSound
  ImageLoaded
  AccessesMeanBytes
  CacheAsGiven
  OutputKept
  CheckpointShowsMemory
PROPERTIES
  ChangesOnlyTarget
  RunEnds
