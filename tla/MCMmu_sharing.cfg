SPECIFICATION FairSpec
CONSTANTS
  LEVELS = 2
  RADIX = 2
  PPN_TOP = 2
  TLB_ENTRIES = 2
  PTW_CACHE_SIZE = 2
  IReqs <- ShareIReqs
  DReqs <- ShareDReqs
  Statuses <- OneStatus
  PageTables <- OneTable
  SATP <- Root
  FLUSH_STATES <- AllStates
  MAX_WRITES = 0
INVARIANTS
  WalkOwnership
  NoStaleAllocation
PROPERTIES
  WalkAnswersMiss
  FetchMissEnds
  DataMissEnds
