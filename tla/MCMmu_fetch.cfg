SPECIFICATION Spec
CONSTANTS
  LEVELS = 2
  RADIX = 2
  PPN_TOP = 2
  TLB_ENTRIES = 2
  PTW_CACHE_SIZE = 2
  IReqs <- AllIReqs
  DReqs <- NoReqs
  Statuses <- OneStatus
  PageTables <- GoodTables
  SATP <- Root
  FLUSH_STATES <- BetweenWalks
  MAX_WRITES = 1
INVARIANTS
  FetchCorrect
