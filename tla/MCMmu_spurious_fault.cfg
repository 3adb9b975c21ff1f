SPECIFICATION Spec
CONSTANTS
  LEVELS = 2
  RADIX = 2
  PPN_TOP = 2
  TLB_ENTRIES = 2
  PTW_CACHE_SIZE = 2
  IReqs <- NoReqs
  DReqs <- AllDReqs
  Statuses <- OneStatus
  PageTables <- GoodTables
  SATP <- Root
  FLUSH_STATES <- AllStates
  MAX_WRITES = 0
INVARIANTS
  PageFaultIsReal
