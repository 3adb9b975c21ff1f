SPECIFICATION Spec
CONSTANTS
  LEVELS = 1
  RADIX = 3
  PPN_TOP = 3
  TLB_ENTRIES = 2
  PTW_CACHE_SIZE = 2
  TAGS = 2
  Instrs <- AllInstrs
  Tables <- Guarded
  SATP <- Root
  MAPPED <- InMemory
INVARIANTS
  RequestKept
