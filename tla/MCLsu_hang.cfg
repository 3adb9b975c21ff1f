SPECIFICATION FairSpec
CONSTANTS
  LEVELS = 1
  RADIX = 2
  PPN_TOP = 3
  TLB_ENTRIES = 2
  PTW_CACHE_SIZE = 2
  TAGS = 2
  Instrs <- FewInstrs
  Tables <- Swapped
  SATP <- Root
  MAPPED <- InMemory
PROPERTIES
  MemInstructionEnds
