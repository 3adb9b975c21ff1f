SPECIFICATION FairSpec
CONSTANTS
  N = 6
  PBUF = 1
  EVEC = 5
  Programs <- Straight
  DIV_N = 15
  EBREAKM = FALSE
  IRQ = FALSE
  DEBUG = {"halt"}
PROPERTIES
  HaltEnds
