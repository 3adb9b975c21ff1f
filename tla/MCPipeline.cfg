SPECIFICATION Spec
CONSTANTS
  N = 5
  PBUF = 2
  EVEC = 4
  Programs <- AllPrograms
  DIV_N = 15
  EBREAKM = FALSE
  IRQ = TRUE
  DEBUG = {"halt_on_reset", "resume", "progbuf"}
INVARIANTS
  TypeOK
  MemoryCommitted
  SingleStep
PROPERTIES
  ImplementsIsa
