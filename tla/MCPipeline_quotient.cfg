SPECIFICATION Spec
CONSTANTS
  N = 5
  PBUF = 2
  EVEC = 4
  Programs <- Quotients
  DIV_N = 15
  EBREAKM = FALSE
  IRQ = FALSE
  DEBUG = {}
PROPERTIES
  ImplementsIsaExactly
