SPECIFICATION Spec
CONSTANTS
  Ints = {9, 13}
  Faults = {}
  MTVEC_LO = 0
  STVEC_LO = 0
  MstatusWrites <- Writes
  Confs <- Delegating
INVARIANTS
  TypeOK
  MprvOnlyInM
PROPERTIES
  ImplementsSpike
