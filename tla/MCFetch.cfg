SPECIFICATION FairSpec
CONSTANTS
  Addr = {2, 4, 6, 7}
  RESET = 2
  Targets = {2, 6}
  NC = {3}
  FAULTY = {2}
  UNACCESSED = {2}
  BAD <- Bad
  TLB_ENTRIES = 2
  Way = {w1}
  CuKinds <- Kinds
INVARIANTS
  TypeOK
  RightInstruction
  ReadyWhenAnswered
PROPERTIES
  FetchGoesOn
