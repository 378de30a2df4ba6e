SPECIFICATION MCSpec
CONSTANTS
  N = 3
  Ints <- IntsMC
  Lengths = {0, 3, 110, 236}
  Caps = {255, 1024}
  RecvCap = 1024
  MaxFields = 3
  Capacity <- CapacityMC
  MaxPings = 2
  ForkMayFail = TRUE
  Interruptible = {3}
INVARIANTS TypeOK ToldKnowsAll FieldsReadBack MissingIsEmpty IntsReadBack
PROPERTIES AllGetToKnow QuitReachesAll
CHECK_DEADLOCK FALSE
