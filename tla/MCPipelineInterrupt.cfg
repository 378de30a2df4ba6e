SPECIFICATION MCSpec
CONSTANTS
  N = 3
  Ints = {0}
  Lengths = {0}
  Caps = {255}
  RecvCap = 260
  MaxFields = 1
  Capacity <- CapacityMC
  MaxPings = 0
  ForkMayFail = FALSE
  Interruptible = {2}
PROPERTIES QuitallStopsWorkers
CHECK_DEADLOCK FALSE
