SPECIFICATION Spec
CONSTANTS
  c1 = c1
  c2 = c2
  c3 = c3
  N = 2
  Forks = {2}
  Client = {c1, c2, c3}
  P = 2
  PortOf <- PortOfMC
  Outcomes <- OutcomesMC
  Free = Free
  MaxFd = 5
  RawCapacity <- RawCapacityMC
  LazySize = 3
  MaxMoves = 1
  MaxFails = 0
INVARIANT AlwaysServed
