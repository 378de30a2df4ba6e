SPECIFICATION Spec
CONSTANTS
  c1 = c1
  c2 = c2
  c3 = c3
  N = 2
  Forks = {1, 2}
  Client = {c1, c2, c3}
  P = 2
  PortOf <- PortOfMC
  Outcomes <- OutcomesMC
  Free = Free
  MaxFd = 5
  RawCapacity <- RawCapacityMC
  LazySize = 1
  MaxMoves = 2
  MaxFails = 1
INVARIANTS TypeOK OneHolder OwnDescriptor References NoDescriptorLost FairShares StoppedListens
