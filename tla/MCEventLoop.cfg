SPECIFICATION Spec
CONSTANTS
  Fd = {f1, f2}
  Data = {d1, d2}
  MaxPollFd = 4
  TestEntries = 1
INVARIANTS TypeOK ServesAllReady
PROPERTIES ImplementsRegistry CompactionPreserves CompactionComplete RoundEnds
