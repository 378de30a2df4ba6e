SPECIFICATION Spec
CONSTANTS
  c1 = c1
  c2 = c2
  Client = {c1, c2}
  Key = {k1}
  Value = {0, 1}
  NoValue = NoValue
  Hook = {h1}
  NoHook = NoHook
  Capacity = 1
  MaxPending <- MaxPendingMC
INVARIANTS TypeOK
PROPERTIES ImplementsStore NobodyStuck MasterServes
CHECK_DEADLOCK FALSE
