SPECIFICATION RoomSpec
CONSTANTS
  r1 = r1
  r2 = r2
  r3 = r3
  c1 = c1
  c2 = c2
  Client = {c1, c2}
  Key = {r1, r2, r3}
  Value = {0, 1, 2, 3}
  NoValue = NoValue
  Hook = {}
  NoHook = NoHook
  Capacity = 2
  MaxPending <- MaxPendingMC
  Owner <- OwnerMC
  MaxUsers = 3
INVARIANTS CountFollows EmptyHasNone
CHECK_DEADLOCK FALSE
