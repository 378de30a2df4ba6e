SPECIFICATION ChatSpec
CONSTANTS
  w1 = w1
  w2 = w2
  a1 = a1
  a2 = a2
  b1 = b1
  la1 = la1
  la2 = la2
  lb1 = lb1
  ra1 = ra1
  ra2 = ra2
  rb1 = rb1
  pidOfRoom = pidOfRoom
  usersOfRoom = usersOfRoom
  Client <- ClientMC
  Conn <- ConnMC
  Home <- HomeMC
  Pid <- PidMC
  LoginHook <- LoginHookMC
  RoomHook <- RoomHookMC
  Owner <- OwnerMC
  PidKey <- PidKeyMC
  UserKey <- UserKeyMC
  Key <- KeyMC
  Hook <- HookMC
  Value = {0, 1, 2, 3}
  NoValue = NoValue
  NoHook = NoHook
  NoName = NoName
  NoRoom = NoRoom
  Name = {n1}
  Room = {}
  MaxMoves = 0
  MaxUsers = 1
  MaxPending <- MaxPendingMC
  Capacity = 1
INVARIANT LateReplyHandled
CHECK_DEADLOCK FALSE
