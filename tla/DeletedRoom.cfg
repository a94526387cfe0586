SPECIFICATION ServiceSpec
CONSTANTS
  Room = {den}
  User = {alice, bob}
  Replica = {s1}
  Task = {t1}
  RoomTypes = {"public", "private", "dm"}
  MaxInbox = 2
  KvFails = FALSE
  Crashes = FALSE
  Disconnects = FALSE
  DmRoom = {}
  DbFails = TRUE
PROPERTY OnlyEmptyRoomsDeleted
CHECK_DEADLOCK FALSE
