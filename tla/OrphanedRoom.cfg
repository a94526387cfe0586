SPECIFICATION ServiceSpec
CONSTANTS
  Room = {den}
  User = {alice, bob, carol}
  Replica = {s1}
  Task = {t1, t2}
  RoomTypes = {"public", "private", "dm"}
  MaxInbox = 2
  KvFails = FALSE
  Crashes = FALSE
  Disconnects = FALSE
  DmRoom = {}
  DbFails = FALSE
INVARIANT NoOrphanedRoom
SYMMETRY Symmetry
CHECK_DEADLOCK FALSE
