SPECIFICATION ServiceSpec
CONSTANTS
  Room = {den}
  User = {alice, bob}
  Replica = {s1}
  Task = {t1, t2}
  RoomTypes = {"public", "private", "dm"}
  MaxInbox = 2
  KvFails = TRUE
  Crashes = TRUE
  Disconnects = FALSE
  DmRoom = {}
  DbFails = TRUE
INVARIANTS ServiceTypeOK StrangersStayOut RemovedUsersAreOut RoomHasOneOwner
SYMMETRY Symmetry
VIEW View
CHECK_DEADLOCK FALSE
