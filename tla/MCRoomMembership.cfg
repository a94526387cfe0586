SPECIFICATION MCSpec
CONSTANTS
  Room = {lobby}
  User = {alice}
  Replica = {s1, s2}
  Task = {t1, t2}
  RoomTypes = {"public"}
  MaxInbox = 2
  MaxFaults = 1
  KvFails = TRUE
  Crashes = TRUE
  Disconnects = TRUE
INVARIANTS TypeOK CacheFollowsBucket
PROPERTY DisagreementEnds
CHECK_DEADLOCK FALSE
