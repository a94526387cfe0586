SPECIFICATION Spec
CONSTANTS
  Room = {den, hall}
  User = {alice}
  Ingest = {i1}
  Sender = {n1}
  Cap = 1
  Changing = {den}
  MaxInbox = 2
INVARIANTS TypeOK CacheFollowsRoomService IndexMatchesList OnlyMembersServed FlightsHold
CHECK_DEADLOCK FALSE
