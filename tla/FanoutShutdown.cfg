SPECIFICATION Spec
CONSTANTS
  Room = {den}
  User = {alice}
  Ingest = {}
  Sender = {n1}
  Cap = 1
  Changing = {}
  MaxInbox = 0
INVARIANT NoSendAfterClose
CHECK_DEADLOCK FALSE
