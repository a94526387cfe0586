SPECIFICATION SessionSpec
CONSTANTS
  Home = "general"
  Defaults = {"general", "random"}
  Privates = {"p"}
  MaxClients = 2
  SessionBudgets <- MCTokenOnly
INVARIANT AllRoomsJoined
CHECK_DEADLOCK FALSE
