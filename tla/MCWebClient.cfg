SPECIFICATION WebSpec
CONSTANTS
  MaxId = 3
  Page = 1
  Cap = 2
  ChatBudgets <- MCChatBudgets
  MaxLines = 3
  Secrets = {2}
  MaxSwitches = 2
  Home = "general"
  Defaults = {"general", "random"}
  Privates = {"p"}
  MaxClients = 2
  SessionBudgets <- MCSessionBudgets
  People = {"u"}
  MaxChanges = 3
  MaxPresenceFaults = 1
  Editors = {"a", "b"}
  Elements = {"x", "y"}
  Nobody = "nobody"
  BoardBudgets <- MCBoardBudgets
  Writers = {"a", "b"}
  MaxWords = 2
  PageBudgets <- MCPageBudgets
  MaxTyped = 3
  MaxFound = 2
  SearchBudgets <- MCSearchBudgets
  Packs = {"cats", "dogs"}
  NoPack = "none"
  MarketBudgets <- MCMarketBudgets
  Files = {"f", "g"}
  AttachmentBudgets <- MCAttachmentBudgets
  TranslationTabs = {"x1", "x2"}
  Keys = {"p", "q"}
  Chunks = 2
  TranslationBudgets <- MCTranslationBudgets
  PollIds = {"p", "q"}
  PollBudgets <- MCPollBudgets
  RoomApps = {"poll", "kb"}
  Careless = {"kb"}
  Chat = "chat"
  TabBudgets <- MCTabBudgets
  Dms = {"d1", "d2"}
  DmTabs = {"t1", "t2"}
  DmBudgets <- MCDmBudgets
  ReadTabs = {"r1", "r2"}
  MaxTs = 2
  ReadBudgets <- MCReadBudgets
  Instances = {"i", "j"}
  Browsers = {"a", "b"}
  ConnBudgets <- MCConnBudgets
  Persisters = {"p", "q"}
  MaxMessages = 2
  Prefetch = 2
  MaxTries = 2
  KeptVersions = 1
  KeptKeys = 1
  PersistBudgets <- MCPersistBudgets
CHECK_DEADLOCK FALSE
INVARIANT WebTypeOK
INVARIANT EachShownOnce
INVARIANT DeletedStaysDeleted
INVARIANT NoneUnreadInView
INVARIANT TriedAreDecrypted
INVARIANT SessionSettles
INVARIANT StatusesSettle
INVARIANT BoardsAgree
PROPERTY VersionsGrow
INVARIANT TextOfOneAnswer
INVARIANT AppsSettle
INVARIANT FieldSettles
INVARIANT DmsReachTheUser
INVARIANT PositionsPersisted
INVARIANT SweptByOne
INVARIANT PresenceIsRight
INVARIANT TablesFollowStream
