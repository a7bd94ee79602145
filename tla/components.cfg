SPECIFICATION FairSpec
CONSTANTS
  Names = {1, 2, 3}
  Directories <- MCDirectories
  Hooks = {"OnLoadModule", "OnUnloadModule", "OnPreRequest"}
  Interfaces = {1, 2}
  Features = {"f"}
  MaxCalls = 6
  NoModule = NoModule
  Number <- MCNumber
  DirValid <- MCDirValid
  FileOf <- MCFileOf
  Matching <- MCMatching
  Scenarios <- MCScenarios
  MAXCLIENTS = 4
  Letters = {"a"}
  Beginnings <- MCBeginnings
  MaxCharacters = 3
  TimerIds = {t1, t2, t3}
  Intervals = {0, 1, 2}
  MaxTime = 4
  NoTimer = NoTimer
  Debug = TRUE
  MaxLines = 4
  Descriptors = {0, 1}
  Owners = {"old", "new"}
  FD_SETSIZE = 2
  NoHandler = NoHandler
  MAX_DESCRIPTORS = 3
  Acceptors <- MCAcceptors
  MaxCompletions = 2
  PortCharacters = {"1", "3", "-", ","}
  NameCharacters = {"A", "b"}
  MaskCharacters = {"a", "b", "?", "*"}
  MaxList = 6
  MaxName = 4
  MaxDigits = 2
  Pieces <- MCPieces
  MaxOutput = 3
  MaxAsked = 3
  MaxPieces = 5
INVARIANTS
  NoDangling
  ProviderOutlivesUsers
  PriorityHonoured
  Confined
  CleanExit
  Understood
  
  TimersNotMissed
  
  WatchedAreRegistered
  WishesAreHeard
  OneOperationEach
  TextsAsMeant
  ScriptAnswered
PROPERTY ParentReturns
CHECK_DEADLOCK FALSE
