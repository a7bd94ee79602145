SPECIFICATION Spec
CONSTANTS
  Names = {1, 2, 3}
  Directories <- MCDirectories
  Hooks = {"OnLoadModule", "OnUnloadModule", "OnPreRequest"}
  Interfaces = {1, 2}
  Features = {"f"}
  MaxCalls = 6
  NoModule = NoModule
  Number <- MCNumber
  DirValid <- MCDirValid
  FileOf <- MCFileOf
  Matching <- MCMatching
  Scenarios <- MCScenarios
  MAXCLIENTS = 4
  Letters = {"a"}
  Beginnings <- MCBeginnings
  MaxCharacters = 3
  TimerIds = {t1, t2, t3}
  Intervals = {0, 1, 2}
  MaxTime = 4
  NoTimer = NoTimer
  Debug = TRUE
  MaxLines = 4
  Descriptors = {0, 1}
  Owners = {"old", "new"}
  FD_SETSIZE = 2
  NoHandler = NoHandler
  MAX_DESCRIPTORS = 3
  Acceptors <- MCAcceptors
  MaxCompletions = 1
  PortCharacters = {"1", "3", "-", ","}
  NameCharacters = {"a"}
  MaskCharacters = {"a"}
  MaxList = 1
  MaxName = 1
  MaxDigits = 1
  Pieces <- MCPieces
  MaxOutput = 1
  MaxAsked = 1
  MaxPieces = 5
INVARIANT DropsPrivileges
CHECK_DEADLOCK FALSE
