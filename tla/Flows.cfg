CONSTANTS
  Requests = {"one", "other"}
  Admins = {"ann"}
  MaxStaged = 6
  MaxLogLines = 2
  MaxFaults = 1
  MaxEdits = 2
  MaxDocFaults = 1
  NameOrder <- MCNameOrder
  Numbers <- MCNumbers
  Scripts <- MCScripts
  Feeds <- MCFeeds
  EnabledKinds = {"command", "http", "sql"}
  AllowedHosts = {"h"}
  BadPaths = {"/.."}
  Spelling <- MCSpelling
  LowerOf <- MCLowerOf
  Kept = {"b", "c", "o"}
  FolderOrder <- MCFolderOrder
  DemoCube = "Co"
  FirstAdmin = {"ann"}
  MaxDiskFaults = 1
  MaxCrashes = 2
SPECIFICATION Spec
CHECK_DEADLOCK FALSE
INVARIANTS
  RunsDoWhatTheySay
  ReadsAgree
PROPERTIES
  OnlyAuthorizedOutcomesLand
  EveryRunIsAnswered
  DocumentsSurvive
  UpgradesLoseNothing
