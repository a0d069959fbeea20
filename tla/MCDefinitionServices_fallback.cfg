SPECIFICATION DefinitionsSpec
CONSTANTS
  LoopNames = {1, 2}
  Requests = {"r1", "r2"}
  FirstCatalog <- MCFirstCatalog
  Invalid <- MCInvalid
  Ttl = 1
  Retries = 1
  MaxVersion = 2
  MaxTime = 2
  MaxLosses = 1
  MaxPublished = 1
  NoList = NoList
  LocalIds = {"l1", "l2"}
  LocalVersions = {1, 2}
  LocalCallers = {"c1", "c2", "c3"}
  Directories <- MCDirectories
  Inline <- MCInline
  NoEntry = NoEntry
  BadFile = BadFile
  Drafts <- MCDrafts
  MaxStates = 3
  MaxTransitions = 2
  NoDefinition = NoDefinition
  Loops = 2
  Remote = {1, 2}
  Rows = {3, 4}
  Broken <- MCBroken
  MaxEdits = 1
  Nothing = Nothing
INVARIANT LocalIsFallback
CHECK_DEADLOCK FALSE
