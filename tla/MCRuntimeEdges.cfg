SPECIFICATION EdgesSpec
CONSTANTS
  KeyRows = {k1, k2}
  Tokens = {x, y, z}
  NoToken = NoToken
  AlienTokens = {w}
  HttpRequests = {q1, q2}
  TierRanks = {0, 1}
  TierLimits <- MCTierLimits
  GraceTicks = 1
  WindowTicks = 1
  MaxClock = 2
  MaxKeyChanges = 2
  Emits = {1, 2}
  Wanted = {1}
  MaxSockets = 4
  MaxLog = 5
  PageSize = 2
  MaxBreaks = 2
  ModelCallers = {1}
  Signals = {"s1", "s2"}
  NoSignal = "no"
  NoNumber = NoNumber
  Percents <- MCPercents
  ModelRetries = 1
  Entries <- MCEntries
  Keys = {"k1", "k2"}
  Contents = {"v1", "v2", "nan"}
  Uncanonical = {"nan"}
  MaxBatch = 2
  MaxEvidenceCommits = 1
  Missing = Missing
  Malformed = Malformed
  TracedCalls = {1, 2, 3}
  RunStates = {"open", "held"}
  FirstState = "open"
  Absent = Absent
  MoveActors = {"human"}
  Inputs = {"nothing", "payload"}
  ReadRequests = {"read"}
  ToolCalls = {"call"}
  ToolPaths <- MCToolPaths
SYMMETRY Interchangeable
INVARIANTS
  AuthIsTruthful
  QuotaHolds
  ReconnectsOnce
  NothingIsSkipped
  ModelAnswersAreSound
  StoredEvidenceIsSound
  ReadsAreFaithful
  ToolsRunGoverned
CHECK_DEADLOCK FALSE
