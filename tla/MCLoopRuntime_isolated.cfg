\* One client per run, no fault.
SPECIFICATION FairRuntimeSpec
CONSTANTS
  LoopIds = {"memo"}
  StateIds = {"draft", "done"}
  TransitionIds = {"note", "approve"}
  GuardIds = {}
  ActorTypes = {"human"}
  Definitions <- MCDefinitions
  NoInstance = NoInstance
  RegisteredGuards = {}
  HasSnapshotStore <- MCNoStores
  NoCall = NoCall
  NoTransition = NoTransition
  NoKey = NoKey
  NoRow = NoRow
  Aggregates = {"a1", "a2"}
  Callers = {"c1", "c2"}
  Serves <- MCServesOwn
  Keys = {"k1"}
  MaxCalls = 5
  MaxRequests = 5
  MaxFaults = 0
INVARIANTS
  EventsChain
  RowFollowsEngine
PROPERTIES
  RequestsAreAnswered
CHECK_DEADLOCK FALSE
