\* Two clients whose requests on one run overlap, and one fault.
SPECIFICATION RuntimeSpec
CONSTANTS
  LoopIds = {"memo"}
  StateIds = {"draft", "done"}
  TransitionIds = {"note", "approve"}
  GuardIds = {}
  ActorTypes = {"human"}
  Definitions <- MCDefinitions
  NoInstance = NoInstance
  RegisteredGuards = {}
  HasSnapshotStore <- MCNoStores
  NoCall = NoCall
  NoTransition = NoTransition
  NoKey = NoKey
  NoRow = NoRow
  Aggregates = {a1, a2}
  Callers = {c1, c2}
  Serves <- MCServesAll
  Keys = {"k1"}
  MaxCalls = 4
  MaxRequests = 4
  MaxFaults = 1
SYMMETRY MCSymmetry
INVARIANTS
  ProvisionIsIdempotent
  AnswersAreTrue
  EventsAreBacked
PROPERTIES
  RunsTheEngine
CHECK_DEADLOCK FALSE
