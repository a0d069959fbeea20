\* Two callers whose calls on one aggregate overlap, and one fault.
SPECIFICATION Spec
CONSTANTS
  LoopIds <- MCLoopIds
  StateIds <- MCStateIds
  TransitionIds <- MCTransitionIds
  GuardIds <- MCGuardIds
  ActorTypes <- MCActorTypes
  Aggregates = {"a1"}
  Definitions <- MCDefinitions
  NoInstance = NoInstance
  MaxCalls = 4
  Callers = {c1, c2}
  Serves <- MCServesAll
  RegisteredGuards <- MCRegisteredGuards
  HasSnapshotStore <- MCAllStores
  MaxFaults = 1
  NoCall = NoCall
  NoTransition = NoTransition
SYMMETRY MCSymmetry
INVARIANTS
  TypeOK
  RecordsAreLawful
  AnswersAreHonest
  EventsAreHonest
  ListOpenIsLive
PROPERTIES
  EvidenceFirst
CHECK_DEADLOCK FALSE
