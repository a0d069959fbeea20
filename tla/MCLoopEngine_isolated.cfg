\* One caller per aggregate, no fault; one engine has no snapshot store.
SPECIFICATION FairSpec
CONSTANTS
  LoopIds <- MCLoopIds
  StateIds <- MCStateIds
  TransitionIds <- MCTransitionIds
  GuardIds <- MCGuardIds
  ActorTypes <- MCActorTypes
  Aggregates = {"a1", "a2"}
  Definitions <- MCDefinitions
  NoInstance = NoInstance
  MaxCalls = 4
  Callers = {"c1", "c2"}
  Serves <- MCServesOwn
  RegisteredGuards <- MCRegisteredGuards
  HasSnapshotStore <- MCOneStore
  MaxFaults = 0
  NoCall = NoCall
  NoTransition = NoTransition
INVARIANTS
  HistoryReplays
  OneCompletionPerRun
PROPERTIES
  ImplementsLifecycle
  CallsReturn
CHECK_DEADLOCK FALSE
