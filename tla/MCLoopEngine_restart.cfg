\* Two starts that both find no active loop.
SPECIFICATION Spec
CONSTANTS
  LoopIds <- MCLoopIds
  StateIds <- MCStateIds
  TransitionIds <- MCTransitionIds
  GuardIds <- MCGuardIds
  ActorTypes <- MCActorTypes
  Aggregates = {"a1"}
  Definitions <- MCDefinitions
  NoInstance = NoInstance
  MaxCalls = 4
  Callers = {c1, c2}
  Serves <- MCServesAll
  RegisteredGuards <- MCRegisteredGuards
  HasSnapshotStore <- MCAllStores
  MaxFaults = 1
  NoCall = NoCall
  NoTransition = NoTransition
PROPERTY ActiveLoopIsNotRestarted
CHECK_DEADLOCK FALSE
