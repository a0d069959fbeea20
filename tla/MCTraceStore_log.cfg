\* Three transitions, one fault: the trace store is a log.
SPECIFICATION FairSpec
CONSTANTS
  w1 = w1
  w2 = w2
  w3 = w3
  w4 = w4
  Writes = {w1, w2, w3}
  Processes = {"p1", "p2"}
  ProcessOf <- MCTwoProcesses
  Entries <- MCTwoEntries
  NoSummary = NoSummary
  MaxFaults = 1
  MaxFallbacks = 0
PROPERTIES
  ImplementsTraceLog
  EveryTransitionIsTraced
CHECK_DEADLOCK FALSE
