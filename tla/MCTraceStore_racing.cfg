\* Four transitions, two failed allocations, one fault.
SPECIFICATION Spec
CONSTANTS
  w1 = w1
  w2 = w2
  w3 = w3
  w4 = w4
  Writes = {w1, w2, w3, w4}
  Processes = {"p1"}
  ProcessOf <- MCOneProcess
  Entries <- MCTwoEntries
  NoSummary = NoSummary
  MaxFaults = 1
  MaxFallbacks = 2
SYMMETRY MCSymmetry
INVARIANTS
  SequenceValid
  SummaryAgrees
  TracedOnce
  GivingUpIsExplained
CHECK_DEADLOCK FALSE
