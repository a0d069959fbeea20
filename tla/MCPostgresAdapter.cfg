\* Two processes that migrate and then run nested and conflicting transactions.
SPECIFICATION FairSpec
CONSTANTS
  Processes = {"p1", "p2"}
  PoolSize = 2
  MaxFaults = 1
  DiskOf <- MCReleases
  NoProcess = NoProcess
  MaxRuns <- MCMaxRuns
  Transactions = {"t1", "t2", "t3"}
  ProcessOf <- MCProcessOf
  ParentOf <- MCParentOf
  NoTransaction = NoTransaction
  PlanOf <- MCPlanOf
  MaxRetries = 1
INVARIANTS
  AppliedOnce
  MigratedBeforeUse
  AnswersAreDefinite
  ClientsAreReturned
PROPERTIES
  CallsEnd
CHECK_DEADLOCK FALSE
