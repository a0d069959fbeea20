\* A callback that catches the error of a statement and resolves.
SPECIFICATION Spec
CONSTANTS
  Processes = {"p1", "p2"}
  PoolSize = 2
  MaxFaults = 1
  DiskOf <- MCReleases
  NoProcess = NoProcess
  MaxRuns <- MCMaxRuns
  Transactions = {"t1", "t2", "t3"}
  ProcessOf <- MCProcessOf
  ParentOf <- MCParentOf
  NoTransaction = NoTransaction
  PlanOf <- MCPlanOf
  MaxRetries = 1
INVARIANT ResolvedIsCommitted
CHECK_DEADLOCK FALSE
