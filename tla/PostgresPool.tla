----------------------------- MODULE PostgresPool -----------------------------
(***************************************************************************)
(* What the migration runner and the store of packages/adapters/postgres   *)
(* share: the pg.Pool of a process (pool.ts) and the errors its clients    *)
(* reject with, as errors.ts tells them apart.                             *)
(*                                                                         *)
(*   network       a Node connection error (ECONNRESET, ETIMEDOUT, ...)    *)
(*   terminated    pg's "Connection terminated unexpectedly", no code      *)
(*   lifecycle     SQLSTATE 57P01 .. 57P03, the server went away           *)
(*   deadlock      SQLSTATE 40P01                                          *)
(*   sqlstate      any other SQLSTATE: constraints, data, timeouts         *)
(*   unrecognized  anything else, an error of the caller among it          *)
(*   integrity     TransactionIntegrityError, the adapter's own            *)
(***************************************************************************)
EXTENDS Integers, FiniteSets

CONSTANTS
  Processes,   \* processes that use the database, each with its own pool
  PoolSize,    \* max: clients of a pool
  MaxFaults    \* bound: connections lost and statements that fail

ASSUME PoolAssumption == PoolSize \in Nat \ {0} /\ MaxFaults \in Nat

VARIABLES
  free,        \* clients the pool of a process can still hand out
  faults

poolVars == <<free, faults>>

PgErrors ==
  {"network", "terminated", "lifecycle", "deadlock", "sqlstate", "unrecognized"}

(* Mutant: an error without a code is none of the connection.              *)
IsConnectionErrorByCode(e) == e \in {"network", "lifecycle"}

(* The connection broke: COMMIT may or may not have reached the server.    *)
IsConnectionError(e) == e \in {"network", "terminated", "lifecycle"}

ClassifyError(e) ==
  IF e \in {"network", "terminated", "lifecycle", "deadlock", "integrity"} THEN "transient"
  ELSE IF e = "sqlstate" THEN "permanent" ELSE "unknown"

PoolTypeOK == free \in [Processes -> 0 .. PoolSize] /\ faults \in 0 .. MaxFaults

PoolInit == free = [p \in Processes |-> PoolSize] /\ faults = 0

(* pool.connect(), and client.release(): a broken client frees its slot,   *)
(* too, because the pool discards it.                                      *)
Connect(p) == free[p] > 0 /\ free' = [free EXCEPT ![p] = @ - 1]

Release(p) == free' = [free EXCEPT ![p] = @ + 1]

Fault == faults < MaxFaults /\ faults' = faults + 1
=============================================================================
