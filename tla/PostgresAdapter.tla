---------------------------- MODULE PostgresAdapter ----------------------------
(***************************************************************************)
(* The processes of an application as packages/adapters/postgres/README.md *)
(* starts them: each awaits runMigrations on its pool, then opens the      *)
(* store on the same pool and calls withTransaction.                       *)
(***************************************************************************)
EXTENDS MigrationRunner, PostgresStore

vars == <<poolVars, runnerVars, storeVars>>

TypeOK == PoolTypeOK /\ RunnerTypeOK /\ StoreTypeOK

Init == PoolInit /\ RunnerInit /\ StoreInit

Migrates(p) == RunnerNext(p) /\ UNCHANGED storeVars

Stores(t) == at[ProcessOf[t]] = "done" /\ StoreNext(t) /\ UNCHANGED runnerVars

Next ==
  \/ \E p \in Processes : Migrates(p)
  \/ \E t \in Transactions : Stores(t)

Spec == Init /\ [][Next]_vars

(* A promise that was made settles: the server answers, and the timeouts   *)
(* of DEFAULT_POOL_OPTIONS end every wait.  Nothing calls, retries or      *)
(* fails by necessity.                                                     *)
Fairness ==
  /\ \A p \in Processes : WF_vars(RunnerStep(p) /\ UNCHANGED storeVars)
  /\ \A t \in Transactions : WF_vars(StoreStep(t) /\ UNCHANGED runnerVars)

FairSpec == Spec /\ Fairness

-----------------------------------------------------------------------------

(* No client leaks: a pool lacks exactly the clients of the calls that are *)
(* running on it, whichever way the others ended.                          *)
ClientsAreReturned ==
  \A p \in Processes :
    free[p] = PoolSize
      - Cardinality({t \in Transactions : ProcessOf[t] = p /\ Holds(t)})
      - (IF at[p] \in {"lock", "read", "next", "commit"} THEN 1 ELSE 0)

(* Every call of runMigrations and of withTransaction ends, although a     *)
(* nested call waits for a client or for a row that its caller holds.      *)
CallsEnd ==
  /\ \A p \in Processes : at[p] = "lock" ~> at[p] \in {"done", "failed"}
  /\ \A t \in Transactions : stage[t] = "connect" ~> stage[t] = "done"
=============================================================================
