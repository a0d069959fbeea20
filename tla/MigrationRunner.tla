---------------------------- MODULE MigrationRunner ----------------------------
(***************************************************************************)
(* runMigrations of packages/adapters/postgres (migrations/runner.ts), run *)
(* by several processes on one database.  at[p] is the await of process p: *)
(*                                                                         *)
(*   idle     runMigrations was not called                                 *)
(*   lock     awaiting pg_advisory_lock on a client of its own             *)
(*   read     awaiting the recorded migrations                             *)
(*   next     before migration number index[p] of its directory            *)
(*   commit   its body was executed in a transaction that is still open    *)
(*   done, failed   returned, threw (or the process died)                  *)
(*                                                                         *)
(* The lock belongs to the session, which ends with the connection.  A     *)
(* migration is its id, the name of its file, and its checksum.  The       *)
(* directory is not empty: the one that ships holds four files.            *)
(***************************************************************************)
EXTENDS PostgresPool, Sequences, SequencesExt

CONSTANTS
  DiskOf,      \* the migrations in the directory of a process, sorted
  NoProcess,   \* nobody holds the advisory lock
  MaxRuns      \* bound: calls of runMigrations by a process

ASSUME RunnerAssumption ==
  /\ \A p \in Processes :
       /\ DiskOf[p] \in Seq(ToSet(DiskOf[p])) \ {<<>>}
       /\ \A i, j \in DOMAIN DiskOf[p] : DiskOf[p][i].id = DiskOf[p][j].id => i = j
  /\ NoProcess \notin Processes
  /\ MaxRuns \in [Processes -> Nat]

VARIABLES
  at, index,
  lock,        \* holder of ADVISORY_LOCK_KEY
  known,       \* alreadyApplied, as the process read it
  recorded,    \* the rows of schema_migrations
  schema,      \* the bodies that were committed, in order
  runs

runnerLocals == <<at, index, known, runs>>
runnerVars == <<at, index, lock, known, recorded, schema, runs>>

Migrations == UNION {ToSet(DiskOf[p]) : p \in Processes}

Ids(R) == {m.id : m \in R}

Current(p) == DiskOf[p][index[p]]

Pending(p) == index[p] \in DOMAIN DiskOf[p]

RunnerTypeOK ==
  /\ at \in [Processes -> {"idle", "lock", "read", "next", "commit", "done", "failed"}]
  /\ index \in [Processes -> Nat]
  /\ lock \in Processes \cup {NoProcess}
  /\ known \in [Processes -> SUBSET Migrations]
  /\ recorded \in SUBSET Migrations
  /\ schema \in Seq(Migrations)
  /\ runs \in [Processes -> Nat]

RunnerInit ==
  /\ at = [p \in Processes |-> "idle"]
  /\ index = [p \in Processes |-> 1]
  /\ lock = NoProcess
  /\ known = [p \in Processes |-> {}]
  /\ recorded = {} /\ schema = <<>>
  /\ runs = [p \in Processes |-> 0]

Goes(p, from, to) == at[p] = from /\ at' = [at EXCEPT ![p] = to]

-----------------------------------------------------------------------------

(* A first call, or another one after a failure.                           *)
RunMigrations(p) ==
  /\ at[p] \in {"idle", "failed"} /\ runs[p] < MaxRuns[p]
  /\ Connect(p)
  /\ at' = [at EXCEPT ![p] = "lock"]
  /\ runs' = [runs EXCEPT ![p] = @ + 1]
  /\ UNCHANGED <<index, lock, known, recorded, schema, faults>>

(* The call gets no client: connect() is refused, or connectionTimeout-    *)
(* Millis ends its wait.                                                   *)
NotConnected(p) ==
  /\ at[p] \in {"idle", "failed"} /\ runs[p] < MaxRuns[p] /\ Fault
  /\ at' = [at EXCEPT ![p] = "failed"]
  /\ runs' = [runs EXCEPT ![p] = @ + 1]
  /\ UNCHANGED <<index, lock, known, recorded, schema, free>>

(* Mutant: pg_try_advisory_lock, whose answer nobody looks at.             *)
TakeLockUnchecked(p) ==
  /\ Goes(p, "lock", "read")
  /\ lock' = IF lock = NoProcess THEN p ELSE lock
  /\ UNCHANGED <<index, known, recorded, schema, runs, poolVars>>

TakeLock(p) ==
  /\ Goes(p, "lock", "read")
  /\ lock = NoProcess /\ lock' = p
  /\ UNCHANGED <<index, known, recorded, schema, runs, poolVars>>

(* finally: pg_advisory_unlock if the lock was acquired, then release().   *)
Leave(p, result) ==
  /\ at' = [at EXCEPT ![p] = result]
  /\ lock' = IF lock = p THEN NoProcess ELSE lock
  /\ Release(p)
  /\ known' = [known EXCEPT ![p] = {}] /\ index' = [index EXCEPT ![p] = 1]
  /\ UNCHANGED runs

(* statement_timeout ends the wait for a lock that is held too long.       *)
LockTimeout(p) ==
  /\ at[p] = "lock" /\ lock # NoProcess
  /\ Leave(p, "failed")
  /\ UNCHANGED <<recorded, schema, faults>>

(* No schema_migrations table is the same as an empty one.                 *)
ReadApplied(p) ==
  /\ Goes(p, "read", "next")
  /\ known' = [known EXCEPT ![p] = recorded]
  /\ index' = [index EXCEPT ![p] = 1]
  /\ UNCHANGED <<lock, recorded, schema, runs, poolVars>>

(* Mutant: the checksum is not compared.                                   *)
SkipById(p) ==
  /\ at[p] = "next" /\ Pending(p) /\ Current(p).id \in Ids(known[p])
  /\ index' = [index EXCEPT ![p] = @ + 1]
  /\ UNCHANGED <<at, lock, known, recorded, schema, runs, poolVars>>

Skip(p) ==
  /\ at[p] = "next" /\ Pending(p) /\ Current(p) \in known[p]
  /\ index' = [index EXCEPT ![p] = @ + 1]
  /\ UNCHANGED <<at, lock, known, recorded, schema, runs, poolVars>>

Drifted(p) == Current(p).id \in Ids(known[p]) /\ Current(p) \notin known[p]

RefuseDrift(p) ==
  /\ at[p] = "next" /\ Pending(p) /\ Drifted(p)
  /\ Leave(p, "failed")
  /\ UNCHANGED <<recorded, schema, faults>>

(* BEGIN and the body; an error of the body, or of the insertion of its    *)
(* record (id is the primary key), is rolled back and thrown.              *)
ApplyBody(p) ==
  /\ Goes(p, "next", "commit") /\ Pending(p) /\ Current(p).id \notin Ids(known[p])
  /\ UNCHANGED <<index, lock, known, recorded, schema, runs, poolVars>>

BodyFails(p) ==
  /\ at[p] = "commit" /\ Fault
  /\ Leave(p, "failed")
  /\ UNCHANGED <<recorded, schema>>

(* The body and its record become visible together.                        *)
Committed(p) ==
  /\ recorded' = recorded \cup {Current(p)}
  /\ schema' = Append(schema, Current(p))

Record(p) ==
  /\ Goes(p, "commit", "next") /\ Current(p).id \notin Ids(recorded)
  /\ Committed(p)
  /\ index' = [index EXCEPT ![p] = @ + 1]
  /\ UNCHANGED <<lock, known, runs, poolVars>>

Finish(p) ==
  /\ at[p] = "next" /\ ~Pending(p)
  /\ Leave(p, "done")
  /\ UNCHANGED <<recorded, schema, faults>>

(* The connection is lost, or the process dies: the session ends, the lock *)
(* is freed, and a transaction is undone unless its COMMIT had arrived.    *)
RunnerLost(p) ==
  /\ at[p] \in {"lock", "read", "next", "commit"} /\ Fault
  /\ Leave(p, "failed")
  /\ \/ UNCHANGED <<recorded, schema>>
     \/ at[p] = "commit" /\ Current(p).id \notin Ids(recorded) /\ Committed(p)

RunnerStep(p) ==
  \/ TakeLock(p) \/ LockTimeout(p) \/ ReadApplied(p) \/ Skip(p) \/ RefuseDrift(p)
  \/ ApplyBody(p) \/ Record(p) \/ Finish(p)

RunnerNext(p) ==
  \/ RunMigrations(p) \/ NotConnected(p) \/ RunnerStep(p) \/ BodyFails(p) \/ RunnerLost(p)

-----------------------------------------------------------------------------

(* Every migration is in the schema once, exactly those in the schema are  *)
(* recorded, and two runners never get as far as the primary key: whoever  *)
(* executes a body holds the lock and the body is not recorded.  The       *)
(* promises 1 to 4 of runner.ts, with crashes and a COMMIT whose answer is *)
(* lost.                                                                   *)
AppliedOnce ==
  /\ ToSet(schema) = recorded
  /\ \A i, j \in DOMAIN schema : schema[i].id = schema[j].id => i = j
  /\ \A p \in Processes : at[p] = "commit" => lock = p /\ Current(p).id \notin Ids(recorded)

(* A process whose runMigrations returned finds every migration of its own *)
(* directory in the schema, with its checksum, also when other processes   *)
(* run other directories: an edited or a missing file stops the one that   *)
(* finds it different, not the one that is done.                           *)
MigratedBeforeUse ==
  \A p \in Processes : at[p] = "done" => ToSet(DiskOf[p]) \subseteq recorded
=============================================================================
