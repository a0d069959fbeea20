---------------------------- MODULE PostgresProofs ----------------------------
(***************************************************************************)
(* Proofs about PostgresAdapter, for any processes, directories,           *)
(* transactions, pool sizes and numbers of faults and retries: RunnerInv   *)
(* for the migrations, DefiniteInv for the transactions and PoolInv for    *)
(* the clients, each inductive.                                            *)
(***************************************************************************)
EXTENDS PostgresAdapter, FiniteSetTheorems, SequenceTheorems, TLAPS

-----------------------------------------------------------------------------
(* The migrations.                                                         *)

(* What process p has gone past in its directory.                          *)
Before(p) == {DiskOf[p][i] : i \in 1 .. index[p] - 1}

(* While a process holds the lock nobody else adds a record, so what it    *)
(* read, and what it applied since, is all there is.                       *)
RunnerInv ==
  /\ RunnerTypeOK
  /\ ToSet(schema) = recorded
  /\ \A i, j \in DOMAIN schema : schema[i].id = schema[j].id => i = j
  /\ \A p \in Processes :
       /\ index[p] \in 1 .. Len(DiskOf[p]) + 1
       /\ at[p] \in {"read", "next", "commit"} => lock = p
       /\ at[p] \in {"next", "commit"} =>
            /\ known[p] \subseteq recorded
            /\ recorded \subseteq known[p] \cup Before(p)
            /\ Before(p) \subseteq recorded
       /\ at[p] = "commit" => Pending(p) /\ Current(p).id \notin Ids(known[p])
       /\ at[p] = "done" => ToSet(DiskOf[p]) \subseteq recorded

LEMMA DirectoryIsSequence ==
  ASSUME NEW p \in Processes
  PROVE  /\ DOMAIN DiskOf[p] = 1 .. Len(DiskOf[p])
         /\ Len(DiskOf[p]) \in Nat
         /\ \A i, j \in DOMAIN DiskOf[p] : DiskOf[p][i].id = DiskOf[p][j].id => i = j
         /\ \A i \in DOMAIN DiskOf[p] : DiskOf[p][i] \in Migrations
         /\ ToSet(DiskOf[p]) = {DiskOf[p][i] : i \in 1 .. Len(DiskOf[p])}
<1>1. DiskOf[p] \in Seq(ToSet(DiskOf[p]))
  BY RunnerAssumption
<1>2. DOMAIN DiskOf[p] = 1 .. Len(DiskOf[p]) /\ Len(DiskOf[p]) \in Nat
  BY <1>1, LenProperties
<1>3. \A i \in DOMAIN DiskOf[p] : DiskOf[p][i] \in Migrations
  BY DEF ToSet, Migrations
<1>4. ToSet(DiskOf[p]) = {DiskOf[p][i] : i \in 1 .. Len(DiskOf[p])}
  BY <1>2 DEF ToSet
<1> QED
  BY <1>2, <1>3, <1>4, RunnerAssumption

(* A body that is executed is not recorded: it is not among what the       *)
(* process read, and what it applied since has other ids.                  *)
LEMMA CommittingIsNew ==
  ASSUME RunnerInv, NEW p \in Processes, at[p] = "commit"
  PROVE  /\ Current(p).id \notin Ids(recorded)
         /\ Current(p) \in Migrations
<1>1. index[p] \in DOMAIN DiskOf[p] /\ Current(p).id \notin Ids(known[p])
  BY DEF RunnerInv, Pending
<1>2. \A i \in 1 .. index[p] - 1 : i \in DOMAIN DiskOf[p] /\ i # index[p]
  BY <1>1, DirectoryIsSequence
<1>3. \A m \in Before(p) : m.id # Current(p).id
  BY <1>1, <1>2, DirectoryIsSequence DEF Before, Current
<1>4. recorded \subseteq known[p] \cup Before(p)
  BY DEF RunnerInv
<1> QED
  BY <1>1, <1>3, <1>4, DirectoryIsSequence DEF Ids, Current

(* What the commit of a migration does to the schema.                      *)
LEMMA CommitExtends ==
  ASSUME RunnerInv, NEW p \in Processes, at[p] = "commit", Committed(p)
  PROVE  /\ recorded' \in SUBSET Migrations /\ schema' \in Seq(Migrations)
         /\ recorded \subseteq recorded'
         /\ ToSet(schema') = recorded'
         /\ \A i, j \in DOMAIN schema' : schema'[i].id = schema'[j].id => i = j
<1> DEFINE m == Current(p)
<1>1. m.id \notin Ids(recorded) /\ m \in Migrations
  BY CommittingIsNew
<1>2. schema \in Seq(Migrations) /\ recorded \in SUBSET Migrations /\ ToSet(schema) = recorded
  BY DEF RunnerInv, RunnerTypeOK
<1>3. schema' = Append(schema, m) /\ recorded' = recorded \cup {m}
  BY DEF Committed
<1> HIDE DEF m
<1>4. /\ schema' \in Seq(Migrations)
      /\ DOMAIN schema' = DOMAIN schema \cup {Len(schema) + 1}
      /\ Len(schema) + 1 \notin DOMAIN schema
      /\ \A i \in DOMAIN schema : schema'[i] = schema[i]
      /\ schema'[Len(schema) + 1] = m
  BY <1>1, <1>2, <1>3
<1>5. ToSet(schema') = recorded'
  BY <1>2, <1>3, <1>4 DEF ToSet
<1>6. \A i \in DOMAIN schema : schema[i].id # m.id
  BY <1>1, <1>2 DEF ToSet, Ids
<1>7. \A i, j \in DOMAIN schema' : schema'[i].id = schema'[j].id => i = j
  BY <1>4, <1>6 DEF RunnerInv
<1> QED
  BY <1>1, <1>2, <1>3, <1>4, <1>5, <1>7

(* The end of a call, whichever way, if the records stay or grow.          *)
LEMMA LeaveKeepsInv ==
  ASSUME RunnerInv, NEW p \in Processes, NEW result \in {"done", "failed"},
         Leave(p, result),
         \/ UNCHANGED <<recorded, schema>>
         \/ at[p] = "commit" /\ Committed(p),
         result = "done" => ToSet(DiskOf[p]) \subseteq recorded
  PROVE  RunnerInv'
<1>1. /\ recorded' \in SUBSET Migrations /\ schema' \in Seq(Migrations)
      /\ recorded \subseteq recorded'
      /\ ToSet(schema') = recorded'
      /\ \A i, j \in DOMAIN schema' : schema'[i].id = schema'[j].id => i = j
  <2>1. CASE UNCHANGED <<recorded, schema>>
    BY <2>1 DEF RunnerInv, RunnerTypeOK
  <2>2. CASE at[p] = "commit" /\ Committed(p)
    BY <2>2, CommitExtends
  <2> QED
    BY <2>1, <2>2
<1>2. RunnerTypeOK'
  BY <1>1 DEF RunnerInv, RunnerTypeOK, Leave
<1>3. ASSUME NEW q \in Processes
      PROVE  /\ index'[q] \in 1 .. Len(DiskOf[q]) + 1
             /\ at'[q] \in {"read", "next", "commit"} => lock' = q
             /\ at'[q] \in {"next", "commit"} =>
                  /\ known'[q] \subseteq recorded'
                  /\ recorded' \subseteq known'[q] \cup Before(q)'
                  /\ Before(q)' \subseteq recorded'
             /\ at'[q] = "commit" => Pending(q)' /\ Current(q)'.id \notin Ids(known'[q])
             /\ at'[q] = "done" => ToSet(DiskOf[q]) \subseteq recorded'
  <2>1. CASE q = p
    BY <2>1, <1>1, DirectoryIsSequence DEF RunnerInv, RunnerTypeOK, Leave
  <2>2. CASE q # p
    <3>1. at'[q] = at[q] /\ index'[q] = index[q] /\ known'[q] = known[q]
      BY <2>2 DEF Leave, RunnerInv, RunnerTypeOK
    <3>2. at[q] \in {"read", "next", "commit"} => lock' = q /\ UNCHANGED <<recorded, schema>>
      BY <2>2 DEF Leave, RunnerInv
    <3> QED
      BY <1>1, <3>1, <3>2 DEF RunnerInv, Before, Pending, Current
  <2> QED
    BY <2>1, <2>2
<1> QED
  BY <1>1, <1>2, <1>3 DEF RunnerInv

(* A step of one process that keeps the records and the others' lock.       *)
LEMMA MoveKeepsInv ==
  ASSUME RunnerInv, NEW p \in Processes, RunnerTypeOK',
         UNCHANGED <<recorded, schema>>,
         \A q \in Processes :
           q # p => /\ at'[q] = at[q] /\ index'[q] = index[q] /\ known'[q] = known[q]
                    /\ lock = q => lock' = q,
         index'[p] \in 1 .. Len(DiskOf[p]) + 1,
         at'[p] \in {"read", "next", "commit"} => lock' = p,
         at'[p] \in {"next", "commit"} =>
           /\ known'[p] \subseteq recorded
           /\ recorded \subseteq known'[p] \cup Before(p)'
           /\ Before(p)' \subseteq recorded,
         at'[p] = "commit" => Pending(p)' /\ Current(p)'.id \notin Ids(known'[p]),
         at'[p] = "done" => ToSet(DiskOf[p]) \subseteq recorded
  PROVE  RunnerInv'
<1>1. ASSUME NEW q \in Processes, q # p
      PROVE  /\ Before(q)' = Before(q) /\ Pending(q)' = Pending(q)
             /\ Current(q)' = Current(q)
  BY <1>1 DEF Before, Pending, Current
<1> QED
  BY <1>1 DEF RunnerInv

LEMMA RunnerStepKeepsInv ==
  ASSUME RunnerInv, NEW p \in Processes, RunnerNext(p)
  PROVE  RunnerInv'
<1>1. CASE RunMigrations(p)
  <2>1. RunnerTypeOK'
    BY <1>1 DEF RunMigrations, RunnerInv, RunnerTypeOK
  <2>2. /\ at'[p] = "lock" /\ UNCHANGED <<recorded, schema, lock, index, known>>
        /\ \A q \in Processes : q # p => at'[q] = at[q]
    BY <1>1 DEF RunMigrations, RunnerInv, RunnerTypeOK
  <2> QED
    BY <2>1, <2>2, MoveKeepsInv DEF RunnerInv
<1>2. CASE TakeLock(p)
  <2>1. RunnerTypeOK'
    BY <1>2 DEF TakeLock, Goes, RunnerInv, RunnerTypeOK
  <2>2. /\ at'[p] = "read" /\ UNCHANGED <<recorded, schema, index, known>>
        /\ lock = NoProcess /\ lock' = p
        /\ \A q \in Processes : q # p => at'[q] = at[q]
    BY <1>2 DEF TakeLock, Goes, RunnerInv, RunnerTypeOK
  <2> QED
    BY <2>1, <2>2, MoveKeepsInv, RunnerAssumption DEF RunnerInv
<1>3. CASE LockTimeout(p)
  BY <1>3, LeaveKeepsInv DEF LockTimeout
<1>4. CASE ReadApplied(p)
  <2>1. RunnerTypeOK'
    BY <1>4 DEF ReadApplied, Goes, RunnerInv, RunnerTypeOK
  <2>2. /\ at'[p] = "next" /\ UNCHANGED <<recorded, schema, lock>>
        /\ lock = p /\ index'[p] = 1 /\ known'[p] = recorded
        /\ \A q \in Processes :
             q # p => at'[q] = at[q] /\ index'[q] = index[q] /\ known'[q] = known[q]
    BY <1>4 DEF ReadApplied, Goes, RunnerInv, RunnerTypeOK
  <2>3. Before(p)' = {}
    BY <2>2 DEF Before
  <2> QED
    BY <2>1, <2>2, <2>3, MoveKeepsInv
<1>5. CASE Skip(p)
  <2>1. RunnerTypeOK'
    BY <1>5 DEF Skip, RunnerInv, RunnerTypeOK
  <2>2. /\ at'[p] = "next" /\ UNCHANGED <<recorded, schema, lock, known, at>>
        /\ at[p] = "next" /\ lock = p /\ index'[p] = index[p] + 1
        /\ Pending(p) /\ Current(p) \in known[p]
        /\ \A q \in Processes : q # p => index'[q] = index[q]
    BY <1>5 DEF Skip, RunnerInv, RunnerTypeOK
  <2>3. index[p] \in 1 .. Len(DiskOf[p])
    BY <2>2 DEF Pending
  <2>4. Before(p)' = Before(p) \cup {Current(p)}
    BY <2>2, <2>3 DEF Before, Current
  <2>5. /\ known[p] \subseteq recorded /\ recorded \subseteq known[p] \cup Before(p)
        /\ Before(p) \subseteq recorded
    BY <2>2 DEF RunnerInv
  <2> QED
    BY <2>1, <2>2, <2>3, <2>4, <2>5, MoveKeepsInv
<1>6. CASE RefuseDrift(p)
  BY <1>6, LeaveKeepsInv DEF RefuseDrift
<1>7. CASE ApplyBody(p)
  <2>1. RunnerTypeOK'
    BY <1>7 DEF ApplyBody, Goes, RunnerInv, RunnerTypeOK
  <2>2. /\ at'[p] = "commit" /\ UNCHANGED <<recorded, schema, lock, known, index>>
        /\ at[p] = "next" /\ lock = p /\ Pending(p) /\ Current(p).id \notin Ids(known[p])
        /\ \A q \in Processes : q # p => at'[q] = at[q]
    BY <1>7 DEF ApplyBody, Goes, RunnerInv, RunnerTypeOK
  <2>3. Before(p)' = Before(p) /\ Pending(p)' = Pending(p) /\ Current(p)' = Current(p)
    BY <2>2 DEF Before, Pending, Current
  <2>4. /\ known[p] \subseteq recorded /\ recorded \subseteq known[p] \cup Before(p)
        /\ Before(p) \subseteq recorded /\ index[p] \in 1 .. Len(DiskOf[p]) + 1
    BY <2>2 DEF RunnerInv
  <2> QED
    BY <2>1, <2>2, <2>3, <2>4, MoveKeepsInv
<1>8. CASE Record(p)
  <2>1. /\ at[p] = "commit" /\ lock = p /\ Pending(p) /\ Committed(p)
        /\ UNCHANGED <<lock, known>>
        /\ at' = [at EXCEPT ![p] = "next"] /\ index' = [index EXCEPT ![p] = @ + 1]
    BY <1>8 DEF Record, Goes, RunnerInv
  <2>2. /\ recorded' \in SUBSET Migrations /\ schema' \in Seq(Migrations)
        /\ recorded \subseteq recorded'
        /\ ToSet(schema') = recorded'
        /\ \A i, j \in DOMAIN schema' : schema'[i].id = schema'[j].id => i = j
    BY <2>1, CommitExtends
  <2>3. RunnerTypeOK'
    BY <1>8, <2>1, <2>2 DEF RunnerInv, RunnerTypeOK, Record
  <2>4. index[p] \in 1 .. Len(DiskOf[p]) /\ index'[p] = index[p] + 1 /\ at'[p] = "next"
    BY <2>1 DEF RunnerInv, RunnerTypeOK, Pending
  <2>5. Before(p)' = Before(p) \cup {Current(p)} /\ recorded' = recorded \cup {Current(p)}
    BY <2>1, <2>4 DEF Before, Current, Committed
  <2>6. ASSUME NEW q \in Processes, q # p
        PROVE  /\ at'[q] = at[q] /\ index'[q] = index[q] /\ known'[q] = known[q]
               /\ at[q] \notin {"read", "next", "commit"}
    BY <2>1, <2>6 DEF RunnerInv, RunnerTypeOK
  <2> QED
    BY <2>1, <2>2, <2>3, <2>4, <2>5, <2>6 DEF RunnerInv
<1>9. CASE Finish(p)
  <2>1. /\ at[p] = "next" /\ ~Pending(p) /\ Leave(p, "done") /\ UNCHANGED <<recorded, schema>>
    BY <1>9 DEF Finish
  <2>2. index[p] = Len(DiskOf[p]) + 1
    BY <2>1, DirectoryIsSequence DEF Pending, RunnerInv
  <2>3. Before(p) = ToSet(DiskOf[p])
    <3>1. index[p] - 1 = Len(DiskOf[p])
      BY <2>2, DirectoryIsSequence
    <3>2. Before(p) = {DiskOf[p][i] : i \in 1 .. Len(DiskOf[p])}
      BY <3>1 DEF Before
    <3> QED
      BY <3>2, DirectoryIsSequence
  <2>4. ToSet(DiskOf[p]) \subseteq recorded
    BY <2>1, <2>3 DEF RunnerInv
  <2> QED
    BY <2>1, <2>4, LeaveKeepsInv
<1>10. CASE BodyFails(p)
  BY <1>10, LeaveKeepsInv DEF BodyFails
<1>11. CASE RunnerLost(p)
  BY <1>11, LeaveKeepsInv DEF RunnerLost
<1>12. CASE NotConnected(p)
  <2>1. RunnerTypeOK'
    BY <1>12 DEF NotConnected, RunnerInv, RunnerTypeOK
  <2>2. /\ at'[p] = "failed" /\ UNCHANGED <<recorded, schema, lock, index, known>>
        /\ \A q \in Processes : q # p => at'[q] = at[q]
    BY <1>12 DEF NotConnected, RunnerInv, RunnerTypeOK
  <2> QED
    BY <2>1, <2>2, MoveKeepsInv DEF RunnerInv
<1> QED
  BY <1>1, <1>2, <1>3, <1>4, <1>5, <1>6, <1>7, <1>8, <1>9, <1>10, <1>11, <1>12
     DEF RunnerNext, RunnerStep

(* Init => RunnerInv, and the theorem.                                     *)
LEMMA RunnerInvInitially == RunnerInit => RunnerInv
  BY RunnerAssumption, DirectoryIsSequence
     DEF RunnerInit, RunnerInv, RunnerTypeOK, ToSet, Before, Migrations

LEMMA RunnerInvAlways == Spec => []RunnerInv
<1>1. Init => RunnerInv
  BY RunnerInvInitially DEF Init
<1>2. RunnerInv /\ [Next]_vars => RunnerInv'
  <2> SUFFICES ASSUME RunnerInv, [Next]_vars PROVE RunnerInv'
    OBVIOUS
  <2>1. CASE UNCHANGED runnerVars
    <3>1. RunnerTypeOK'
      BY <2>1 DEF runnerVars, RunnerInv, RunnerTypeOK
    <3>2. ASSUME NEW p \in Processes
          PROVE  /\ Before(p)' = Before(p) /\ Pending(p)' = Pending(p)
                 /\ Current(p)' = Current(p)
      BY <2>1 DEF runnerVars, Before, Pending, Current
    <3> QED
      BY <2>1, <3>1, <3>2 DEF runnerVars, RunnerInv
  <2>2. CASE \E p \in Processes : RunnerNext(p)
    BY <2>2, RunnerStepKeepsInv
  <2> QED
    BY <2>1, <2>2 DEF Next, Migrates, Stores, vars
<1> QED
  BY <1>1, <1>2, PTL DEF Spec

(* Each migration is applied once, and exactly what was applied is         *)
(* recorded, whatever runners of whatever directories overlap, die or lose *)
(* the answer of a COMMIT (runMigrations, rules 1 to 4).                   *)
THEOREM MigrationsAreAppliedOnce == Spec => []AppliedOnce
<1>1. RunnerInv => AppliedOnce
  BY CommittingIsNew DEF RunnerInv, AppliedOnce
<1> QED
  BY <1>1, RunnerInvAlways, PTL

(* A store is used only on a schema that has every migration of the        *)
(* process that uses it.                                                   *)
THEOREM StoresAreMigrated == Spec => []MigratedBeforeUse
<1>1. RunnerInv => MigratedBeforeUse
  BY DEF RunnerInv, MigratedBeforeUse
<1> QED
  BY <1>1, RunnerInvAlways, PTL

-----------------------------------------------------------------------------
(* The transactions.                                                       *)

(* A running call has committed nothing yet but what earlier calls left    *)
(* open; a transaction that is aborted while fn goes on was swallowed.     *)
DefiniteInv ==
  /\ StoreTypeOK
  /\ AnswersAreDefinite
  /\ \A t \in Transactions :
       stage[t] \in {"fn", "commit"} /\ server[t] = "aborted" => swallowed[t]

(* The answer of a call, if what it committed is accounted for.            *)
LEMMA AnsweredKeepsDefinite ==
  ASSUME DefiniteInv, NEW t \in Transactions, stage[t] # "done",
         NEW a \in Answers, Answered(t, a),
         \/ UNCHANGED copies
         \/ Applied(t) /\ a \in {"resolved", "integrity"},
         a = "resolved" => swallowed[t] \/ Applied(t)
  PROVE  DefiniteInv'
<1>1. copies[t] \in Nat /\ doubts[t] \in Nat /\ copies[t] <= doubts[t]
  BY DEF DefiniteInv, AnswersAreDefinite, StoreTypeOK
<1>2. /\ copies'[t] \in {copies[t], copies[t] + 1}
      /\ copies'[t] <= doubts'[t] + (IF a = "resolved" THEN 1 ELSE 0)
      /\ doubts'[t] \in Nat
      /\ a = "resolved" /\ ~swallowed'[t] => copies'[t] >= 1
      /\ stage'[t] = "done" /\ answer'[t] = a
  BY <1>1 DEF Answered, Applied, DefiniteInv, StoreTypeOK
<1>3. StoreTypeOK'
  BY <1>1, <1>2 DEF Answered, Applied, DefiniteInv, StoreTypeOK
<1>4. \A u \in Transactions \ {t} :
        /\ stage'[u] = stage[u] /\ server'[u] = server[u] /\ swallowed'[u] = swallowed[u]
        /\ answer'[u] = answer[u] /\ copies'[u] = copies[u] /\ doubts'[u] = doubts[u]
  BY DEF Answered, Applied, DefiniteInv, StoreTypeOK
<1>5. AnswersAreDefinite'
  BY <1>2, <1>4 DEF AnswersAreDefinite, DefiniteInv
<1>6. \A u \in Transactions :
        stage'[u] \in {"fn", "commit"} /\ server'[u] = "aborted" => swallowed'[u]
  BY <1>2, <1>4 DEF DefiniteInv
<1> QED
  BY <1>3, <1>5, <1>6 DEF DefiniteInv

(* Every other step answers nothing and commits nothing.                   *)
LEMMA UnansweredKeepsDefinite ==
  ASSUME DefiniteInv, NEW t \in Transactions, StoreTypeOK',
         UNCHANGED <<copies, doubts, answer>>,
         \A u \in Transactions \ {t} : UNCHANGED <<stage[u], server[u], swallowed[u]>>,
         stage'[t] # "done",
         stage[t] = "done" => answer[t] # "resolved",
         stage'[t] \in {"fn", "commit"} /\ server'[t] = "aborted" => swallowed'[t]
  PROVE  DefiniteInv'
<1>1. AnswersAreDefinite'
  BY DEF AnswersAreDefinite, DefiniteInv
<1> QED
  BY <1>1 DEF DefiniteInv

LEMMA RetryAndIssueTypes ==
  ASSUME StoreTypeOK, NEW t \in Transactions
  PROVE  /\ Issues(t) => issued' \in [Transactions -> Nat]
         /\ retries < MaxRetries => retries + 1 \in 0 .. MaxRetries
<1>1. MaxRetries \in Nat /\ retries \in 0 .. MaxRetries /\ issued[t] + 1 \in Nat
  BY StoreAssumption DEF StoreTypeOK
<1> QED
  BY <1>1 DEF Issues, StoreTypeOK

LEMMA StoreStepKeepsDefinite ==
  ASSUME DefiniteInv, NEW t \in Transactions, StoreNext(t)
  PROVE  DefiniteInv'
<1> USE DEF DefiniteInv, StoreTypeOK
<1>1. CASE Call(t)
  BY <1>1, UnansweredKeepsDefinite DEF Call, Begins
<1>2. CASE Retry(t)
  <2>1. StoreTypeOK'
    BY <1>2, RetryAndIssueTypes DEF Retry, Begins
  <2> QED
    BY <1>2, <2>1, UnansweredKeepsDefinite DEF Retry, Begins
<1>3. CASE ConnectTimeout(t)
  BY <1>3, AnsweredKeepsDefinite DEF ConnectTimeout, Rejection, ClassifyError, Answers
<1>4. CASE Begin(t)
  BY <1>4, UnansweredKeepsDefinite DEF Begin, Moves
<1>5. CASE BeginFails(t)
  <2>1. Answered(t, "transient")
    BY <1>5 DEF BeginFails, Rejection, ClassifyError
  <2> QED
    BY <1>5, <2>1, AnsweredKeepsDefinite DEF BeginFails, Answers
<1>6. CASE Statement(t)
  <2>1. StoreTypeOK'
    BY <1>6, RetryAndIssueTypes DEF Statement
  <2> QED
    BY <1>6, <2>1, UnansweredKeepsDefinite DEF Statement, HasNext, InCallback
<1>7. CASE StatementFails(t) \/ StatementTimeout(t)
  <2>1. stage[t] = "fn" /\ Aborts(t)
    BY <1>7 DEF StatementFails, StatementTimeout, HasNext, InCallback
  <2>2. CASE stage' = [stage EXCEPT ![t] = "rollback"] /\ UNCHANGED swallowed
    BY <2>1, <2>2, UnansweredKeepsDefinite, RetryAndIssueTypes DEF Aborts
  <2>3. CASE swallowed' = [swallowed EXCEPT ![t] = TRUE] /\ UNCHANGED stage
    BY <2>1, <2>3, UnansweredKeepsDefinite, RetryAndIssueTypes DEF Aborts
  <2> QED
    BY <2>1, <2>2, <2>3 DEF Aborts
<1>8. CASE StatementRefused(t)
  <2>1. stage[t] = "fn" /\ Issues(t) /\ UNCHANGED <<server, answer, copies, doubts, retries>>
    BY <1>8 DEF StatementRefused, HasNext, InCallback
  <2>2. CASE stage' = [stage EXCEPT ![t] = "rollback"] /\ UNCHANGED swallowed
    BY <2>1, <2>2, UnansweredKeepsDefinite, RetryAndIssueTypes
  <2>3. CASE swallowed' = [swallowed EXCEPT ![t] = TRUE] /\ UNCHANGED stage
    BY <2>1, <2>3, UnansweredKeepsDefinite, RetryAndIssueTypes
  <2> QED
    BY <1>8, <2>2, <2>3 DEF StatementRefused
<1>9. CASE ConnectionLost(t)
  BY <1>9, UnansweredKeepsDefinite DEF ConnectionLost
<1>10. CASE FnResolves(t) \/ FnThrows(t)
  BY <1>10, UnansweredKeepsDefinite DEF FnResolves, FnThrows, InCallback
<1>11. CASE Commit(t)
  BY <1>11, AnsweredKeepsDefinite DEF Commit, Ends, Answers
<1>12. CASE CommitFails(t)
  BY <1>12, AnsweredKeepsDefinite
     DEF CommitFails, Ends, CommitAnswer, IsConnectionError, Rejection, ClassifyError, Answers
<1>13. CASE CommitUnsent(t)
  BY <1>13, AnsweredKeepsDefinite
     DEF CommitUnsent, Ends, CommitAnswer, IsConnectionError, Rejection, ClassifyError, Answers
<1>14. CASE Rollback(t)
  BY <1>14, AnsweredKeepsDefinite DEF Rollback, Ends, Rejection, ClassifyError, Answers
<1>15. CASE RollbackFails(t)
  BY <1>15, AnsweredKeepsDefinite DEF RollbackFails, Ends, Rejection, Answers
<1> QED
  BY <1>1, <1>2, <1>3, <1>4, <1>5, <1>6, <1>7, <1>8, <1>9, <1>10, <1>11, <1>12, <1>13,
     <1>14, <1>15 DEF StoreNext, StoreStep

LEMMA DefiniteInvAlways == Spec => []DefiniteInv
<1>1. Init => DefiniteInv
  BY StoreAssumption DEF Init, StoreInit, DefiniteInv, StoreTypeOK, AnswersAreDefinite, Answers
<1>2. DefiniteInv /\ [Next]_vars => DefiniteInv'
  <2> SUFFICES ASSUME DefiniteInv, [Next]_vars PROVE DefiniteInv'
    OBVIOUS
  <2>1. CASE UNCHANGED storeVars
    BY <2>1 DEF storeVars, DefiniteInv, StoreTypeOK, AnswersAreDefinite
  <2>2. CASE \E t \in Transactions : StoreNext(t)
    BY <2>2, StoreStepKeepsDefinite
  <2> QED
    BY <2>1, <2>2 DEF Next, Migrates, Stores, vars
<1> QED
  BY <1>1, <1>2, PTL DEF Spec

(* withTransaction tells the truth whatever fn does, whatever fails and    *)
(* however often its caller retries: resolved is committed unless fn       *)
(* swallowed an error, rejected is not, and only an integrity error leaves *)
(* it open.                                                                *)
THEOREM TransactionAnswersAreDefinite == Spec => []AnswersAreDefinite
<1>1. DefiniteInv => AnswersAreDefinite
  BY DEF DefiniteInv
<1> QED
  BY <1>1, DefiniteInvAlways, PTL

-----------------------------------------------------------------------------
(* The clients.                                                            *)

Users(p) == {t \in Transactions : ProcessOf[t] = p /\ Holds(t)}

Migrating(p) == at[p] \in {"lock", "read", "next", "commit"}

PoolInv ==
  /\ free \in [Processes -> Int]
  /\ ClientsAreReturned

(* What a step of a call takes from the pool of its process, or gives back.*)
LEMMA StoreStepClients ==
  ASSUME StoreTypeOK, PoolInv, NEW t \in Transactions, StoreNext(t)
  PROVE  /\ \A u \in Transactions \ {t} : stage'[u] = stage[u]
         /\ \/ Holds(t)' = Holds(t) /\ free' = free
            \/ ~Holds(t) /\ Holds(t)' /\ free' = [free EXCEPT ![ProcessOf[t]] = @ - 1]
            \/ Holds(t) /\ ~Holds(t)' /\ free' = [free EXCEPT ![ProcessOf[t]] = @ + 1]
<1> USE DEF StoreTypeOK, Holds
<1>1. CASE Call(t) \/ Retry(t)
  BY <1>1 DEF Call, Retry, Begins, poolVars
<1>2. CASE ConnectTimeout(t) \/ BeginFails(t)
  BY <1>2 DEF ConnectTimeout, BeginFails, Answered
<1>3. CASE Begin(t)
  BY <1>3 DEF Begin, Moves, Connect
<1>4. CASE Statement(t) \/ StatementFails(t) \/ StatementTimeout(t) \/ StatementRefused(t)
  BY <1>4 DEF Statement, StatementFails, StatementTimeout, StatementRefused, Aborts, HasNext,
              InCallback, poolVars
<1>5. CASE ConnectionLost(t) \/ FnResolves(t) \/ FnThrows(t)
  BY <1>5 DEF ConnectionLost, FnResolves, FnThrows, InCallback, poolVars
<1>6. CASE Commit(t) \/ CommitFails(t) \/ CommitUnsent(t) \/ Rollback(t) \/ RollbackFails(t)
  BY <1>6 DEF Commit, CommitFails, CommitUnsent, Rollback, RollbackFails, Ends, Answered, Release
<1> QED
  BY <1>1, <1>2, <1>3, <1>4, <1>5, <1>6 DEF StoreNext, StoreStep

LEMMA StoreStepKeepsPool ==
  ASSUME StoreTypeOK, PoolInv, NEW t \in Transactions, StoreNext(t), UNCHANGED at
  PROVE  PoolInv'
<1>1. /\ \A u \in Transactions \ {t} : stage'[u] = stage[u]
      /\ \/ Holds(t)' = Holds(t) /\ free' = free
         \/ ~Holds(t) /\ Holds(t)' /\ free' = [free EXCEPT ![ProcessOf[t]] = @ - 1]
         \/ Holds(t) /\ ~Holds(t)' /\ free' = [free EXCEPT ![ProcessOf[t]] = @ + 1]
  BY StoreStepClients
<1>2. \A u \in Transactions \ {t} : Holds(u)' = Holds(u)
  BY <1>1 DEF Holds
<1>3. free' \in [Processes -> Int]
  BY <1>1 DEF PoolInv
<1>4. ASSUME NEW p \in Processes
      PROVE  free'[p] = PoolSize - Cardinality(Users(p)') - (IF Migrating(p) THEN 1 ELSE 0)
  <2>1. IsFiniteSet(Users(p))
    BY StoreAssumption, FS_Subset DEF Users
  <2>2. free[p] = PoolSize - Cardinality(Users(p)) - (IF Migrating(p) THEN 1 ELSE 0)
    BY DEF PoolInv, ClientsAreReturned, Users, Migrating
  <2>3. Cardinality(Users(p)) \in Nat
    BY <2>1, FS_CardinalityType
  <2>4. CASE Users(p)' = Users(p) /\ free'[p] = free[p]
    BY <2>2, <2>4
  <2>5. CASE t \notin Users(p) /\ Users(p)' = Users(p) \cup {t} /\ free'[p] = free[p] - 1
    <3>1. Cardinality(Users(p)') = Cardinality(Users(p)) + 1
      BY <2>1, <2>5, FS_AddElement
    <3> QED
      BY <2>2, <2>3, <2>5, <3>1, PoolAssumption
  <2>6. CASE t \in Users(p) /\ Users(p)' = Users(p) \ {t} /\ free'[p] = free[p] + 1
    <3>1. Cardinality(Users(p)') = Cardinality(Users(p)) - 1
      BY <2>1, <2>6, FS_RemoveElement
    <3> QED
      BY <2>2, <2>3, <2>6, <3>1, PoolAssumption
  <2>7. CASE p # ProcessOf[t] \/ Holds(t)' = Holds(t)
    <3>1. Users(p)' = Users(p)
      BY <1>2, <2>7 DEF Users
    <3>2. free'[p] = free[p]
      BY <1>1, <2>7 DEF PoolInv
    <3> QED
      BY <2>4, <3>1, <3>2
  <2>8. CASE p = ProcessOf[t] /\ ~Holds(t) /\ Holds(t)'
    <3>1. t \notin Users(p) /\ Users(p)' = Users(p) \cup {t}
      BY <1>2, <2>8 DEF Users
    <3>2. free'[p] = free[p] - 1
      BY <1>1, <2>8 DEF PoolInv
    <3> QED
      BY <2>5, <3>1, <3>2
  <2>9. CASE p = ProcessOf[t] /\ Holds(t) /\ ~Holds(t)'
    <3>1. t \in Users(p) /\ Users(p)' = Users(p) \ {t}
      BY <1>2, <2>9 DEF Users
    <3>2. free'[p] = free[p] + 1
      BY <1>1, <2>9 DEF PoolInv
    <3> QED
      BY <2>6, <3>1, <3>2
  <2> QED
    BY <2>7, <2>8, <2>9 DEF Holds
<1> QED
  BY <1>3, <1>4 DEF PoolInv, ClientsAreReturned, Users, Migrating

LEMMA RunnerStepClients ==
  ASSUME RunnerTypeOK, NEW p \in Processes, RunnerNext(p)
  PROVE  /\ \A q \in Processes \ {p} : at'[q] = at[q]
         /\ \/ Migrating(p)' = Migrating(p) /\ free' = free
            \/ ~Migrating(p) /\ Migrating(p)' /\ free' = [free EXCEPT ![p] = @ - 1]
            \/ Migrating(p) /\ ~Migrating(p)' /\ free' = [free EXCEPT ![p] = @ + 1]
<1> USE DEF RunnerTypeOK, Migrating
<1>1. CASE RunMigrations(p)
  BY <1>1 DEF RunMigrations, Connect
<1>2. CASE TakeLock(p) \/ ReadApplied(p) \/ Skip(p) \/ ApplyBody(p) \/ Record(p)
  BY <1>2 DEF TakeLock, ReadApplied, Skip, ApplyBody, Record, Goes, poolVars
<1>3. CASE LockTimeout(p) \/ RefuseDrift(p) \/ Finish(p) \/ BodyFails(p) \/ RunnerLost(p)
  BY <1>3 DEF LockTimeout, RefuseDrift, Finish, BodyFails, RunnerLost, Leave, Release
<1>4. CASE NotConnected(p)
  BY <1>4 DEF NotConnected
<1> QED
  BY <1>1, <1>2, <1>3, <1>4 DEF RunnerNext, RunnerStep

LEMMA RunnerStepKeepsPool ==
  ASSUME RunnerTypeOK, PoolInv, NEW p \in Processes, RunnerNext(p), UNCHANGED stage
  PROVE  PoolInv'
<1>1. /\ \A q \in Processes \ {p} : at'[q] = at[q]
      /\ \/ Migrating(p)' = Migrating(p) /\ free' = free
         \/ ~Migrating(p) /\ Migrating(p)' /\ free' = [free EXCEPT ![p] = @ - 1]
         \/ Migrating(p) /\ ~Migrating(p)' /\ free' = [free EXCEPT ![p] = @ + 1]
  BY RunnerStepClients
<1>2. free' \in [Processes -> Int]
  BY <1>1 DEF PoolInv
<1>3. ASSUME NEW q \in Processes
      PROVE  free'[q] = PoolSize - Cardinality(Users(q)') - (IF Migrating(q)' THEN 1 ELSE 0)
  <2>1. Users(q)' = Users(q)
    BY DEF Users, Holds
  <2>2. Cardinality(Users(q)) \in Nat
    BY StoreAssumption, FS_Subset, FS_CardinalityType DEF Users
  <2>3. free[q] = PoolSize - Cardinality(Users(q)) - (IF Migrating(q) THEN 1 ELSE 0)
    BY DEF PoolInv, ClientsAreReturned, Users, Migrating
  <2>4. CASE q # p \/ (Migrating(p)' = Migrating(p) /\ free' = free)
    <3>1. Migrating(q)' = Migrating(q) /\ free'[q] = free[q]
      BY <1>1, <2>4 DEF Migrating, PoolInv
    <3> QED
      BY <2>1, <2>3, <3>1
  <2>5. CASE q = p /\ ~Migrating(p) /\ Migrating(p)' /\ free'[q] = free[q] - 1
    BY <2>1, <2>2, <2>3, <2>5, PoolAssumption
  <2>6. CASE q = p /\ Migrating(p) /\ ~Migrating(p)' /\ free'[q] = free[q] + 1
    BY <2>1, <2>2, <2>3, <2>6, PoolAssumption
  <2> QED
    BY <1>1, <2>4, <2>5, <2>6 DEF PoolInv
<1> QED
  BY <1>2, <1>3 DEF PoolInv, ClientsAreReturned, Users, Migrating

(* No exit of runMigrations or withTransaction leaks a client, of any pool *)
(* of any size: what is missing from a pool is held by a call that runs.   *)
THEOREM PoolsAreRefilled == Spec => []ClientsAreReturned
<1>1. Init => PoolInv
  <2> SUFFICES ASSUME Init PROVE PoolInv
    OBVIOUS
  <2>1. \A p \in Processes : Users(p) = {} /\ ~Migrating(p) /\ free[p] = PoolSize
    BY DEF Init, PoolInit, RunnerInit, StoreInit, Users, Holds, Migrating
  <2>2. free \in [Processes -> Int]
    BY PoolAssumption DEF Init, PoolInit
  <2> QED
    BY <2>1, <2>2, FS_EmptySet, PoolAssumption DEF PoolInv, ClientsAreReturned, Users, Migrating
<1>2. PoolInv /\ RunnerInv /\ DefiniteInv /\ [Next]_vars => PoolInv'
  <2> SUFFICES ASSUME PoolInv, RunnerInv, DefiniteInv, [Next]_vars PROVE PoolInv'
    OBVIOUS
  <2>1. CASE UNCHANGED vars
    BY <2>1 DEF vars, poolVars, runnerVars, storeVars, PoolInv, ClientsAreReturned, Holds
  <2>2. ASSUME NEW p \in Processes, Migrates(p) PROVE PoolInv'
    BY <2>2, RunnerStepKeepsPool DEF Migrates, storeVars, RunnerInv
  <2>3. ASSUME NEW t \in Transactions, Stores(t) PROVE PoolInv'
    BY <2>3, StoreStepKeepsPool DEF Stores, runnerVars, DefiniteInv
  <2> QED
    BY <2>1, <2>2, <2>3 DEF Next
<1>3. PoolInv => ClientsAreReturned
  BY DEF PoolInv
<1> QED
  BY <1>1, <1>2, <1>3, RunnerInvAlways, DefiniteInvAlways, PTL DEF Spec
=============================================================================
