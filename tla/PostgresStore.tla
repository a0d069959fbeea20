----------------------------- MODULE PostgresStore -----------------------------
(***************************************************************************)
(* withTransaction of packages/adapters/postgres (index.ts): an async      *)
(* callback fn of the application, run between BEGIN and COMMIT on one     *)
(* client of the process's pool, and called again by an application that   *)
(* retries transient errors as README.md shows.  What fn does is a choice: *)
(* it issues the statements of its plan in order, may catch the error of   *)
(* one and go on, may throw, and may call withTransaction itself, which    *)
(* takes a second client.  stage[t] is the await of call t:                *)
(*                                                                         *)
(*   idle      not called                                                  *)
(*   connect   awaiting a client                                           *)
(*   fn        in the callback                                             *)
(*   commit, rollback   awaiting COMMIT, ROLLBACK                          *)
(*   done      answered, and the client released                           *)
(*                                                                         *)
(* server[t] is what PostgreSQL makes of the transaction: open, aborted by *)
(* a failed statement (its locks are gone and every further statement      *)
(* fails, but the session waits for ROLLBACK), or none.  A row that is     *)
(* written is locked until its transaction ends.                           *)
(***************************************************************************)
EXTENDS PostgresPool, Sequences

CONSTANTS
  Transactions,
  ProcessOf,    \* the process that calls
  ParentOf,     \* the transaction whose callback calls, or NoTransaction
  NoTransaction,
  PlanOf,       \* the aggregates whose instance fn saves, in this order
  MaxRetries    \* bound: calls made again after a transient error

ASSUME StoreAssumption ==
  /\ IsFiniteSet(Transactions)
  /\ ProcessOf \in [Transactions -> Processes]
  /\ NoTransaction \notin Transactions
  /\ ParentOf \in [Transactions -> Transactions \cup {NoTransaction}]
  /\ MaxRetries \in Nat

VARIABLES
  stage,
  issued,      \* statements fn has issued
  server,
  swallowed,   \* fn caught the error of a statement and went on
  answer,      \* how the last call ended
  copies,      \* times the writes of the plan were committed
  doubts,      \* calls that ended with a TransactionIntegrityError
  retries

storeVars == <<stage, issued, server, swallowed, answer, copies, doubts, retries>>

(* Of the error of a call that rejected, what a caller retries by.         *)
Answers == {"none", "resolved", "integrity", "transient", "rejected"}

Rejection(e) ==
  IF e = "integrity" THEN e
  ELSE IF ClassifyError(e) = "transient" THEN "transient" ELSE "rejected"

StoreTypeOK ==
  /\ stage \in [Transactions -> {"idle", "connect", "fn", "commit", "rollback", "done"}]
  /\ issued \in [Transactions -> Nat]
  /\ server \in [Transactions -> {"none", "open", "aborted"}]
  /\ swallowed \in [Transactions -> BOOLEAN]
  /\ answer \in [Transactions -> Answers]
  /\ copies \in [Transactions -> Nat] /\ doubts \in [Transactions -> Nat]
  /\ retries \in 0 .. MaxRetries

StoreInit ==
  /\ stage = [t \in Transactions |-> "idle"]
  /\ issued = [t \in Transactions |-> 0]
  /\ server = [t \in Transactions |-> "none"]
  /\ swallowed = [t \in Transactions |-> FALSE]
  /\ answer = [t \in Transactions |-> "none"]
  /\ copies = [t \in Transactions |-> 0]
  /\ doubts = [t \in Transactions |-> 0]
  /\ retries = 0

-----------------------------------------------------------------------------

Running(t) == stage[t] \notin {"idle", "done"}

(* fn awaits one thing at a time: not while a call it made is running.     *)
InCallback(t) ==
  stage[t] = "fn" /\ \A u \in Transactions : ParentOf[u] = t => ~Running(u)

MayCall(t) == ParentOf[t] # NoTransaction => InCallback(ParentOf[t])

Moves(t, from, to) == stage[t] = from /\ stage' = [stage EXCEPT ![t] = to]

Begins(t) ==
  /\ stage' = [stage EXCEPT ![t] = "connect"]
  /\ swallowed' = [swallowed EXCEPT ![t] = FALSE]
  /\ UNCHANGED issued

Call(t) ==
  /\ stage[t] = "idle" /\ MayCall(t)
  /\ Begins(t)
  /\ UNCHANGED <<server, answer, copies, doubts, retries, poolVars>>

(* if (isTransientError(err)) return retryWithBackoff(...)                 *)
Retry(t) ==
  /\ stage[t] = "done" /\ MayCall(t) /\ retries < MaxRetries
  /\ answer[t] \in {"integrity", "transient"}
  /\ Begins(t)
  /\ retries' = retries + 1
  /\ UNCHANGED <<server, answer, copies, doubts, poolVars>>

(* The call is answered and its session has no transaction any more.       *)
Answered(t, a) ==
  /\ stage' = [stage EXCEPT ![t] = "done"]
  /\ server' = [server EXCEPT ![t] = "none"]
  /\ answer' = [answer EXCEPT ![t] = a]
  /\ doubts' = [doubts EXCEPT ![t] = IF a = "integrity" THEN @ + 1 ELSE @]
  /\ issued' = [issued EXCEPT ![t] = 0]
  /\ swallowed' = [swallowed EXCEPT ![t] = @ /\ a = "resolved"]
  /\ UNCHANGED retries

(* Mutant: the client is released where the call is answered plainly.      *)
EndsLeaking(t, a) ==
  Answered(t, a) /\ IF a = "integrity" THEN UNCHANGED free ELSE Release(ProcessOf[t])

(* finally: the client goes back to the pool, whatever happened.           *)
Ends(t, a) == Answered(t, a) /\ Release(ProcessOf[t])

(* connectionTimeoutMillis: a saturated pool rejects.                      *)
ConnectTimeout(t) ==
  /\ stage[t] = "connect" /\ free[ProcessOf[t]] = 0
  /\ Answered(t, Rejection("unrecognized"))
  /\ UNCHANGED <<copies, free, faults>>

Begin(t) ==
  /\ Moves(t, "connect", "fn") /\ Connect(ProcessOf[t])
  /\ server' = [server EXCEPT ![t] = "open"]
  /\ UNCHANGED <<issued, swallowed, answer, copies, doubts, retries, faults>>

(* BEGIN is outside the inner try blocks: its error is thrown as it is.    *)
BeginFails(t) ==
  /\ stage[t] = "connect" /\ free[ProcessOf[t]] > 0 /\ Fault
  /\ \E e \in {"network", "terminated", "lifecycle"} : Answered(t, Rejection(e))
  /\ UNCHANGED <<copies, free>>

-----------------------------------------------------------------------------
(* fn.  A statement stands for saveInstance of the aggregate and the       *)
(* saveTransitionRecord that follows it.                                   *)

NextRow(t) == PlanOf[t][issued[t] + 1]

RowsLocked(t) ==
  IF server[t] = "open" THEN {PlanOf[t][i] : i \in 1 .. issued[t]} ELSE {}

Blocked(t) == \E u \in Transactions \ {t} : NextRow(t) \in RowsLocked(u)

HasNext(t) == InCallback(t) /\ issued[t] < Len(PlanOf[t])

Issues(t) == issued' = [issued EXCEPT ![t] = @ + 1]

Statement(t) ==
  /\ HasNext(t) /\ server[t] = "open" /\ ~Blocked(t)
  /\ Issues(t)
  /\ UNCHANGED <<stage, server, swallowed, answer, copies, doubts, retries, poolVars>>

(* The statement fails and aborts the transaction; fn throws its error, or *)
(* catches it.                                                             *)
Aborts(t) ==
  /\ server' = [server EXCEPT ![t] = "aborted"]
  /\ Issues(t)
  /\ \/ /\ stage' = [stage EXCEPT ![t] = "rollback"] /\ UNCHANGED swallowed
     \/ /\ swallowed' = [swallowed EXCEPT ![t] = TRUE] /\ UNCHANGED stage
  /\ UNCHANGED <<answer, copies, doubts, retries>>

StatementFails(t) ==
  /\ HasNext(t) /\ server[t] = "open" /\ Fault
  /\ Aborts(t) /\ UNCHANGED free

(* Mutant: without statement_timeout, only a deadlock the server sees ends *)
(* the wait.                                                               *)
StatementDeadlock(t) ==
  /\ HasNext(t) /\ server[t] = "open"
  /\ \E u \in Transactions \ {t} :
       NextRow(t) \in RowsLocked(u) /\ HasNext(u) /\ NextRow(u) \in RowsLocked(t)
  /\ Aborts(t) /\ UNCHANGED poolVars

(* statement_timeout, or the server that breaks a deadlock.                *)
StatementTimeout(t) ==
  /\ HasNext(t) /\ server[t] = "open" /\ Blocked(t)
  /\ Aborts(t) /\ UNCHANGED poolVars

(* Every further statement of an aborted or lost transaction is refused.   *)
StatementRefused(t) ==
  /\ HasNext(t) /\ server[t] # "open"
  /\ Issues(t)
  /\ \/ /\ stage' = [stage EXCEPT ![t] = "rollback"] /\ UNCHANGED swallowed
     \/ /\ swallowed' = [swallowed EXCEPT ![t] = TRUE] /\ UNCHANGED stage
  /\ UNCHANGED <<server, answer, copies, doubts, retries, poolVars>>

(* The connection breaks while fn runs: the server rolls back.  The no-op  *)
(* handler keeps the process alive; the next query is refused.             *)
ConnectionLost(t) ==
  /\ stage[t] = "fn" /\ server[t] # "none" /\ Fault
  /\ server' = [server EXCEPT ![t] = "none"]
  /\ UNCHANGED <<stage, issued, swallowed, answer, copies, doubts, retries, free>>

FnResolves(t) ==
  /\ InCallback(t) /\ ~HasNext(t)
  /\ stage' = [stage EXCEPT ![t] = "commit"]
  /\ UNCHANGED <<issued, server, swallowed, answer, copies, doubts, retries, poolVars>>

FnThrows(t) ==
  /\ InCallback(t)
  /\ stage' = [stage EXCEPT ![t] = "rollback"]
  /\ UNCHANGED <<issued, server, swallowed, answer, copies, doubts, retries, poolVars>>

-----------------------------------------------------------------------------

Applied(t) == copies' = [copies EXCEPT ![t] = @ + 1]

(* PostgreSQL answers COMMIT of an aborted transaction with ROLLBACK, not  *)
(* with an error; nothing looks at the answer.                             *)
Commit(t) ==
  /\ stage[t] = "commit" /\ server[t] # "none"
  /\ IF server[t] = "open" THEN Applied(t) ELSE UNCHANGED copies
  /\ Ends(t, "resolved")
  /\ UNCHANGED faults

CommitAnswer(e) == IF IsConnectionError(e) THEN "integrity" ELSE Rejection(e)

(* COMMIT is refused, and rolled back; or its connection breaks before or  *)
(* after it took effect.                                                   *)
CommitFails(t) ==
  /\ stage[t] = "commit" /\ server[t] # "none" /\ Fault
  /\ \E e \in {"sqlstate", "network", "terminated", "lifecycle"} :
       /\ \/ UNCHANGED copies
          \/ server[t] = "open" /\ e \in {"network", "terminated"} /\ Applied(t)
       /\ Ends(t, CommitAnswer(e))

(* The connection had been lost: pg rejects with an error that may or may  *)
(* not look like one of the connection.                                    *)
CommitUnsent(t) ==
  /\ stage[t] = "commit" /\ server[t] = "none"
  /\ \E e \in {"network", "terminated", "unrecognized"} : Ends(t, CommitAnswer(e))
  /\ UNCHANGED <<copies, faults>>

(* fn's own error is thrown once ROLLBACK is confirmed.                    *)
Rollback(t) ==
  /\ stage[t] = "rollback" /\ server[t] # "none"
  /\ \E e \in PgErrors : Ends(t, Rejection(e))
  /\ UNCHANGED <<copies, faults>>

RollbackFails(t) ==
  /\ stage[t] = "rollback" /\ server[t] = "none"
  /\ Ends(t, Rejection("integrity"))
  /\ UNCHANGED <<copies, faults>>

StoreStep(t) ==
  \/ ConnectTimeout(t) \/ Begin(t)
  \/ Statement(t) \/ StatementTimeout(t) \/ StatementRefused(t)
  \/ FnResolves(t) \/ Commit(t) \/ CommitUnsent(t) \/ Rollback(t) \/ RollbackFails(t)

StoreNext(t) ==
  \/ Call(t) \/ Retry(t) \/ StoreStep(t)
  \/ BeginFails(t) \/ StatementFails(t) \/ ConnectionLost(t) \/ FnThrows(t)
  \/ CommitFails(t)

-----------------------------------------------------------------------------

(* What withTransaction answers is what happened: the writes of a call     *)
(* that resolved are committed unless fn swallowed the error of one of     *)
(* them, those of a call that rejected are not, and only a                 *)
(* TransactionIntegrityError leaves it open.  So however often transient   *)
(* errors are retried, the writes are there at most once for each call     *)
(* that resolved or was left open.                                         *)
AnswersAreDefinite ==
  \A t \in Transactions :
    /\ copies[t] <= doubts[t] + (IF stage[t] = "done" /\ answer[t] = "resolved" THEN 1 ELSE 0)
    /\ stage[t] = "done" /\ answer[t] = "resolved" /\ ~swallowed[t] => copies[t] >= 1

(* "COMMIT-ed if fn resolves", "Commit on success: changes persist".       *)
ResolvedIsCommitted ==
  \A t \in Transactions :
    stage[t] = "done" /\ answer[t] = "resolved" => copies[t] >= 1

Holds(t) == stage[t] \in {"fn", "commit", "rollback"}
=============================================================================
