----------------------------- MODULE LoopRuntime -----------------------------
(***************************************************************************)
(* packages/runtime-core/src/loop-execution.ts: the requests by which a    *)
(* client provisions a run and starts, moves and cancels it.  A request    *)
(* works on a row of its own database (LoopInstance), calls the engine of  *)
(* LoopEngine, updates the row and appends a LoopEvent, each in an await   *)
(* and a statement of its own.  rpc[c] is the await caller c's request is  *)
(* at:                                                                     *)
(*                                                                         *)
(*   idle      no request                                                  *)
(*   create    inserting the row                                           *)
(*   refetch   looking for the row that holds the idempotency key          *)
(*   engine    awaiting engine.start or engine.transition                  *)
(*   update    updating the row (first awaiting the trace's sequence)      *)
(*   append    inserting the event                                         *)
(*                                                                         *)
(* The engine's instances, history and events are LoopEngine's.  One       *)
(* tenant; the middleware and the validation of a body come before, the    *)
(* trace of a transition is TraceStore.  Rows are never deleted.  An       *)
(* aggregate id is a random UUID: no two provisions draw the same one, so  *)
(* the outcome `conflict` does not occur.                                  *)
(***************************************************************************)
EXTENDS LoopEngine

CONSTANTS
  Keys,         \* idempotency keys
  NoKey,        \* a provision without one
  NoRow,
  MaxRequests   \* bound: requests in a behaviour

VARIABLES
  rows,         \* LoopInstance: aggregate -> row, or NoRow
  loopEvents,   \* LoopEvent: aggregate -> the events, oldest first
  requests,     \* the requests made, with their answers; ended ones are history
  rpc,
  serving,      \* the request in `requests` that the caller serves
  failures      \* how many requests failed outside the engine

database == <<rows, loopEvents>>
engineVars == vars
runtimeVars == <<database, requests, rpc, serving, failures>>
allVars == <<engineVars, runtimeVars>>

RowStates == StateIds \cup {"CANCELLED"}

Row ==
  [loop: DOMAIN Definitions, key: Keys \cup {NoKey}, state: RowStates,
   status: {"CREATED", "active", "OPEN", "TERMINAL"}]

ASSUME RuntimeAssumption ==
  /\ NoKey \notin Keys
  /\ NoRow \notin Row
  /\ MaxRequests \in Nat

LoopEvent ==
  [request: Nat, type: {"start", "CANCELLED"} \cup TransitionIds,
   from: RowStates, to: RowStates]

Answers ==
  {"none", "created", "idempotent_replay", "started", "executed", "cancelled",
   "not_found", "already_started", "already_terminal", "rejected", "error"}

(* `read` is the row the request found (existing), `call` its engine call, *)
(* and `to` the state it moves the row to, once that is known.             *)
Request ==
  [op: {"provision", "start", "transition", "cancel"}, agg: Aggregates,
   loop: DOMAIN Definitions \cup {"none"}, key: Keys \cup {NoKey},
   tid: TransitionIds \cup {"none"}, read: Row \cup {NoRow}, call: Nat,
   to: RowStates, answer: Answers]

RuntimeTypeOK ==
  /\ rows \in [Aggregates -> Row \cup {NoRow}]
  /\ loopEvents \in [Aggregates -> Seq(LoopEvent)]
  /\ requests \in Seq(Request) /\ Len(requests) <= MaxRequests
  /\ rpc \in [Callers -> {"idle", "create", "refetch", "engine", "update", "append"}]
  /\ serving \in [Callers -> 0 .. MaxRequests]
  /\ failures \in 0 .. MaxFaults
  /\ \A c \in Callers : rpc[c] # "idle" => serving[c] \in DOMAIN requests

RuntimeInit ==
  /\ Init
  /\ rows = [a \in Aggregates |-> NoRow]
  /\ loopEvents = [a \in Aggregates |-> <<>>]
  /\ requests = <<>>
  /\ rpc = [c \in Callers |-> "idle"]
  /\ serving = [c \in Callers |-> 0]
  /\ failures = 0

-----------------------------------------------------------------------------
(* Steps that every request is made of.                                    *)

Req(c) == requests[serving[c]]

NewRequest(op, a) ==
  [op |-> op, agg |-> a, loop |-> "none", key |-> NoKey, tid |-> "none",
   read |-> rows[a], call |-> 0, to |-> "CANCELLED", answer |-> "none"]

NewTransition(a, t) == [NewRequest("transition", a) EXCEPT !.tid = t]

(* A request arrives and goes on to await k, or is answered at once.       *)
Arrives(c, r, k) ==
  /\ rpc[c] = "idle" /\ Len(requests) < MaxRequests
  /\ requests' = Append(requests, r)
  /\ rpc' = [rpc EXCEPT ![c] = k]
  /\ serving' = [serving EXCEPT ![c] = IF k = "idle" THEN 0 ELSE Len(requests) + 1]

AnsweredAtOnce(c, r, answer) == Arrives(c, [r EXCEPT !.answer = answer], "idle")

GoesTo(c, k) ==
  /\ rpc' = [rpc EXCEPT ![c] = k]
  /\ UNCHANGED <<requests, serving>>

Answer(c, answer) ==
  /\ requests' = [requests EXCEPT ![serving[c]].answer = answer]
  /\ rpc' = [rpc EXCEPT ![c] = "idle"]
  /\ serving' = [serving EXCEPT ![c] = 0]

-----------------------------------------------------------------------------
(* provisionOssLoopInstance.                                               *)

Holders(k) == {a \in Aggregates : rows[a] # NoRow /\ rows[a].key = k}

(* No request has drawn this id.                                           *)
IsFresh(a) == \A i \in DOMAIN requests : requests[i].agg # a

(* The definition is resolved; a key that has a row is answered with it.   *)
ProvisionLooksUp(c, a, l, k) ==
  /\ \/ /\ k # NoKey /\ a \in Holders(k)
        /\ AnsweredAtOnce(c, [NewRequest("provision", a) EXCEPT !.loop = l, !.key = k],
                          "idempotent_replay")
     \/ /\ k = NoKey \/ Holders(k) = {}
        /\ a \in Serves[c] /\ IsFresh(a)
        /\ Arrives(c, [NewRequest("provision", a) EXCEPT !.loop = l, !.key = k], "create")
  /\ UNCHANGED <<engineVars, database, failures>>

(* createInstance: the row is inserted ...                                 *)
Inserted(c) ==
  LET r == Req(c) IN
    /\ rpc[c] = "create"
    /\ r.key = NoKey \/ Holders(r.key) = {}
    /\ rows' = [rows EXCEPT ![r.agg] =
         [loop |-> r.loop, key |-> r.key, state |-> Definitions[r.loop].initial,
          status |-> "CREATED"]]
    /\ UNCHANGED loopEvents

Create(c) == Inserted(c) /\ Answer(c, "created") /\ UNCHANGED <<engineVars, failures>>

(* Mutant: the lost race is an error like another.                         *)
KeyIsTakenThrows(c) ==
  /\ rpc[c] = "create" /\ Req(c).key # NoKey /\ Holders(Req(c).key) # {}
  /\ Answer(c, "error")
  /\ UNCHANGED <<engineVars, database, failures>>

(* ... unless the unique (tenant, idempotencyKey) has one by now.          *)
KeyIsTaken(c) ==
  /\ rpc[c] = "create" /\ Req(c).key # NoKey /\ Holders(Req(c).key) # {}
  /\ GoesTo(c, "refetch")
  /\ UNCHANGED <<engineVars, database, failures>>

(* The winner's row is the answer.                                         *)
Refetch(c) ==
  /\ rpc[c] = "refetch"
  /\ \E a \in Holders(Req(c).key) :
       requests' = [requests EXCEPT ![serving[c]].agg = a,
                                    ![serving[c]].answer = "idempotent_replay"]
  /\ rpc' = [rpc EXCEPT ![c] = "idle"]
  /\ serving' = [serving EXCEPT ![c] = 0]
  /\ UNCHANGED <<engineVars, database, failures>>

-----------------------------------------------------------------------------
(* executeOssStart, executeOssTransition, executeOssCancel.                *)

IsStartable(row) == row.status = "CREATED"

IsCancellable(row) == row.status # "TERMINAL"

(* findByAggregateId, and what is decided on the row it found.             *)
FindRow(c, a, r) ==
  /\ a \in Serves[c] /\ ~ IsFresh(a)
  /\ \/ rows[a] = NoRow /\ AnsweredAtOnce(c, r, "not_found")
     \/ /\ rows[a] # NoRow /\ r.op = "start"
        /\ IF IsStartable(rows[a])
             THEN Arrives(c, r, "engine")
             ELSE AnsweredAtOnce(c, r, "already_started")
     \/ rows[a] # NoRow /\ r.op = "transition" /\ Arrives(c, r, "engine")
     \/ /\ rows[a] # NoRow /\ r.op = "cancel"
        /\ IF IsCancellable(rows[a])
             THEN Arrives(c, r, "update")
             ELSE AnsweredAtOnce(c, r, "already_terminal")
  /\ UNCHANGED <<engineVars, database, failures>>

(* The engine is called; without constraints nobody needs approval.  A     *)
(* call it does not refuse at once returns the state it is about to save:  *)
(* result.toState, or started.currentState.                                *)
CallsEngine(c) ==
  LET r == Req(c) IN
    /\ rpc[c] = "engine" /\ r.call = 0
    /\ \/ r.op = "start" /\ StartCall(c, r.agg, r.read.loop)
       \/ /\ r.op = "transition"
          /\ \E actor \in ActorTypes :
               \/ TransitionRefused(c, r.agg, r.tid, actor, FALSE)
               \/ TransitionRequested(c, r.agg, r.tid, actor, FALSE)
    /\ requests' = [requests EXCEPT ![serving[c]].call = calls + 1,
                       ![serving[c]].to = IF pc'[c] = "idle" THEN @
                                          ELSE call'[c].write.state]
    /\ UNCHANGED <<database, rpc, serving, failures>>

EngineContinues(c) == Continue(c) /\ UNCHANGED runtimeVars

(* MaxFaults bounds the faults of both together.                           *)
MayFail == faults + failures < MaxFaults

EngineFails(c) == MayFail /\ (LoseEvent(c) \/ Abort(c)) /\ UNCHANGED runtimeVars

EngineResult(c) == outcome[Req(c).call]

(* Mutant: nobody catches a rejected promise.                              *)
EngineReturnsUncaught(c) ==
  /\ rpc[c] = "engine" /\ Req(c).call # 0 /\ pc[c] = "idle"
  /\ \/ EngineResult(c) \in Refusals /\ Answer(c, "rejected")
     \/ EngineResult(c) \in {"started", "executed"} /\ GoesTo(c, "update")
  /\ UNCHANGED <<engineVars, database, failures>>

(* Mutant: a start does not update the row.                                *)
EngineReturnsUnrecorded(c) ==
  /\ rpc[c] = "engine" /\ Req(c).call # 0 /\ pc[c] = "idle"
  /\ \/ EngineResult(c) = "threw" /\ Answer(c, "error")
     \/ EngineResult(c) \in Refusals /\ Answer(c, "rejected")
     \/ EngineResult(c) = "started" /\ GoesTo(c, "append")
     \/ EngineResult(c) = "executed" /\ GoesTo(c, "update")
  /\ UNCHANGED <<engineVars, database, failures>>

(* A rejected promise is a 500, a refusal is answered; otherwise the row   *)
(* and the events follow.                                                  *)
EngineReturns(c) ==
  /\ rpc[c] = "engine" /\ Req(c).call # 0 /\ pc[c] = "idle"
  /\ \/ EngineResult(c) = "threw" /\ Answer(c, "error")
     \/ EngineResult(c) \in Refusals /\ Answer(c, "rejected")
     \/ EngineResult(c) \in {"started", "executed"} /\ GoesTo(c, "update")
  /\ UNCHANGED <<engineVars, database, failures>>

(* The status that goes with `to`: the engine's own after a start, and after *)
(* a move `OPEN`, or the one read if the row's state does not change.      *)
ToStatus(r) ==
  CASE r.op = "start" -> "active"
    [] r.op = "cancel" -> "TERMINAL"
    [] OTHER -> IF r.to = r.read.state THEN r.read.status ELSE "OPEN"

(* updateInstanceState: by id, whatever the row says by now.               *)
Updated(c) ==
  LET r == Req(c) IN
    /\ rpc[c] = "update"
    /\ rows' = [rows EXCEPT ![r.agg].state = r.to, ![r.agg].status = ToStatus(r)]
    /\ UNCHANGED loopEvents

(* Mutant: a move that stays in its state is answered without an event.    *)
UpdateForgets(c) ==
  /\ Updated(c)
  /\ IF Req(c).to = Req(c).read.state
       THEN Answer(c, "executed") ELSE GoesTo(c, "append")
  /\ UNCHANGED <<engineVars, failures>>

Update(c) ==
  Updated(c) /\ GoesTo(c, "append") /\ UNCHANGED <<engineVars, failures>>

EventType(r) ==
  CASE r.op = "start" -> "start" [] r.op = "cancel" -> "CANCELLED" [] OTHER -> r.tid

(* Mutant: the target is read again from the row.                          *)
EventOfReread(i) ==
  LET r == requests[i] IN
    [request |-> i, type |-> EventType(r),
     from |-> r.read.state, to |-> rows[r.agg].state]

(* Mutant: the source is read from the updated row.                        *)
EventOfUpdated(i) ==
  LET r == requests[i] IN
    [request |-> i, type |-> EventType(r),
     from |-> rows[r.agg].state, to |-> r.to]

(* appendEvent: from the state of the row the request had found.           *)
EventOf(i) ==
  LET r == requests[i] IN
    [request |-> i, type |-> EventType(r),
     from |-> r.read.state, to |-> r.to]

Appended(c) ==
  /\ rpc[c] = "append"
  /\ loopEvents' = [loopEvents EXCEPT ![Req(c).agg] = Append(@, EventOf(serving[c]))]
  /\ UNCHANGED rows

Success(op) ==
  CASE op = "start" -> "started" [] op = "cancel" -> "cancelled" [] OTHER -> "executed"

AppendEvent(c) ==
  Appended(c) /\ Answer(c, Success(Req(c).op)) /\ UNCHANGED <<engineVars, failures>>

-----------------------------------------------------------------------------
(* Mutant: a start that fails is undone in the engine.                     *)
RequestFailsUndoes(c) ==
  /\ MayFail /\ failures' = failures + 1
  /\ rpc[c] \in {"create", "refetch", "update", "append"}
  /\ Answer(c, "error")
  /\ instances' = IF Req(c).op = "start"
                    THEN [instances EXCEPT ![Req(c).agg] = NoInstance] ELSE instances
  /\ UNCHANGED <<database, history, snapshots, since, events, pc, call, calls,
                 faults, outcome>>

(* A statement fails, or the process dies: the request has no effect any   *)
(* more; what its engine call did remains.                                 *)
RequestFails(c) ==
  /\ MayFail /\ failures' = failures + 1
  /\ rpc[c] \in {"create", "refetch", "update", "append"}
  /\ Answer(c, "error")
  /\ UNCHANGED <<engineVars, database>>

(* The statement took effect, and only its answer is lost.                 *)
Unconfirmed(c) ==
  /\ MayFail /\ failures' = failures + 1
  /\ (Inserted(c) \/ Updated(c) \/ Appended(c))
  /\ Answer(c, "error")
  /\ UNCHANGED engineVars

-----------------------------------------------------------------------------
Serve(c) ==
  \/ Create(c) \/ KeyIsTaken(c) \/ Refetch(c)
  \/ CallsEngine(c) \/ EngineContinues(c) \/ EngineReturns(c)
  \/ Update(c) \/ AppendEvent(c)

RuntimeNext ==
  \E c \in Callers :
    \/ \E a \in Aggregates :
         \/ \E l \in DOMAIN Definitions, k \in Keys \cup {NoKey} :
              ProvisionLooksUp(c, a, l, k)
         \/ \E op \in {"start", "cancel"} : FindRow(c, a, NewRequest(op, a))
         \/ \E t \in TransitionIds :
              FindRow(c, a, NewTransition(a, t))
    \/ Serve(c)
    \/ EngineFails(c) \/ RequestFails(c) \/ Unconfirmed(c)

(* The database, the stores and the bus answer, or reject.                 *)
RuntimeFairness == \A c \in Callers : WF_allVars(Serve(c))

RuntimeSpec == RuntimeInit /\ [][RuntimeNext]_allVars

FairRuntimeSpec == RuntimeSpec /\ RuntimeFairness

-----------------------------------------------------------------------------
Provisions(k) == {i \in DOMAIN requests : requests[i].op = "provision" /\ requests[i].key = k}

(* However provisions with one key overlap, are repeated or lose their     *)
(* answer, they make one row, they all name it, at most one says that it   *)
(* created it, and none is an error unless something failed.               *)
ProvisionIsIdempotent ==
  \A k \in Keys :
    /\ \A a, b \in Holders(k) : a = b
    /\ \A i \in Provisions(k) :
         /\ requests[i].answer \in {"created", "idempotent_replay"} =>
              requests[i].agg \in Holders(k)
         /\ requests[i].answer = "error" => failures > 0
         /\ \A j \in Provisions(k) :
              requests[i].answer = "created" /\ requests[j].answer = "created" => i = j

(* The events that request i appended.                                     *)
EventsOf(i) ==
  {n \in DOMAIN loopEvents[requests[i].agg] :
     loopEvents[requests[i].agg][n].request = i}

RecordsOf(i) ==
  {n \in DOMAIN history[requests[i].agg] :
     history[requests[i].agg][n].call = requests[i].call}

(* An answer is true of three stores: an executed transition is in the     *)
(* history and, once, among the events; a start was the engine's; what was *)
(* refused has left no trace anywhere.                                     *)
AnswersAreTrue ==
  \A i \in DOMAIN requests :
    LET r == requests[i] IN
      /\ r.answer \in {"started", "executed", "cancelled"} =>
           \E n \in EventsOf(i) : EventsOf(i) = {n}
      /\ r.answer = "executed" => RecordsOf(i) # {}
      /\ r.answer = "started" => outcome[r.call] = "started"
      /\ r.answer \in {"rejected", "already_started", "already_terminal", "not_found"} =>
           RecordsOf(i) = {} /\ EventsOf(i) = {}

(* No event tells of what the engine did not do: a start event is of an    *)
(* engine that started, an event of a transition is of a record, with its  *)
(* id and its target.                                                      *)
EventsAreBacked ==
  \A a \in Aggregates : \A n \in DOMAIN loopEvents[a] :
    LET e == loopEvents[a][n]
        r == requests[e.request] IN
      /\ r.op = "start" => outcome[r.call] = "started"
      /\ r.op = "transition" =>
           \E m \in DOMAIN history[a] :
             history[a][m].call = r.call /\ history[a][m].tid = e.type
             /\ history[a][m].to = e.to

(* Whatever requests do, interleaved or failing, the engine only sees      *)
(* calls it knows: what holds of LoopEngine holds under the runtime.       *)
RunsTheEngine == Spec

-----------------------------------------------------------------------------
(* What a client that makes one request at a time, and no fault, can rely  *)
(* on (Isolated, MaxFaults = 0).                                           *)

AtRest(a) == \A c \in Callers : rpc[c] # "idle" => Req(c).agg # a

(* The events of a run chain: the first leaves the initial state, each     *)
(* other one the state the one before reached, and the last is the row's.  *)
EventsChain ==
  \A a \in Aggregates : (rows[a] # NoRow /\ AtRest(a)) =>
    LET n == Len(loopEvents[a])
        reached(m) == IF m = 0 THEN Definitions[rows[a].loop].initial
                      ELSE loopEvents[a][m].to IN
      /\ \A m \in 1 .. n : loopEvents[a][m].from = reached(m - 1)
      /\ rows[a].state = reached(n)

(* The row and the engine's instance agree at rest, but that a cancelled   *)
(* row does not know its instance.                                         *)
RowFollowsEngine ==
  \A a \in Aggregates : (rows[a] # NoRow /\ AtRest(a)) =>
    /\ rows[a].status = "CREATED" => instances[a] = NoInstance
    /\ rows[a].status \in {"active", "OPEN"} =>
         instances[a] # NoInstance /\ rows[a].state = instances[a].state

(* Every request is answered.                                              *)
RequestsAreAnswered ==
  \A c \in Callers : rpc[c] # "idle" ~> rpc[c] = "idle"
=============================================================================
