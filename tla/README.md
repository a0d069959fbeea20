# Loop Engine: specifications, model checking and proofs

Loop Engine runs *loops*: small state machines ("draft, review, done") attached
to a business aggregate, whose every move is authorised, guarded and recorded.
The value of the product is one sentence of its README: the engine "decides
whether state may change and records evidence first". This directory states
what that sentence takes in TLA+, checks it with TLC on small instances and
proves parts of it with TLAPS for every instance.

All paths below are relative to `packages/` of the repository.

## 1. The system

### Components

| component | state it keeps | operations | must be true |
|---|---|---|---|
| `runtime` (engine) | none of its own; locals of the calls in flight | `start`, `transition`, `cancelLoop`, `failLoop`; reads `getState`, `getHistory`, `listOpen` | only lawful moves are recorded; answers and events tell the truth; evidence is stored before the move; a run completes once |
| `core` | types only: definitions, instances, records | | |
| `adapter-memory`, `adapters/postgres` (LoopStore) | one instance row per aggregate; transition records; (postgres) the pool, transactions, the migration table | `getInstance`, `saveInstance`, `saveTransitionRecord`, `getTransitionHistory`, `listOpenInstances`, `withTransaction`, `runMigrations` | the open list has no ended loop; the history replays; an answer says what was committed; each migration is applied once; no client leaks |
| `evidence`, `provider-*`, `canonical-json` | inserted snapshots | provider `snapshot()`, validators, `commitGovernedEvidenceSnapshots` | a governed record names stored snapshots; what is stored carries its own hash |
| `guards`, `actors` | registry of evaluators | `evaluateGuards`, `canActorExecuteTransition` | a hard failure stops the move, a soft one is recorded |
| `events`, `adapters/http`, `adapters/kafka` | subscriptions | `emit` | what is announced happened |
| `adapter-openclaw` | one websocket, reconnection timers | `connect`, `emit`, `disconnect`, socket events | one line of reconnections |
| `observability` | none | `replayLoop`, timeline, residency, metrics | a history without error is a run of the machine; a read answer agrees with the rows it was made of |
| `runtime-core`, `runtime-routes`, `runtime-db` | loop-instance rows, loop events, traces and their summary, API keys (PostgreSQL through Prisma) | provision, start, transition, cancel; trace writes and reads; authentication; definition resolution | one row per idempotency key; the row follows the engine; trace sequences and summaries agree with the traces; a key is judged as it was |
| `loop-definition` | the draft of a builder | builder, parsers, serializer, `validateLoopDefinition` | what was built and read back can finish |
| `registry-client`, `sdk` | caches of definitions | local, HTTP and v0 registries; `createLoopSystem` | no answer older than the server or the time to live allows; an outage hides nothing local |
| `entitlements-iface`, `auth-iface` | usage windows; hashed keys | quota checks; authentication | never more than the limit in a window |
| `loop-status-client` | the consumer's cursor | `pullTransitions`, `streamLoopState` | no transition is skipped |
| AI actors, Perplexity, Vercel AI | none | ask a model; run a governed tool | a decision is one of those offered; a tool runs once, after `EXECUTING` |
| `canon`, `signals`, `studio-*`, `presentation`, `ui-devtools`, PagerDuty, commerce gateway, examples, apps, deploy | none | pure functions, views, wiring | |

### How they interact

```
 HTTP route -> RuntimeGate -> runtime-core -> LoopEngine -> GuardRegistry
  (auth, tier, window)           |   |            |   |  \-> SnapshotStore <- evidence <- provider
                                 |   |            |   \----> EventBus (memory, HTTP, Kafka, openclaw)
   registry-client -> resolver --/   |            \--------> LoopStore (memory, postgres)
   loop-definition                   \-> Prisma rows, events, traces -> read routes, status client
   AI actors, governed tools ----------> engine.transition
```

Everything is asynchronous TypeScript: a call runs without interruption from
one `await` to the next, and at an `await` any other call of the same process,
or of another process on the same database, may run. Nothing in the engine
locks an aggregate, and a transition is up to eight awaits: the read, an emit
per announcement, the guards, the evidence, the two saves. The hard behaviours
are therefore

* two calls on one aggregate interleaved at their awaits, each acting on an
  instance the other has replaced (`runtime/src/engine.ts`);
* a process or a store that fails between two writes that belong together
  (instance and record, snapshot and move, engine and row, trace and summary,
  migration and its record), or a connection lost while COMMIT is under way;
* announcements that are lost, or made by a call that then fails;
* legal calls in an order nobody tried: a cancelled loop moved on, a terminal
  state with transitions out of it, a restart over a finished run, a nested
  transaction;
* state read in one statement and used in another: a sequence, a summary, a key
  and its grace key, a list of definitions and the cache it is put into;
* pages, live frames and requests to resync that overlap on one cursor.

`PROJECT.json` lists each of them at its line (`hazards`), with the properties
that would catch it or the reason there is none.

## 2. The modules

| module | models | depends on |
|---|---|---|
| `LoopDefinitions` | `core` types; the pure parts of the engine; `replayLoop` | |
| `LoopLifecycle` | abstract: one loop per aggregate, each operation one atomic step | `LoopDefinitions` |
| `LoopEngine` | `runtime/src/engine.ts` at the grain of its awaits, over a LoopStore, a SnapshotStore and an EventBus | `LoopDefinitions` |
| `LoopEngineProperties` | what the engine keeps true, the inductive invariants, the refinement, and a claim it does not meet | `LoopEngine`, `LoopLifecycle` |
| `LoopEngineProofs` | theorems: types, lawful records, live instances, evidence first | `LoopEngineProperties` |
| `LoopAnswersProofs` | theorems: answers and announcements | `LoopEngineProofs` |
| `LifecycleProofs` | theorems for isolated calls: the replay, one completion, the refinement of `LoopLifecycle` | `LoopAnswersProofs` |
| `TraceLog` | abstract: a log of the traced transitions of a run, with its summary | |
| `TraceStore` | `runtime-core`'s tracing of one run: the wrapper around `engine.transition`, the write it leaves behind, the PostgreSQL tables; what it keeps true | `TraceLog` |
| `TraceStoreProofs` | theorems | `TraceStore` |
| `LoopRuntime` | `runtime-core`'s provision, start, transition and cancel, over its rows and events *and* the engine's actions; what it keeps true | `LoopEngine` |
| `LoopRuntimeProofs` | theorems | `LoopRuntime`, `LifecycleProofs` |
| `PostgresPool` | the pool of a process and the classes of its errors | |
| `MigrationRunner` | `runMigrations` by several processes | `PostgresPool` |
| `PostgresStore` | `withTransaction` with nested, conflicting and retried callbacks | `PostgresPool` |
| `PostgresAdapter` | processes that migrate and then open the store, on one pool | both |
| `PostgresProofs` | theorems | `PostgresAdapter` |
| `RegistryClient` | `httpRegistry`, `v0Registry`, their cache and retries | |
| `LocalRegistry` | `localRegistry` and its first load | |
| `DefinitionBuilder` | builder, schema, validator, serializer and parsers | |
| `DefinitionResolver` | where runtime and SDK take definitions from | |
| `DefinitionServices` | the four above, for one run | the four |
| `DefinitionProofs` | theorems on each of the four | those |
| `RuntimeGate` | authentication, tier, rate window: what is before every route | |
| `RunReads` | the five read routes and the timeline | |
| `OpenClawBus` | the reconnecting event bus | |
| `StatusClient` | pull, stream and a consumer of both | |
| `ModelCalls` | AI actors and Perplexity retries | |
| `GovernedTool` | a tool of an AI agent under a loop | |
| `GovernedEvidence` | provider, validators, commit | |
| `RuntimeEdges` | the seven above, for one run | the seven |
| `EdgeProofs` | theorems on `RuntimeGate`, `OpenClawBus`, `StatusClient`, `GovernedTool`, `ModelCalls`, `GovernedEvidence`, `RunReads` | those |
| `MCLoopEngine`, `MCTraceStore`, `MCLoopRuntime`, `MCPostgresAdapter`, `MCDefinitionServices`, `MCRuntimeEdges` | instances for TLC | |

`PostgresAdapter` and `LoopRuntime` compose components that share state (the
pool; the engine). The parts of `DefinitionServices` and of `RuntimeEdges` share
none, so a product of them would reach no state of a part that the part alone
does not reach; a variable `part` says which of them runs, the others are at
rest, and one run checks them all at the cost of the sum of their states.

### From the code to `LoopEngine`

A caller is an async call in flight; `pc[c]` names the await it is at and
`call[c]` holds its locals. One action is the code between two awaits:

| code (`runtime/src/engine.ts`) | action |
|---|---|
| `start` to `saveInstance` (115-137) | `StartCall`: the registry lookup, the check for an active instance, or a throw |
| `transition` to its first `emit` (156-219) | `TransitionRefused` (closed, no such transition, actor, approval) or `TransitionRequested` |
| `evaluateGuards` and its consequences (221-306) | `EvaluateGuards`: unknown guard throws, soft failures warn, a hard failure is announced, blocks and returns |
| `commitGovernedEvidenceSnapshots` (evidence, 63-144) | `CommitEvidence`: three refusals, or the batch inserted |
| `store.saveInstance` (352, 137, 431, 463) | `SaveInstance`: an upsert of the whole row |
| `store.saveTransitionRecord` (365) | `SaveRecord`, then the announcements |
| `eventBus.emit` settles | `Deliver`, or `LoseEvent` when an HTTP bus gave up |
| a throw or a crash at an await | `Abort` |
| `cancelLoop`, `failLoop` (419-470) | `CancelCall`, `FailCall` |

`call[c].write` is the local `updated` (or `instance`): computed from the
instance the call read at its *first* step, saved several awaits later. The
model keeps that gap, which is where every race of this code is. A guard's
verdict and the shape of the evidence are nondeterministic choices. Left out:
labels, correlation ids, timestamps (but whether `completedAt` is set), metrics,
the wording of refusals. The loop registry is the same in every call.

`history` is in insertion order; the postgres store orders by `occurred_at`
then `id`, which is the same as long as clocks agree (section 7).

### From the code to `TraceStore`

The wrapper (`runtime-core/src/oss-traced-loop-system.ts`) and the repository
(`runtime-core/src/trace-repository.ts`) trace each transition of a run;
`pc[w]` is the await that the trace of transition `w` is at.

| code | action |
|---|---|
| `wrappedTransition` up to the allocation (wrapper, 121-153) | `TransitionEnds`: what is traced is decided by the outcome |
| `allocateNextSequence` (repository, 128-136), then the return | `Allocate`; `AllocationFails` takes the sequence from the process's counter (wrapper, 44-60, 155-161) |
| `loopTraceRecord.create` (164) | `InsertRow`, which waits for an uncommitted row with the same key (`RowHolders`), or `SequenceCollides` |
| the retry loop (138-159) | `SequenceCollides`, `Reallocate`; `MaxAttempts` |
| `findUnique`, `create` / `update` of the summary (166-199) | `FindSummary`, `SaveSummary` (takes the row lock, or violates the primary key), `SavedSummary` |
| the end of `$transaction` | `Commit`, `Abort`, `CommitUnconfirmed` |
| death of a process | `Crash`: its writes are lost and its counter starts again at 0 |

The transaction is PostgreSQL's read committed, the default of the code's
connection: a statement sees what was committed before it began; the unique
index (`schema.prisma`:103) and the row lock decide who waits. `stepCount` and
`blockedCount` are increments evaluated on the locked row, `governed` is a value
computed from the row read *before*. `seen[w]`, the number of rows when `w`
ended, is a history variable. `AllocationFails` is bounded by `MaxFallbacks`,
faults by `MaxFaults`.

### From the code to `LoopRuntime`

A request (`runtime-core/src/loop-execution.ts`, called by the handlers of
`runtime-routes/src/loops.ts`) works on a row of its own table beside the
engine's instance; `rpc[c]` is the await it is at. While it awaits the engine,
caller `c`'s call takes the steps of `LoopEngine`.

| code | action |
|---|---|
| the look-up by key (87-96), or a new row's UUID (106-114) | `ProvisionLooksUp` |
| `createInstance` (116-118) | `Create`, or `KeyIsTaken` when (tenant, key) has a row by now; `Refetch` (124-128) |
| `findByAggregateId` and the decision on what it found (155-159, 234-235, 314-316) | `FindRow` |
| `tracedEngine.start`, `.transition` (167, 249) | `CallsEngine`, `EngineContinues`, `EngineFails`, `EngineReturns` |
| `updateInstanceState` (174, 265, 319) | `Update`: by id, unconditional, with a status that follows the row *read* (`ToStatus`) |
| `appendEvent` and the answer (181, 275, 326) | `AppendEvent` |
| a rejected statement, a death | `RequestFails`; `Unconfirmed` when the statement took effect |

`cancel` does not call the engine: that is the code. The definition a provision
resolves is one of `Definitions`; authentication and body checks come before and
change nothing. Of the trace only what `TraceStore` says is left out: it cannot
change the request (its errors are caught).

### From the code to `PostgresAdapter`

`at[p]` is the await of process `p` in `runMigrations`; `stage[t]` that of call
`t` of `withTransaction`; `free[p]` counts the idle clients of a pool.

| code (`adapters/postgres/src`) | action |
|---|---|
| `pool.connect` (`runner.ts` 159-169, `index.ts` 347-360) | `RunMigrations`, `Call`; with no idle client the call waits, and `ConnectTimeout` ends the wait; `NotConnected` when the server refuses a runner (it never waits for a client: no store uses the pool before its process is migrated) |
| `pg_advisory_lock`, its statement timeout | `TakeLock`, `LockTimeout` |
| the recorded migrations, then the loop over the directory (174-203) | `ReadApplied`, `Skip`, `RefuseDrift`, `ApplyBody` (BEGIN, the body), `BodyFails` (ROLLBACK), `Record` (insert and COMMIT), `Finish` |
| a lost connection: the session's lock and transaction go with it | `RunnerLost`; at COMMIT the migration is there or not |
| BEGIN, `fn`, COMMIT or ROLLBACK (380-430) | `Begin`, `Statement`, `FnResolves`, `FnThrows`, `Commit`, `Rollback`, and the failure of each: `BeginFails`, `StatementFails`, `StatementTimeout`, `StatementDeadlock`, `StatementRefused`, `CommitFails`, `CommitUnsent`, `RollbackFails`, `ConnectionLost` |
| `classifyError`, `isConnectionError` (`errors.ts`) | `ClassifyError`, `IsConnectionError` over nine kinds of errors |

PostgreSQL is external: a row that is written is locked until its transaction
ends, a failed statement aborts the transaction, COMMIT of an aborted one is a
ROLLBACK. What `fn` does is a plan of rows; it may catch the error of a
statement, throw, or call `withTransaction` again, which takes a second client.
The application retries transient rejections, as the package's README shows.

### From the code to `DefinitionServices`

| code | action |
|---|---|
| `get`, `list`, `register`, `remove` of `registry-client/src/adapters/http.ts` and `v0.ts` | `Get`, `List`, `Change`: answered from the cache or sent; `ListReplied`, `PageDone`, `Recommended`, `NoSummary`, `GetReplied`, `ChangeReplied` when a reply is in |
| `fetchWithRetry`, and the statuses and bodies its callers throw on | `Lose`: again, or given up; `Refused`: given up at once |
| `localRegistry` (`local.ts`) | `LocalCall` (sets `loaded`), `LoadNext` (a file, then an inline definition), `Digested` (the write after the awaited checksum), `Read`, `Register`, `Remove` |
| `LoopBuilder` (`builder.ts`) | one action a method; `Build` runs the schema and `Errors`, the validator; `Serialize`, `Parse` |
| `createLoopDefinitionResolver`, `createLoopSystem` | `CallList`/`CallResolve`/`CallSystem`, then one action per fetch or query; `RowsFail` when the database rejects; `Edit` is a publisher or an operator meanwhile |

A definition is its id and version (with what the validator looks at in
`DefinitionBuilder`). The server's catalog at each tick (`held`), and what was
served during a resolution (`always`, `seen`), are history variables.

### From the code to `RuntimeEdges`

| code | actions |
|---|---|
| `runtime-core/src/db-auth-adapter.ts`: key, grace key, clear or touch | `Arrives`, `PrimaryLookup`, `GraceLookup`, `ClearGrace`, `Touch`; `FromMemory` is the memory adapter; operators `AddKey`, `RotateKey`, `RevokeKey` |
| `with-persisted-run-read.ts`, `-write.ts`; `quota.ts` | `PassesGate` (tier, then the window), `Handles`, `LookupFails` |
| `runs.ts`, `build-run-responses.ts`, `trace-timeline.ts` | `ReadBegins`, `ReadSummary`, `ReadTrace`; the answers are `Detail`, `History`, `EvidenceItems`, `Timeline`, `ReplaySummary` |
| `openclaw-event-bus.ts` | `SocketOpens`, `SocketFails`, `SocketCloses`, `Reconnects` (the timer), `Disconnect`, `Emit`, `InnerDone`, `Forward` |
| `loop-status-client/src/client.ts` | `Pulls`, `PullFails`, `PageArrives`, `StreamOpens`, `StreamRefused`, `StreamBreaks`, `FrameArrives` |
| the four actor adapters; `adapter-perplexity` | `Ask`, `ActorRefused`, `Anthropic`, `OpenAI`, `Gemini`, `Grok`; `GeminiHasNoText` when the library's answer has no text; `Attempt`, whose answer may have no text either |
| `governed-tool.ts`, `loop-tool-bridge.ts` | `ToolCalled`, `StartGovernedLoop`, `GetToolState`, `MoveTool`, `Notify`, `RunTool`; `OthersMove` |
| `provider-json`, `governed-evidence-commit.ts`, the validators | `Propose`, `Commit`, `Insert`, `InsertFails` |

A request's `valid` and `invalid` (its token was so at some moment of its
authentication) are history. In `RunReads` the trace table is the log that
`TraceStore` is proved to implement; `alone` is history: no two moves of the run
overlapped so far. The consumer of `StatusClient` is the one the comments of
`client.ts` describe: it stores the cursor of what it handled, drains by pull
when it is told to resync, and leaves the stream running meanwhile.

## 3. What the runs show

`MCReview` (in `MCLoopEngine`) is one loop definition built to contain the cases
that matter: two transitions that share an id and a third one that shares it from
the same source state, a soft guard, a hard guard, a guard nobody registered, a
governed transition, an actor list that leaves one type out, two routes to the
terminal state and a transition out of it. The definition validator accepts it.

| run | instance | shows |
|---|---|---|
| `racing` | 2 callers on 1 aggregate, 4 calls, 1 fault, callers symmetric; 2.2 million states | `TypeOK`, `RecordsAreLawful`, `AnswersAreHonest`, `EventsAreHonest`, `ListOpenIsLive`, `EvidenceFirst` for every interleaving at every await |
| `isolated` | 2 callers, each on its own aggregate, one without a snapshot store, 4 calls, no fault; 23 thousand states | `HistoryReplays`, `OneCompletionPerRun`, the refinement `ImplementsLifecycle`, the liveness `CallsReturn` |
| `traces` | 4 transitions of one process, symmetric, 2 failed allocations, 1 fault; 1.5 million states | `SequenceValid`, `SummaryAgrees`, `TracedOnce`, `GivingUpIsExplained` for every interleaving of the transactions |
| `trace_log` | 3 transitions on 2 replicas, 1 fault; 47 thousand states | the refinement `ImplementsTraceLog`; the liveness `EveryTransitionIsTraced` |
| `requests` | 2 clients, 2 runs, one key, 4 requests, 1 fault, clients and runs symmetric; 0.9 million states | `ProvisionIsIdempotent`, `AnswersAreTrue`, `EventsAreBacked` for every interleaving of requests and engine calls; `RunsTheEngine` |
| `one_client` | 2 clients, each on its own run but sharing a key, 5 requests, no fault; 0.2 million states | `EventsChain`, `RowFollowsEngine`, the liveness `RequestsAreAnswered` |
| `database` | 2 releases that migrate at once, one started twice and one with an edited file; 3 calls, one nested in another and writing its row; pools of 2; 1 fault, 1 retry; 68 thousand states | `AppliedOnce`, `MigratedBeforeUse`, `AnswersAreDefinite`, `ClientsAreReturned`, the liveness `CallsEnd` |
| `definitions` | 2 calls on a registry of 2 loops with a cache, a lost reply and a publisher; 3 overlapping first calls on a local registry; builders of 3 states and 2 transitions; a resolver with 1 change; 4.7 million states | `DefinitionsAreFresh`, `NothingIsMissing`, `BuiltLoopsComplete`, `OutagesHideNothing` |
| `edges` | 2 requests, 2 key rows, 2 key changes; a read during 3 moves; 4 sockets; a log of 5 in pages of 2 with 2 breaks; a model call; a tool call; an evidence commit; keys, tokens and requests symmetric; 1.5 million states | `AuthIsTruthful`, `QuotaHolds`, `ReadsAreFaithful`, `ReconnectsOnce`, `NothingIsSkipped`, `ModelAnswersAreSound`, `ToolsRunGoverned`, `StoredEvidenceIsSound` |
| `restart`, `swallowed`, `fallback` | as `racing`, `database`, `definitions` | three claims of the code or the documentation that do not hold (section 5) |

Deadlock is not checked (`CHECK_DEADLOCK FALSE`) in any run: calls finish, and
callers stop when the bound on calls is reached. That nobody waits for ever is
what the liveness properties say. Symmetry is used only in runs without
temporal properties, apart from the action properties `EvidenceFirst` and
`RunsTheEngine`, which a permutation of the callers does not change.

**The engine.** Two callers are enough for every race here: a call depends on
another only through what it reads at its first step and what it overwrites at
its saves, so a third caller only repeats the part of the second. Four calls are
the shortest behaviours in which a run starts, moves, is disturbed (cancelled,
restarted, moved by the stale call) and is seen again afterwards; the draft to
review to done run with one disturbance takes exactly four. One fault cuts one
call at any await or loses any one announcement; two faults only produce two
such calls.

The split matters. `RecordsAreLawful`, `AnswersAreHonest`, `EventsAreHonest`,
`ListOpenIsLive` and `EvidenceFirst` hold *whatever overlaps and whatever fails*.
`HistoryReplays`, `OneCompletionPerRun` and `ImplementsLifecycle` hold only if
the application does not overlap calls on one aggregate: the engine does not
provide that, and the run `racing` would refute all three.

**The trace store.** Four transitions are the fewest with which a
write can lose its sequence to three others and give up (`maxAttempts` is 3);
`EveryTransitionIsTraced` is the other half, checked with three: with at most
three at a time nobody is given up. Two failed allocations on one process give
two writes the sequences 0 and 1 of its counter, whatever is in the table, so
that two transactions of a run can be past their insertions at once; one fault
aborts, unconfirms or crashes at any await. `trace_log` spreads the writes over
two processes, so that a crash takes some of them only.

The summary's `governed` looks like a lost
update: it is computed from an unlocked read. It is not, *without fallbacks*: a
run's sequences have no gap, every allocation gives the next one, so the unique
index on (tenant, run, sequence) lets one transaction of a run past its first
statement, and what it read is still so when it writes (`DenseInv`). With a
sequence from the in-process counter two transactions are past it, the flag can
be lost and, when both create the summary, the second violates the primary key:
that is no sequence race, so its trace is given up at once. The counts survive
even that.

**The runtime.** Provision, start and two more requests are the
shortest behaviours in which two requests race on a started run; two provisions
and a third show a lost race and its replay. Five requests of clients that wait
include a cancel followed by a transition, which reopens the row. The definition
is two moves, because the engine's own cases are those of `racing`: what counts
here is a move that changes the row and one that does not. `MaxFaults` bounds
the engine's and the runtime's faults together.
`ProvisionIsIdempotent`, `AnswersAreTrue` and `EventsAreBacked` hold whatever
overlaps and fails; `EventsChain` and `RowFollowsEngine` need clients that wait
and no fault: overlapping transitions leave the row at the state of whichever
updated last, and a failure after the engine leaves it behind for good. And even
then `RowFollowsEngine` cannot speak of a cancelled row: its loop runs on.

**The database.** Two releases, whichever is first, show each rule of the runner:
a migration skipped, refused for its checksum, applied after the other's. A pool
of two is the least in which a nested call can have its second client, and with
a third call the least in which it may have to wait for it. The nested call
writes a row its outer transaction has locked: the outer callback awaits it, so
PostgreSQL sees no cycle, and only the statement timeout ends it (`CallsEnd`).
One fault loses one connection at any await, COMMIT included; the retry after it
is the case `AnswersAreDefinite` is about.

**The definitions.** A list that is older than the `register` that cleared the
cache takes two calls; a page that was read before a change takes two loops and
one publication. Two ticks, with a time to live of one, let an entry be fresh,
expire, and be expired when it is stored. Three first calls on a local registry
are one that loads, one that reads too early and one that registers or removes
meanwhile. `NothingIsMissing` says what is left of the promise of a registry
despite the early reader: once the load is over, and nobody removed it, a
definition of the directory is there.

**The edges.** A token is looked up in two statements: two key changes with two
rows put a rotation and a revocation between them, and the grace window of one
tick may end there. Two requests fill a window of one and are one more than its
limit. Three moves are one under way, one traced out of order of its end and one
lost. Four sockets are a connection, its replacement, the one after
`disconnect()` and one more. Five events in pages of two give a stream that needs
a resync whose gap itself takes two pages, while the log grows. The state
residency of `ReadsAreFaithful` is stated for a run whose moves did not overlap.

**Fairness.** `FairSpec` of the engine adds weak fairness of `Continue(c)` for each caller: every
promise the engine awaits is eventually settled, and the call goes on. It never
forces anyone to make a call, nor a fault. The code justifies it: the engine
awaits one promise at a time, in a straight line, and each store and bus here
settles or times out (the HTTP bus bounds its retries). `CallsReturn` then says
that no path through the engine leaves a call waiting for another one.
`FairRuntimeSpec` and the trace store's `FairSpec` say the same of their awaits;
neither says that an allocation succeeds, a fault is absent, or a collision ends.
The adapter's `FairSpec` says that the next step of a call happens if some step
of it stays possible: PostgreSQL answers, or a timeout of `DEFAULT_POOL_OPTIONS`
(`connectionTimeoutMillis`, `statement_timeout`) ends the wait, and a callback
goes on. No lock need ever become free for it.

## 4. What is proved

`LoopEngineProofs` proves, for every set of callers, aggregates, definitions and
guards, any assignment of aggregates to callers, and any number of calls and faults:

* `TypeCorrect`: `Spec => []TypeOK`. The inductive invariant is `TypeInv`:
  `TypeOK` does not know that a call past its first save is a transition call
  with a transition and an actor, which the next record needs; `CallShape` adds
  that for each await.
* `OpenInstancesAreLive`: `Spec => []ListOpenIsLive`. `LiveInv` says the same of
  every instance a call is *about* to write, since `SaveInstance` does not look
  at what it overwrites.
* `HistoryIsLawful`: `Spec => []RecordsAreLawful`, from `LawInv`. A call carries
  its resolution of the transition over many awaits during which the stored
  instance may become anything; `CallIsLawful` says that the locals alone still
  justify the record, and that a governed call heading for the save already has
  its snapshots in the store.
* `EvidencePrecedesMove`: `Spec => EvidenceFirst`, an action property, from the
  same invariant.

Assumed: `DefinitionsAssumption` and `EngineAssumption` (the types of the
constants, and that `NoInstance` is no instance), and likewise the assumptions of
the modules below. TLC evaluates them in each run.
All invariants named here were also checked by TLC before the proof.

`LoopAnswersProofs` proves, under the same assumptions and with nothing more (calls
may overlap, anything may fail):

* `AnswersHonest`: `Spec => []AnswersAreHonest`, and `EventsHonest`:
  `Spec => []EventsAreHonest`. The inductive invariant is `AnswersInv`. A call in
  flight has its record exactly from the moment its result is `executed`, has moved
  nothing if it is going to be refused, and has no snapshot before the evidence step
  (`CallIsHonest`); what stands in its outbox is already true of it
  (`EventIsBacked`), which is why a delivery, however late, cannot lie. Ids keep
  calls apart: two callers never work for one id (`CallsAreApart`), and an id nobody
  has drawn has left nothing (`Undrawn`). Records, snapshots and events are read off
  as the *marks* of an id; a step leaves marks of its own call only, so the other
  calls and the answers already given keep what holds of them (`HonestStep`).

`LifecycleProofs` assumes two things more, which the run `isolated` has too:
`Isolated` (no two callers serve one aggregate: calls on one aggregate do not
overlap) and `NoFaults` (`MaxFaults = 0`). Without either of them each theorem is
false; section 3 says how. It proves

* `HistoryReplaysAlways`: `Spec => []HistoryReplays`, from `ReplayInv`. A caller is
  alone on its aggregate, so the instance it read is still the stored one when it
  saves (`CallIsFresh`), and the record that is missing between the two saves is
  exactly the one that extends the replay (`ReplaysOneMore`). Each step changes one
  aggregate only (`StepsAt`), whence the lemma `ReplayStep` that all actions use.
* `RunsCompleteOnce`: `Spec => []OneCompletionPerRun`, from `RunsInv`: a completion
  that no start has followed means that the run is over, or that the start of the
  next one is about to be announced; a call that is going to announce a completion
  works on a run that has none (`CallEndsRun`).
* `EngineImplementsLifecycle`: `Spec => ImplementsLifecycle`. An operation of
  `LoopLifecycle` takes effect at the *first* save: `CommittedHistory` adds the
  record that the call holds while it is between its saves, so the second save, and
  every other step, stutters.

Not proved, being liveness: `CallsReturn`.

`TraceStoreProofs` proves, for any finite set of transitions, any processes, and
any number of faults and fallbacks, `TraceTypesCorrect`, `RunSequencesAreValid`,
`SummaryIsOfItsRows`, `TracedAtMostOnce` and `GivingUpTakesThreeRivals`
(`Spec => []` of the type invariant and of the four invariants of the run `traces`), and `StoreIsALog`:
with `MaxFallbacks = 0`, `Spec` implements `TraceLog!Spec`. The argument:

* `NextSequenceIsNew`: the sequences taken are bounded, hence finite with a
  maximum, and `NextSequence` exceeds them all (`Bounded` is carried along with
  the type invariant).
* `TransactionsInv`: a transaction past its insertion has a sequence of its own
  that no committed row has, and at most one holds the summary. From it,
  `TracesInv` (rows and writes) and `CountsInv` (the summary counts the rows,
  since a commit adds exactly one of each).
* `DenseInv`, only while no allocation fell back: the sequences are
  `0 .. Cardinality(Taken) - 1`, so a transaction past its insertion has exactly
  the next one and is alone (`TransactionIsAlone`), and its read is not stale.
* `RivalsInv`: a write that allocated after `k` collisions holds a sequence of at
  least `seen + k`, because a collision is a committed row at or above it.
* The refinement: `Log` is the sequence of rows; `SummaryIsOfTheLog` derives the
  equality of the summaries from the invariant through a bijection between
  sequences and positions, and every step but a commit stutters.

Liveness (`EveryTransitionIsTraced`) stays with TLC.

`LoopRuntimeProofs` proves, for any callers, aggregates, keys, definitions and
number of faults, from `RuntimeAssumption` and those of the engine:

* `RuntimeTypesCorrect` and `ProvisioningIsIdempotent`, from `RuntimeInv`: no two
  callers serve one request (`ServeApart`), provisions in flight drew different
  ids, still without a row (`DrawApart`, `AtAwait`), and a refetch finds a row,
  since rows and keys stay. Type correctness needs the engine's `TypeInv`: the
  state a row moves to is that of the instance the engine's call saves.
* `RuntimeImplementsEngine`: `RuntimeSpec => LoopEngine!Spec`. Each step is a step
  of the engine or leaves it alone, so every theorem on `Spec` holds of the engine
  under the runtime; `RuntimeHistoryIsLawful` is one.

* `RuntimeAnswersAreTrue` and `RuntimeEventsAreBacked`, whatever overlaps and fails,
  from `TruthInv` on top of `RuntimeInv` and the engine's `AnswersInv`. An engine
  call belongs to one request (`OneRequestPerCall`) and carries its aggregate, its
  transition and the state it will report (`CallIsServed`); an answer or an event of
  a request is true of the outcome and the records of that call (`RequestIsTrue`,
  `IsEventOf`), and neither is ever taken back (`EngineKeeps`).
* `EventsChainAlways` and `RowsFollowTheEngine`, under `Isolated` and `NoFaults` as
  in `LifecycleProofs`, whose `ReplayInv` they use through `RuntimeImplementsEngine`.
  Row, events and instance are three writes, so they agree only at rest; `RowsInv`
  says for each await of a request how far it has got (`RequestStands`): the row is
  the one it read until `update`, the events chain to that row until `append`, and
  the instance is where the request is going as soon as the engine's call has saved
  (`EngineDid`, which is read off the call in flight or, once it returned, off its
  outcome). That an engine call which saved also answers so is
  `WaitingMovesNothing`, and the engine refuses to move what was never started, so
  no row that is `CREATED` is moved on (`HasMoved`).

Liveness (`RequestsAreAnswered`) stays with TLC.

`PostgresProofs` proves, for any processes, directories, pools, callbacks, faults
and retries, from `PoolAssumption`, `RunnerAssumption` (a directory has no id
twice, ids being file names) and `StoreAssumption`:

* `MigrationsAreAppliedOnce` and `StoresAreMigrated`, from `RunnerInv`: a process
  past the lock holds it, so what is recorded is what it read and what it has
  applied since, the directory up to `index[p]` is recorded, and the schema holds
  the recorded migrations with no id twice.
* `TransactionAnswersAreDefinite`, from `DefiniteInv`, which adds that a callback
  still going on, or at its COMMIT, on an aborted transaction has swallowed an
  error: it is the one way to resolve with nothing written.
* `PoolsAreRefilled`, from `PoolInv`: the clients that are not free are as many
  as the calls that hold one. That is a cardinality, carried through each step by
  the lemmas on adding and removing a holder.

`EdgeProofs` proves the eight properties of the run `edges` without its bounds:

* `ToolsAreGoverned`: what a call is heading for tells what it has behind it
  (`Governed`), whatever the loop's definition and whoever moves the loop.
* `OneLineOfReconnections`: sockets that are alive or closing, and timers, are one
  in all; the proof is about which socket can be `ws`.
* `NoTransitionIsLost`, from `StatusInv`: each event of the server that is not
  handled is still to come, on the stream, behind a resync on the stream, or in
  the gap that is drained (`Coming`, `LeftToPulls`), and frames ascend, a resync
  standing between what it covers and what it does not (`StreamInv`). So when an
  update arrives and no gap is drained, nothing before it can be missing.

* `AuthenticationIsTruthful`, for any keys, tokens, requests, changes and times. A
  token is in one place, as the key or the grace key of one row (`TokensApart`). So
  a request that missed its token among the keys, although a grace key held it,
  missed a token that was already handed out and is nobody's key (`Spent`); nobody
  can make it a key again, and a miss at the second look-up then shows a moment at
  which it was not valid. `Excused` says what holds of a request's locals just
  before its witnesses of a step are taken, `Truthful` what holds after; every step
  establishes the first, `WitnessesAreTaken` the second.
* `AdaptersAnswerSoundly`, from `ModelInv`: what an adapter submits passed its
  checks (`FourChecks`: of the checks in order the first that fails is the answer),
  and the attempts so far are all of the kind that is tried again (`WellTried`).
* `CommittedEvidenceIsSound`, from `EvidenceInv`: a batch on its way to the store,
  and each stored one, is a sound pair of what was submitted and what is persisted
  (`SoundPair`: same entries, own hashes, no key twice).

* `QuotasAreKept`, from `QuotaInv`: at each moment the hits that a side has recorded
  since the window began can be found, each in a place of its own, among those that
  `quota.ts` keeps (`Recorded`). So when a request is let in, those let in within
  the window before it are fewer than the limit, and a window that ends later than
  its last hit has no more than the one that ends with it. That pruning keeps every
  hit of the window is an induction on its length (`WindowKeepsHits`).
* `AnswersToReadsAreTrue`, from `ReadsInv`: a row is what its caller's transition
  recorded (`RowsAreTold`), the summary counts all rows (`SummaryIsTold`), and a read
  holds the counts of a prefix of the rows it then gets (`ReadIsTold`), however many
  are written between its two statements. While no moves overlap, the rows lead from
  state to state and the last one to the run's state, but for a move not traced yet
  (`AloneIsTold`). What the timeline makes of such rows is an induction on their
  number (`ResidencyIsTrue`).

`DefinitionProofs` proves the four properties of the run `definitions`, each from
an invariant of its own part and for any catalogs, directories, rows and drafts:

* `RegistryAnswersAreFresh`, from `RegistryInv`: what the cache and a call's locals
  hold was on the server at a moment that is named relative to the call or to the
  time to live (`Seen`, `Recent`), and a version that was recommended is still there
  unless the loop was withdrawn meanwhile (`Still`).
* `ResolutionHidesNothing`, from `ResolverInv`: a call carries what was served all
  through it and what was served at some moment of it, and both are right for the
  rows of now (`Witnesses`); a list holds the rows it read and, of the ids asked so
  far, one definition each (`Listing`).
* `LocalRegistryLoadsAll`, from `LocalInv`: while files parse, one caller is the
  loader and has taken `k` definitions, and the map is as that leaves it, but for
  what others registered or removed (`LoadedUpTo`); an inline definition wins over a
  file of the same id since it comes later.
* `BuiltDefinitionsComplete`, from `BuilderInv`: what was built passed the validator.
  That the validator's breadth-first search then *means* a path from the initial
  state to a terminal one takes two inductions on numbers. The library's induction
  rules cannot be used here, but a set of counterexamples has a least element
  (`LeastNumber`, from well-foundedness, a lemma about sets): `SearchExists` shows
  that the search is the function its recursive definition says, and `WalksTo` that
  what round `k` visits is reached by a walk of at most `k` transitions.

The same two inductions serve `InWindow` of `RuntimeGate` and `Residency` of
`RunReads`. Both are recursive functions, and not a `SelectSeq` and a `FoldLeft`,
because the provers know nothing of those operators.

Every invariant and action property of a passing run has a theorem. Only
model-checked are the liveness properties (`CallsReturn`, `RequestsAreAnswered`,
`EveryTransitionIsTraced`, `CallsEnd`), which are beyond the prover. The
three claims of section 5 are refuted by TLC and so have no theorem.

## 5. Where code and words disagree

Three of them are runs whose property TLC refutes:

* `restart` / `ActiveLoopIsNotRestarted`: `start` refuses an aggregate that has an
  active loop, but reads and saves in two awaits; two starts both succeed.
* `swallowed` / `ResolvedIsCommitted`: the adapter's documentation says that
  `withTransaction` commits if its callback resolves. A callback that catches the
  error of a statement resolves on an aborted transaction; COMMIT then answers
  ROLLBACK, without an error, and `withTransaction` resolves with nothing written.
* `fallback` / `LocalIsFallback`: `docs/self-host.md` says that local rows are the
  fallback when a registry is configured; the list lets a local row replace the
  registry's definition of the loop, `resolve` the other way round.

The models show more, which no run states:

* `docs/architecture.md` says a transition is rejected when the instance status
  says the loop is closed; the engine looks for `completed` only, so a cancelled
  or failed loop moves on. It also says a terminal state closes the loop in the
  runtime; the row of a completed run says `OPEN` and can still be cancelled.
* The README says evidence is recorded first. Of snapshots that is so
  (`EvidenceFirst`); the transition record is saved after the moved instance.
* The contract of the trace store asks that a trace be written before its
  transition is acknowledged; the wrapper does not await the write.
* `disconnect()` of the openclaw bus closes the socket, whose close event
  schedules a reconnection like any other.
* A list resolved with a registry has one definition per loop, one resolved
  without has all active rows; `list` validates rows, `resolve` does not.
* `localRegistry` is `loaded` from its first call on, also while the load runs and
  after it failed.
* The sample in the status client's README stores `nextCursor` without draining
  further pages; the consumer modelled here drains.
* Validation of a proposed snapshot passes an unparsable `capturedAt` and a bad
  lineage, sequence or hash, which the commit then refuses.
* `confidenceThreshold` of the Gemini and Grok adapters is not used; the Perplexity
  adapter retries 429, 500 and 503, its types say every 5xx.
* A governed tool whose last transition fails has run although its call throws.

## 6. Plan

Done: all components of section 2 with their runs, and proofs of every safety
property of the runs. Next:

1. The refinement `RuntimeImplementsEngine` brings the engine's theorems to the
   runtime; the same for the lifecycle, as a theorem on `LoopRuntime` for isolated
   requests, is a corollary to state.
2. What the four claims of liveness need from safety: that whoever waits waits for
   someone who can move, an invariant that can be proved, although the conclusion
   cannot.

## 7. Not modelled, and why

* Views, documentation, examples, deployment and the PagerDuty and commerce
  adapters hold no state of a loop. `signals` is a lookup in a constant table.
* The rule language of `canon` and the text of canonical JSON are pure functions of
  unbounded data. What matters of the hash, that equal values and no others have
  equal hashes and that some values have none, is in `GovernedEvidence`.
* The four built-in guards are pure; the engine lets a guard say anything. The
  cooldown guard reads metadata that the engine never writes.
* The postgres store orders a history by `occurred_at`, then `id`; the models
  order it by insertion, which is the same while the clocks of the processes
  agree. Nothing in the code makes them agree, and no property speaks of it.
* Handlers of the in-memory bus, the file watcher and `onChange` of the local
  registry, the framing of server-sent events, bodies and headers of requests.

## Running

`tlc -config MCLoopEngine_racing.cfg MCLoopEngine`, and likewise for each `.cfg`
(the part of its name before `_` is the module); `tlapm LoopEngineProofs.tla`, and
likewise for each module whose name ends in `Proofs`.
