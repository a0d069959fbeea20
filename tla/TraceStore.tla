------------------------------ MODULE TraceStore ------------------------------
(***************************************************************************)
(* How packages/runtime-core traces the transitions of one run: the        *)
(* wrapper around engine.transition (oss-traced-loop-system.ts) allocates  *)
(* a sequence number, returns, and leaves behind a write                   *)
(* (trace-repository.ts) that inserts the row and maintains the summary of *)
(* the run in one transaction, up to three times.                          *)
(*                                                                         *)
(* The database is PostgreSQL at read committed: a statement sees what was *)
(* committed before it; an INSERT waits for an uncommitted row with the    *)
(* same key and fails if that commits; an UPDATE waits for the row's lock  *)
(* and then works on the committed row.  pc[w] is the await that the trace *)
(* of transition w is at:                                                  *)
(*                                                                         *)
(*   idle      engine.transition has not ended                             *)
(*   allocate  awaiting the sequence number                                *)
(*   insert    awaiting the insertion of the row (transition returned)     *)
(*   find      in the transaction, reading the summary                     *)
(*   save      in the transaction, creating or updating the summary        *)
(*   commit    awaiting COMMIT                                             *)
(*   retry     awaiting a new sequence number after a collision            *)
(*   written, gaveUp, failed    the write resolved, or rejected: after a   *)
(*             constraint violation, or after a fault                      *)
(*                                                                         *)
(* One tenant and one run: every statement is scoped to both.  The rest of *)
(* a row (states, actor, hashes, evidence) is data nothing here reads.     *)
(* completedAt and terminalState depend on the type loop.terminal, which   *)
(* nothing in this repository writes; they are left out.                   *)
(***************************************************************************)
EXTENDS Naturals, FiniteSets, FiniteSetsExt

CONSTANTS
  Writes,       \* the transitions of the run, each traced once
  Processes,    \* replicas of the runtime
  ProcessOf,    \* the process that runs the transition
  Entries,      \* what is traced of a transition: blocked, in a governed system
  NoSummary,    \* findUnique found no row
  MaxFaults,    \* bound: transactions and processes that fail
  MaxFallbacks  \* bound: allocations that fail

ASSUME TraceAssumption ==
  /\ IsFiniteSet(Writes)
  /\ ProcessOf \in [Writes -> Processes]
  /\ Entries \subseteq [blocked: BOOLEAN, governed: BOOLEAN]
  /\ NoSummary \notin [stepCount: Nat, blockedCount: Nat, governed: BOOLEAN]
  /\ MaxFaults \in Nat /\ MaxFallbacks \in Nat

VARIABLES
  trace,        \* loopTraceRecord: sequence -> row
  summary,      \* loopRunSummary
  counter,      \* transitionSequenceByRun, of each process
  pc,
  entry,        \* what is traced of the transition
  seq,          \* the sequence number of the write
  found,        \* the summary the transaction read (`existing`)
  attempts,     \* collisions so far
  seen,         \* rows there were when the transition ended (history variable)
  faults, fallbacks

database == <<trace, summary>>
request == <<entry, seq, attempts, seen>>
locals == <<request, found>>
vars == <<trace, summary, counter, pc, entry, seq, found, attempts, seen,
          faults, fallbacks>>

Row == [write: Writes, blocked: BOOLEAN, governed: BOOLEAN]

Summary == [stepCount: Nat, blockedCount: Nat, governed: BOOLEAN]

Ended == {"written", "gaveUp", "failed"}

Locations ==
  {"idle", "allocate", "insert", "find", "save", "commit", "retry"} \cup Ended

TypeOK ==
  /\ DOMAIN trace \subseteq Nat /\ \A s \in DOMAIN trace : trace[s] \in Row
  /\ summary \in Summary \cup {NoSummary}
  /\ counter \in [Processes -> Nat]
  /\ pc \in [Writes -> Locations]
  /\ entry \in [Writes -> [blocked: BOOLEAN, governed: BOOLEAN]]
  /\ seq \in [Writes -> Nat]
  /\ found \in [Writes -> Summary \cup {NoSummary}]
  /\ attempts \in [Writes -> 0 .. 3]
  /\ seen \in [Writes -> Nat]
  /\ faults \in 0 .. MaxFaults /\ fallbacks \in 0 .. MaxFallbacks

Init ==
  /\ trace = [s \in {} |-> NoSummary]
  /\ summary = NoSummary
  /\ counter = [p \in Processes |-> 0]
  /\ pc = [w \in Writes |-> "idle"]
  /\ entry = [w \in Writes |-> [blocked |-> FALSE, governed |-> FALSE]]
  /\ seq = [w \in Writes |-> 0]
  /\ found = [w \in Writes |-> NoSummary]
  /\ attempts = [w \in Writes |-> 0]
  /\ seen = [w \in Writes |-> 0]
  /\ faults = 0 /\ fallbacks = 0

Steps(w, from, to) == pc[w] = from /\ pc' = [pc EXCEPT ![w] = to]

(* The transaction's locals are gone.                                      *)
Leaves(w, from, to) ==
  /\ Steps(w, from, to)
  /\ found' = [found EXCEPT ![w] = NoSummary]

-----------------------------------------------------------------------------
(* The wrapper.                                                            *)

(* engine.transition resolved or threw: blocked unless it executed.        *)
TransitionEnds(w, e) ==
  /\ Steps(w, "idle", "allocate")
  /\ entry' = [entry EXCEPT ![w] = e]
  /\ seen' = [seen EXCEPT ![w] = Cardinality(DOMAIN trace)]
  /\ UNCHANGED <<database, counter, seq, found, attempts, faults, fallbacks>>

(* Mutant: the first sequence is 1.                                        *)
NextSequenceFromOne ==
  IF DOMAIN trace = {} THEN 1 ELSE Max(DOMAIN trace) + 1

(* allocateNextSequence: max(sequence) + 1 of the committed rows; its      *)
(* transaction ends before the number is used.                             *)
NextSequence ==
  IF DOMAIN trace = {} THEN 0 ELSE Max(DOMAIN trace) + 1

Allocate(w) ==
  /\ Steps(w, "allocate", "insert")
  /\ seq' = [seq EXCEPT ![w] = NextSequence]
  /\ UNCHANGED <<database, counter, entry, found, attempts, seen, faults, fallbacks>>

(* The allocation throws: the sequence comes from the process's counter.   *)
AllocationFails(w) ==
  LET p == ProcessOf[w] IN
    /\ fallbacks < MaxFallbacks /\ fallbacks' = fallbacks + 1
    /\ Steps(w, "allocate", "insert")
    /\ seq' = [seq EXCEPT ![w] = counter[p]]
    /\ counter' = [counter EXCEPT ![p] = @ + 1]
    /\ UNCHANGED <<database, entry, found, attempts, seen, faults>>

-----------------------------------------------------------------------------
(* persistTraceWithSummary, which nobody awaits.                           *)

MaxAttemptsTwo == 2  \* Mutant: one attempt fewer.

MaxAttempts == 3

(* Mutant: no unique index.                                                *)
RowHoldersNone(s) == {}

(* The transactions that hold an uncommitted row with sequence s, and the  *)
(* one that holds the lock on the summary row (or on its key).             *)
RowHolders(s) ==
  {v \in Writes : pc[v] \in {"find", "save", "commit"} /\ seq[v] = s}
SummaryHolders == {v \in Writes : pc[v] = "commit"}

InsertRow(w) ==
  /\ seq[w] \notin DOMAIN trace /\ RowHolders(seq[w]) = {}
  /\ Steps(w, "insert", "find")
  /\ UNCHANGED <<database, counter, locals, faults, fallbacks>>

(* A row with this sequence is there: the transaction is rolled back, and  *)
(* unless this was the last attempt, tried again with a new sequence.      *)
SequenceCollides(w) ==
  /\ seq[w] \in DOMAIN trace
  /\ attempts' = [attempts EXCEPT ![w] = @ + 1]
  /\ Steps(w, "insert", IF attempts[w] + 1 = MaxAttempts THEN "gaveUp" ELSE "retry")
  /\ UNCHANGED <<database, counter, entry, seq, found, seen, faults, fallbacks>>

Reallocate(w) ==
  /\ Steps(w, "retry", "insert")
  /\ seq' = [seq EXCEPT ![w] = NextSequence]
  /\ UNCHANGED <<database, counter, entry, found, attempts, seen, faults, fallbacks>>

FindSummary(w) ==
  /\ Steps(w, "find", "save")
  /\ found' = [found EXCEPT ![w] = summary]
  /\ UNCHANGED <<database, counter, entry, seq, attempts, seen, faults, fallbacks>>

(* The summary is created if none was found, else updated.  Creating one   *)
(* that is there by now violates the primary key, which is no sequence     *)
(* race: the write is rejected and its row rolled back.                    *)
SaveSummary(w) ==
  /\ SummaryHolders = {}
  /\ IF found[w] = NoSummary /\ summary # NoSummary
       THEN Leaves(w, "save", "gaveUp")
       ELSE Steps(w, "save", "commit") /\ UNCHANGED found
  /\ UNCHANGED <<database, counter, request, faults, fallbacks>>

One(b) == IF b THEN 1 ELSE 0

(* Mutant: governed is what the last trace says.                           *)
SavedSummaryOverwrites(w) ==
  LET e == entry[w] IN
    IF found[w] = NoSummary
      THEN [stepCount |-> 1, blockedCount |-> One(e.blocked), governed |-> e.governed]
      ELSE [stepCount |-> summary.stepCount + 1,
            blockedCount |-> summary.blockedCount + One(e.blocked),
            governed |-> e.governed]

(* The counts are incremented in the statement, on the locked row; governed*)
(* is computed from the row the transaction read before.                   *)
SavedSummary(w) ==
  LET e == entry[w] IN
    IF found[w] = NoSummary
      THEN [stepCount |-> 1, blockedCount |-> One(e.blocked), governed |-> e.governed]
      ELSE [stepCount |-> summary.stepCount + 1,
            blockedCount |-> summary.blockedCount + One(e.blocked),
            governed |-> found[w].governed \/ e.governed]

RowOf(w) ==
  [write |-> w, blocked |-> entry[w].blocked, governed |-> entry[w].governed]

Committed(w) ==
  /\ trace' = [s \in DOMAIN trace \cup {seq[w]} |->
                 IF s = seq[w] THEN RowOf(w) ELSE trace[s]]
  /\ summary' = SavedSummary(w)

Commit(w) ==
  /\ Leaves(w, "commit", "written")
  /\ Committed(w)
  /\ UNCHANGED <<counter, request, faults, fallbacks>>

-----------------------------------------------------------------------------
(* Faults.                                                                 *)

(* A statement fails, or the transaction times out: it is rolled back, and *)
(* the error, being no constraint violation, is logged.                    *)
Abort(w) ==
  /\ faults < MaxFaults /\ faults' = faults + 1
  /\ pc[w] \in {"insert", "find", "save", "commit", "retry"}
  /\ Leaves(w, pc[w], "failed")
  /\ UNCHANGED <<database, counter, request, fallbacks>>

(* Mutant: every error is retried.                                         *)
CommitUnconfirmedRetried(w) ==
  /\ faults < MaxFaults /\ faults' = faults + 1
  /\ Leaves(w, "commit", "retry")
  /\ Committed(w)
  /\ UNCHANGED <<counter, request, fallbacks>>

(* The connection is lost after the server committed.                      *)
CommitUnconfirmed(w) ==
  /\ faults < MaxFaults /\ faults' = faults + 1
  /\ Leaves(w, "commit", "failed")
  /\ Committed(w)
  /\ UNCHANGED <<counter, request, fallbacks>>

(* A process dies with its writes in flight and its counter.               *)
Crash(p) ==
  LET inFlight == {w \in Writes : ProcessOf[w] = p /\ pc[w] \notin Ended \cup {"idle"}} IN
    /\ faults < MaxFaults /\ faults' = faults + 1
    /\ pc' = [w \in Writes |-> IF w \in inFlight THEN "failed" ELSE pc[w]]
    /\ found' = [w \in Writes |-> IF w \in inFlight THEN NoSummary ELSE found[w]]
    /\ counter' = [counter EXCEPT ![p] = 0]
    /\ UNCHANGED <<database, request, fallbacks>>

-----------------------------------------------------------------------------
Continue(w) ==
  \/ Allocate(w) \/ InsertRow(w) \/ SequenceCollides(w) \/ Reallocate(w)
  \/ FindSummary(w) \/ SaveSummary(w) \/ Commit(w)

Next ==
  \/ \E w \in Writes :
       \/ \E e \in Entries : TransitionEnds(w, e)
       \/ AllocationFails(w)
       \/ Continue(w)
       \/ Abort(w) \/ CommitUnconfirmed(w)
  \/ \E p \in Processes : Crash(p)

(* The database answers, or the write is rejected.                         *)
Fairness == \A w \in Writes : WF_vars(Continue(w))

Spec == Init /\ [][Next]_vars

FairSpec == Spec /\ Fairness

-----------------------------------------------------------------------------
Taken == DOMAIN trace

RowsOf(w) == {s \in Taken : trace[s].write = w}

(* What validateTraceSequence says of a run: its rows are numbered from 0  *)
(* without gaps.  So it is for every interleaving, collision, crash and    *)
(* lost COMMIT, as long as no allocation fell back on a counter.           *)
SequenceValid ==
  fallbacks = 0 => Taken = 0 .. Cardinality(Taken) - 1

(* The summary counts exactly the rows, also when transactions overlap and *)
(* fail; and it says that the run is governed exactly when a row does,     *)
(* although it is computed from a row read earlier: the unique index lets  *)
(* only one transaction of a run past its first statement.                 *)
SummaryAgrees ==
  /\ summary = NoSummary <=> Taken = {}
  /\ summary # NoSummary =>
       /\ summary.stepCount = Cardinality(Taken)
       /\ summary.blockedCount = Cardinality({s \in Taken : trace[s].blocked})
       /\ fallbacks = 0 =>
            summary.governed = \E s \in Taken : trace[s].governed

(* Retries and lost confirmations never trace a transition twice, and a    *)
(* write that resolved has its row.                                        *)
TracedOnce ==
  \A w \in Writes :
    /\ Cardinality(RowsOf(w)) <= 1
    /\ pc[w] = "written" => RowsOf(w) # {}

(* A trace is given up only after it lost to three other transitions: each *)
(* collision is a row committed since the last allocation.                 *)
GivingUpIsExplained ==
  \A w \in Writes : (pc[w] = "gaveUp" /\ fallbacks = 0) =>
    Cardinality(Taken) >= seen[w] + 3

(* With at most three transitions at a time, every transition that ends is *)
(* traced, unless a fault occurs.                                          *)
EveryTransitionIsTraced ==
  \A w \in Writes : pc[w] = "allocate" ~> (pc[w] = "written" \/ faults > 0)

(* The rows in sequence order are the log, and the summary is its own.     *)
Log == [i \in 1 .. Cardinality(Taken) |-> trace[i - 1]]

TraceLog == INSTANCE TraceLog WITH log <- Log

ImplementsTraceLog == TraceLog!Spec

-----------------------------------------------------------------------------
(* What the writes in flight satisfy: with the above, invariants that every*)
(* step preserves.                                                         *)

InTransaction(w) == pc[w] \in {"find", "save", "commit"}

(* The unique index and the row lock: a transaction has a sequence of its  *)
(* own that no committed row has, and one at most is past its save.        *)
TransactionsInv ==
  /\ \A w \in Writes : InTransaction(w) => seq[w] \notin Taken
  /\ \A v, w \in Writes :
       InTransaction(v) /\ InTransaction(w) /\ seq[v] = seq[w] => v = w
  /\ \A v, w \in SummaryHolders : v = w
  /\ \A w \in Writes : pc[w] = "save" /\ found[w] # NoSummary => summary # NoSummary
  /\ \A w \in Writes :
       pc[w] = "commit" => (found[w] = NoSummary <=> summary = NoSummary)

TracesInv ==
  /\ \A s \in Taken : pc[trace[s].write] \in {"written", "failed"}
  /\ \A s, t \in Taken : trace[s].write = trace[t].write => s = t
  /\ \A w \in Writes : pc[w] = "written" => RowsOf(w) # {}

CountsInv ==
  /\ summary = NoSummary <=> Taken = {}
  /\ summary # NoSummary =>
       /\ summary.stepCount = Cardinality(Taken)
       /\ summary.blockedCount = Cardinality({s \in Taken : trace[s].blocked})

(* Without fallbacks the sequences taken have no gap, so a transaction can *)
(* only be inserting the next one: it is alone, and what it read is still  *)
(* so when it writes.                                                      *)
GovernedAgrees ==
  summary # NoSummary => summary.governed = \E s \in Taken : trace[s].governed

DenseInv ==
  /\ Taken = 0 .. Cardinality(Taken) - 1
  /\ \A w \in Writes : pc[w] = "insert" \/ InTransaction(w) => seq[w] <= Cardinality(Taken)
  /\ \A w \in Writes : pc[w] \in {"save", "commit"} => found[w] = summary
  /\ GovernedAgrees

(* Each collision of a write is a row more than it had seen.               *)
RivalsInv ==
  \A w \in Writes :
    /\ pc[w] = "insert" => seen[w] + attempts[w] <= seq[w]
    /\ pc[w] \in {"allocate", "retry"} => seen[w] + attempts[w] <= Cardinality(Taken)
    /\ pc[w] = "gaveUp" => seen[w] + 3 <= Cardinality(Taken)

TypeInv ==
  TypeOK /\ \A w \in Writes :
    /\ pc[w] \notin Ended => attempts[w] <= 2
    /\ pc[w] \in {"idle", "allocate"} => attempts[w] = 0

IndInv ==
  /\ TypeInv /\ TransactionsInv /\ TracesInv /\ CountsInv
  /\ fallbacks = 0 => DenseInv /\ RivalsInv
=============================================================================
