------------------------------- MODULE RunReads -------------------------------
(***************************************************************************)
(* What the read routes of the runtime say of a run                        *)
(* (packages/runtime-routes/src/runs.ts, build-run-responses.ts and        *)
(* packages/observability/src/trace-timeline.ts), while transitions of     *)
(* the run are under way and their traces are written behind them.         *)
(*                                                                         *)
(* The trace table is the log of TraceLog, which TraceStore implements as  *)
(* long as sequences come from the database: row i has sequence i - 1.  A  *)
(* read loads the summary and the rows in two statements.  A time is the   *)
(* number of the row that was written at it.                               *)
(***************************************************************************)
EXTENDS Naturals, Sequences, FiniteSets, SequencesExt

CONSTANTS
  TracedCalls,   \* transitions of the run, numbered as they begin, each traced once
  RunStates,     \* states of the loop
  FirstState,    \* the state the run was started in
  Absent,        \* null
  MoveActors,    \* types of actors that ask for transitions
  Inputs,        \* evidence they submit: "nothing", a "payload", or "snapshots"
  ReadRequests   \* reads of the run

ASSUME ReadsAssumption ==
  /\ TracedCalls \subseteq Nat
  /\ FirstState \in RunStates
  /\ Absent \notin RunStates \cup [stepCount : Nat, blockedCount : Nat]
  /\ Inputs \subseteq {"nothing", "payload", "snapshots"}

VARIABLES
  runState,   \* currentState of the instance
  moves,      \* call -> the transition it asked for, and what became of it
  traceRows,  \* loopTraceRecord, by sequence
  runSummary, \* loopRunSummary
  reads,      \* read -> its locals
  alone       \* history: each transition began when the others were traced

readVars == <<runState, moves, traceRows, runSummary, reads, alone>>

NoMove == [at |-> "none", from |-> Absent, to |-> Absent, status |-> "none",
           actor |-> "human", input |-> "nothing"]

NoRead == [at |-> "none", since |-> 0, summary |-> Absent, rows |-> <<>>, status |-> 0]

ReadsInit ==
  /\ runState = FirstState
  /\ moves = [c \in TracedCalls |-> NoMove]
  /\ traceRows = <<>>
  /\ runSummary = Absent
  /\ reads = [r \in ReadRequests |-> NoRead]
  /\ alone = TRUE

-----------------------------------------------------------------------------
(* The engine: a transition reads the state, and later executes or not.    *)

MoveBegins(c, actor, input) ==
  /\ moves[c].at = "none"
  /\ \A d \in TracedCalls : d < c => moves[d].at # "none"
  /\ moves' = [moves EXCEPT ![c] = [NoMove EXCEPT
       !.at = "running", !.from = runState, !.actor = actor, !.input = input]]
  /\ alone' = (alone /\ \A d \in TracedCalls : moves[d].at \notin {"running", "tracing"})
  /\ UNCHANGED <<runState, traceRows, runSummary, reads>>

Executed(c, s) ==
  /\ moves[c].at = "running"
  /\ moves' = [moves EXCEPT ![c].at = "tracing", ![c].to = s, ![c].status = "executed"]
  /\ runState' = s
  /\ UNCHANGED <<traceRows, runSummary, reads, alone>>

(* A refusal names the state it was refused in, an error nothing.          *)
NotExecuted(c, status) ==
  /\ moves[c].at = "running"
  /\ moves' = [moves EXCEPT ![c].at = "tracing", ![c].status = status,
                            ![c].from = IF status = "threw" THEN Absent ELSE @]
  /\ UNCHANGED <<runState, traceRows, runSummary, reads, alone>>

-----------------------------------------------------------------------------
(* The trace of a transition.                                              *)

Type(q) == IF q.status = "executed" THEN "transition.completed" ELSE "transition.blocked"

(* Evidence holds the status of the transition, the input what was         *)
(* submitted; the entries of guards are the failures only.                 *)
RecordOf(c) ==
  LET q == moves[c] IN
    [call |-> c, type |-> Type(q), from |-> q.from, to |-> q.to, actor |-> q.actor,
     input |-> q.input,
     evidence |-> IF q.status = "threw" THEN "nothing" ELSE "status",
     failures |-> IF q.status = "guard_failed" THEN 1 ELSE 0,
     blocked |-> q.status # "executed"]

Counted(s, row) ==
  LET blocked == IF row.blocked THEN 1 ELSE 0 IN
    IF s = Absent THEN [stepCount |-> 1, blockedCount |-> blocked]
    ELSE [stepCount |-> s.stepCount + 1, blockedCount |-> s.blockedCount + blocked]

TraceWritten(c) ==
  /\ moves[c].at = "tracing"
  /\ moves' = [moves EXCEPT ![c].at = "traced"]
  /\ traceRows' = Append(traceRows, RecordOf(c))
  /\ runSummary' = Counted(runSummary, RecordOf(c))
  /\ UNCHANGED <<runState, reads, alone>>

(* The write is rejected, which is logged.                                 *)
TraceLost(c) ==
  /\ moves[c].at = "tracing"
  /\ moves' = [moves EXCEPT ![c].at = "lost"]
  /\ alone' = FALSE
  /\ UNCHANGED <<runState, traceRows, runSummary, reads>>

-----------------------------------------------------------------------------
(* A read: the gate has let it in.                                         *)

ReadBegins(r) ==
  /\ reads[r].at = "none"
  /\ reads' = [reads EXCEPT ![r].at = "summary", ![r].since = Len(traceRows)]
  /\ UNCHANGED <<runState, moves, traceRows, runSummary, alone>>

ReadSummary(r) ==
  /\ reads[r].at = "summary"
  /\ reads' = [reads EXCEPT ![r] =
       IF runSummary = Absent THEN [@ EXCEPT !.at = "answered", !.status = 404]
                              ELSE [@ EXCEPT !.at = "trace", !.summary = runSummary]]
  /\ UNCHANGED <<runState, moves, traceRows, runSummary, alone>>

ReadTrace(r) ==
  /\ reads[r].at = "trace"
  /\ reads' = [reads EXCEPT ![r].at = "answered", ![r].rows = traceRows, ![r].status = 200]
  /\ UNCHANGED <<runState, moves, traceRows, runSummary, alone>>

-----------------------------------------------------------------------------
(* The five answers, functions of the summary and the rows.                *)

Detail(s, rs) ==
  [stepCount |-> s.stepCount, blockedCount |-> s.blockedCount, traceStepCount |-> Len(rs)]

History(rs) ==
  [i \in DOMAIN rs |-> [sequence |-> i - 1, type |-> rs[i].type, from |-> rs[i].from,
                        to |-> rs[i].to, actor |-> rs[i].actor, blocked |-> rs[i].blocked]]

(* submittedEvidenceForRt05: the input, or what old rows have as evidence, *)
(* but not the status of the transition.                                   *)
Submitted(row) ==
  IF row.input # "nothing" THEN row.input
  ELSE IF row.evidence = "status" THEN "nothing"
  ELSE row.evidence

EvidenceItems(rs) ==
  [i \in DOMAIN rs |-> [sequence |-> i - 1, call |-> rs[i].call, evidence |-> Submitted(rs[i])]]

(* Mutant: a blocked transition ends the stay in its state.                *)
StayEndingWhenBlocked(acc, row) ==
  [spans |-> IF acc.current = row.from /\ acc.current # Absent
             THEN Append(acc.spans, [state |-> acc.current, entered |-> acc.entered,
                                     exited |-> acc.time])
             ELSE acc.spans,
   current |-> row.to, entered |-> acc.time, time |-> acc.time + 1]

(* computeStateResidency: a row with both states ends the stay in its from *)
(* state, if that is the one it is in, and begins one in its to state.     *)
Stay(acc, row) ==
  IF row.from = Absent \/ row.to = Absent THEN [acc EXCEPT !.time = @ + 1]
  ELSE [spans |-> IF acc.current = row.from
                  THEN Append(acc.spans, [state |-> acc.current, entered |-> acc.entered,
                                          exited |-> acc.time])
                  ELSE acc.spans,
        current |-> row.to, entered |-> acc.time, time |-> acc.time + 1]

NoStay == [spans |-> <<>>, current |-> Absent, entered |-> 0, time |-> 1]

Residency(rs) ==
  LET stays[n \in 0..Len(rs)] == IF n = 0 THEN NoStay ELSE Stay(stays[n-1], rs[n])
      end == stays[Len(rs)]
  IN IF end.current = Absent THEN end.spans
     ELSE Append(end.spans, [state |-> end.current, entered |-> end.entered, exited |-> 0])

Timeline(rs) == [transitions |-> History(rs), stateResidency |-> Residency(rs)]

(* computeMetricsFromTrace and validateTraceSequence.                      *)
ReplaySummary(rs) ==
  [transitionCount |-> Len(rs),
   guardBlockCount |-> Cardinality({i \in DOMAIN rs : rs[i].failures > 0}),
   humanApprovalCount |-> Cardinality({i \in DOMAIN rs : rs[i].actor = "human"}),
   terminalState |-> IF rs = <<>> THEN Absent ELSE Last(rs).to,
   sequenceValid |-> \A i \in DOMAIN History(rs) : History(rs)[i].sequence = i - 1]

ReadsNext ==
  \/ \E c \in TracedCalls :
       \/ \E actor \in MoveActors, input \in Inputs : MoveBegins(c, actor, input)
       \/ \E s \in RunStates : Executed(c, s)
       \/ \E status \in {"guard_failed", "rejected", "threw"} : NotExecuted(c, status)
       \/ TraceWritten(c)
       \/ TraceLost(c)
  \/ \E r \in ReadRequests : ReadBegins(r) \/ ReadSummary(r) \/ ReadTrace(r)

ReadsSpec == ReadsInit /\ [][ReadsNext]_readVars

-----------------------------------------------------------------------------
Answers == {r \in ReadRequests : reads[r].status = 200}

(* The executed transitions among the rows, in their order.                *)
ExecutedRows(rs) == {i \in DOMAIN rs : ~rs[i].blocked}

(* A run that was traced before the request is found; the summary counts   *)
(* a beginning of the rows that the same answer lists, no fewer than there *)
(* were, although both are read while others write them; and each row's    *)
(* evidence is what its caller submitted, nothing if nothing was.          *)
AnswersAgree ==
  /\ \A r \in ReadRequests : reads[r].status = 404 => reads[r].since = 0
  /\ \A r \in Answers :
       LET rs == reads[r].rows
           d == Detail(reads[r].summary, rs)
           items == EvidenceItems(rs)
       IN
       /\ reads[r].since <= d.stepCount /\ d.stepCount <= d.traceStepCount
       /\ d.blockedCount = Cardinality({i \in 1 .. d.stepCount : History(rs)[i].blocked})
       /\ \A i \in DOMAIN items : items[i].evidence = moves[items[i].call].input
       /\ ReplaySummary(rs).guardBlockCount =
            Cardinality({i \in DOMAIN rs : moves[rs[i].call].status = "guard_failed"})

(* If each transition began when the ones before it were traced, the       *)
(* timeline leads through the states the run was in since its first move,  *)
(* without a gap, whatever attempts were blocked in between, and ends in   *)
(* the state it was in when it was read.                                   *)
ResidencyFollowsRun ==
  alone => \A r \in Answers :
    LET rs == reads[r].rows
        spans == Timeline(rs).stateResidency
    IN
    /\ Len(spans) = Cardinality(ExecutedRows(rs))
    /\ \A i \in DOMAIN spans : spans[i].state = rs[spans[i].entered].to
    /\ \A i \in 1 .. Len(spans) - 1 : spans[i].exited = spans[i + 1].entered
    /\ Len(rs) = Cardinality({c \in TracedCalls : moves[c].at # "none"}) /\ spans # <<>> =>
         Last(spans).state = runState

(* What the routes say of a run is true of it: the five answers agree with *)
(* each other and with what the callers did (AnswersAgree), and the stays  *)
(* of the timeline are those of the run (ResidencyFollowsRun).             *)
ReadsAreFaithful == AnswersAgree /\ ResidencyFollowsRun
=============================================================================
