------------------------------- MODULE TraceLog -------------------------------
(***************************************************************************)
(* What the trace store promises a reader of one run: a log to which each  *)
(* traced transition is appended once, and a summary that says what is in  *)
(* the log.  TraceStore implements it as long as sequences come from the   *)
(* database.                                                               *)
(***************************************************************************)
EXTENDS Naturals, Sequences, FiniteSets

CONSTANTS
  Writes,       \* the transitions of the run
  NoSummary     \* the summary of a run that has no trace

VARIABLES
  log,          \* the rows, oldest first
  summary

vars == <<log, summary>>

Rows == [write: Writes, blocked: BOOLEAN, governed: BOOLEAN]

BlockedSteps(l) == {i \in DOMAIN l : l[i].blocked}

Summarised(l) ==
  IF l = <<>> THEN NoSummary
  ELSE [stepCount |-> Len(l), blockedCount |-> Cardinality(BlockedSteps(l)),
        governed |-> \E i \in DOMAIN l : l[i].governed]

Init ==
  /\ log = <<>>
  /\ summary = NoSummary

Trace(row) ==
  /\ \A i \in DOMAIN log : log[i].write # row.write
  /\ log' = Append(log, row)
  /\ summary' = Summarised(log')

Next == \E row \in Rows : Trace(row)

Spec == Init /\ [][Next]_vars
=============================================================================
