---------------------------- MODULE MCTraceStore ----------------------------
(* TraceStore on small instances.                                          *)
EXTENDS TraceStore, TLC

CONSTANTS w1, w2, w3, w4

(* One process: its writes share the counter.                              *)
MCOneProcess == [w \in Writes |-> "p1"]

(* Two replicas.                                                           *)
MCTwoProcesses == [w \in Writes |-> IF w = w1 THEN "p1" ELSE "p2"]

(* Enough to tell the two counts and the governed flag apart.              *)
MCTwoEntries ==
  {[blocked |-> TRUE, governed |-> FALSE], [blocked |-> FALSE, governed |-> TRUE]}

(* Transitions of one process are interchangeable.                         *)
MCSymmetry == Permutations(Writes)
=============================================================================
