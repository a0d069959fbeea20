---------------------------- MODULE MCLoopRuntime ----------------------------
(***************************************************************************)
(* LoopRuntime on small instances: a definition with a move that stays in  *)
(* its state and one to the terminal state.                                *)
(***************************************************************************)
EXTENDS LoopRuntime, TLC

MCTransition(id, to) ==
  [id |-> id, from |-> "draft", to |-> to, actors |-> {"human"}, hard |-> {},
   soft |-> {}, governed |-> FALSE]

MCDefinitions ==
  [l \in {"memo"} |->
     [initial |-> "draft", terminal |-> {"done"}, governed |-> FALSE,
      transitions |-> <<MCTransition("note", "draft"), MCTransition("approve", "done")>>]]

MCNoStores == [c \in Callers |-> FALSE]

(* Every caller on every aggregate.                                        *)
MCServesAll == [c \in Callers |-> Aggregates]

(* Each caller on an aggregate of its own: a client that waits for answers.*)
MCServesOwn == [c \in Callers |-> IF c = "c1" THEN {"a1"} ELSE {"a2"}]

(* Callers, and aggregates, are interchangeable when all serve the same.   *)
MCSymmetry == Permutations(Callers) \cup Permutations(Aggregates)
=============================================================================
