---------------------------- MODULE MCLoopEngine ----------------------------
(***************************************************************************)
(* LoopEngine on small instances.  The definition is a review loop: submit,*)
(* send back, and two ways to a terminal state, one of them governed.  It  *)
(* has a soft guard, a hard guard, a guard nobody registered, an actor     *)
(* list that leaves one type out, transitions that share an id and one out *)
(* of the terminal state (the definition validator allows all of them).    *)
(***************************************************************************)
EXTENDS LoopEngineProperties, TLC

MCTransition(id, from, to, actors, hard, soft, governed) ==
  [id |-> id, from |-> from, to |-> to, actors |-> actors, hard |-> hard,
   soft |-> soft, governed |-> governed]

MCReview ==
  [initial |-> "draft", terminal |-> {"done"}, governed |-> FALSE,
   transitions |->
     <<MCTransition("submit", "draft", "review", {"human", "ai-agent"}, {}, {"tone"}, FALSE),
       MCTransition("back", "review", "draft", {"human"}, {}, {}, FALSE),
       MCTransition("submit", "review", "done", {"human"}, {"budget"}, {}, TRUE),
       MCTransition("submit", "review", "review", {"ai-agent"}, {}, {}, FALSE),
       MCTransition("back", "draft", "done", {"human"}, {"nobody"}, {}, FALSE),
       MCTransition("back", "done", "done", {"human"}, {}, {}, FALSE)>>]

MCDefinitions == [l \in {"review"} |-> MCReview]
MCLoopIds == {"review", "unknown"}
MCStateIds == {"draft", "review", "done"}
MCTransitionIds == {"submit", "back"}
MCGuardIds == {"tone", "budget", "nobody"}
MCRegisteredGuards == {"tone", "budget"}
MCActorTypes == {"human", "ai-agent"}

(* Every caller on every aggregate.                                        *)
MCServesAll == [c \in Callers |-> Aggregates]

(* Each caller on an aggregate of its own: an application that serialises. *)
MCServesOwn == [c \in Callers |-> IF c = "c1" THEN {"a1"} ELSE {"a2"}]

MCAllStores == [c \in Callers |-> TRUE]
MCOneStore == [c \in Callers |-> c = "c1"]

(* Callers are interchangeable when all serve the same aggregates.         *)
MCSymmetry == Permutations(Callers)
=============================================================================
