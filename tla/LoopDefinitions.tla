--------------------------- MODULE LoopDefinitions ---------------------------
(***************************************************************************)
(* Loop definitions, loop instances and transition records: the data types *)
(* of packages/core, and the pure operators by which the engine, the       *)
(* stores and the replay tool read them.                                   *)
(*                                                                         *)
(* Abstractions.  Labels, descriptions, versions, outcome metrics, signals *)
(* (an alias of the transition id unless authored), correlation ids and    *)
(* metadata are left out.  An instant (startedAt, updatedAt) is left out;  *)
(* completedAt is kept as whether it is set.  An actor is its type.  An    *)
(* evidence object is kept as the soft-guard warnings and the snapshot     *)
(* reference the engine adds to it.                                        *)
(***************************************************************************)
EXTENDS Naturals, Sequences

CONSTANTS
  LoopIds,      \* loop ids a caller may name, registered or not
  StateIds,
  TransitionIds,\* transition ids a caller may name
  GuardIds,
  ActorTypes,
  Aggregates,
  Definitions,  \* the LoopDefinitionRegistry: loop id -> definition
  NoInstance,   \* what getInstance returns when there is no row
  MaxCalls      \* bound: engine calls in a behaviour (ids 1..MaxCalls)

CallIds == 1 .. MaxCalls

LoopStatuses == {"active", "completed", "failed", "cancelled"}

(* TransitionSpec: guards are split by severity, governed abbreviates      *)
(* metadata.governedEvidence.                                              *)
TransitionSpecs ==
  [id: TransitionIds, from: StateIds, to: StateIds, actors: SUBSET ActorTypes,
   hard: SUBSET GuardIds, soft: SUBSET GuardIds, governed: BOOLEAN]

LoopDefinition ==
  [initial: StateIds, terminal: SUBSET StateIds,
   transitions: Seq(TransitionSpecs), governed: BOOLEAN]

LoopInstance ==
  [loop: DOMAIN Definitions, state: StateIds, status: LoopStatuses,
   completedAt: BOOLEAN]

(* `call` is a history variable: the engine call that wrote the record.    *)
TransitionRecord ==
  [call: CallIds, loop: DOMAIN Definitions, tid: TransitionIds,
   from: StateIds, to: StateIds, actor: ActorTypes,
   warnings: SUBSET GuardIds, snapshot: BOOLEAN]

ASSUME DefinitionsAssumption ==
  /\ DOMAIN Definitions \subseteq LoopIds
  /\ \A l \in DOMAIN Definitions : Definitions[l] \in LoopDefinition
  /\ NoInstance \notin LoopInstance
  /\ MaxCalls \in Nat

-----------------------------------------------------------------------------
IsTerminal(l, s) == s \in Definitions[l].terminal

Transitions(l) == Definitions[l].transitions

(* Mutant: the source state is not compared.                               *)
IsFirstMatchAnywhere(l, i, t, s) ==
  /\ i \in DOMAIN Transitions(l)
  /\ Transitions(l)[i].id = t
  /\ \A j \in DOMAIN Transitions(l) : j < i => Transitions(l)[j].id # t

(* The transition the engine's `find` picks: the first in authoring order  *)
(* with this id and source state.  Ids need not be unique, so the position *)
(* matters.                                                                *)
IsFirstMatch(l, i, t, s) ==
  /\ i \in DOMAIN Transitions(l)
  /\ Transitions(l)[i].id = t /\ Transitions(l)[i].from = s
  /\ \A j \in DOMAIN Transitions(l) :
       j < i => ~ (Transitions(l)[j].id = t /\ Transitions(l)[j].from = s)

HasMatch(l, t, s) ==
  \E i \in DOMAIN Transitions(l) :
    Transitions(l)[i].id = t /\ Transitions(l)[i].from = s

RequiresGovernedEvidence(l, tr) == Definitions[l].governed \/ tr.governed

IsActive(inst) == inst # NoInstance /\ inst.status = "active"

(* The instance engine.start writes.                                       *)
NewInstance(l) ==
  [loop |-> l, state |-> Definitions[l].initial, status |-> "active",
   completedAt |-> FALSE]

(* Mutant: reaching a terminal state does not complete the instance.       *)
MovedStillActive(inst, tr) == [inst EXCEPT !.state = tr.to]

(* The instance engine.transition writes: the one it read, moved.          *)
Moved(inst, tr) ==
  IF IsTerminal(inst.loop, tr.to)
    THEN [inst EXCEPT !.state = tr.to, !.status = "completed", !.completedAt = TRUE]
    ELSE [inst EXCEPT !.state = tr.to]

(* The instance cancelLoop and failLoop write.                             *)
Closed(inst, status) ==
  [inst EXCEPT !.status = status, !.completedAt = TRUE]

(* A record is lawful if its loop has such a transition, out of a state    *)
(* that is not terminal, open to that actor, with no hard guard among the  *)
(* failures it carries.                                                    *)
IsLawful(r) ==
  \E i \in DOMAIN Transitions(r.loop) :
    LET tr == Transitions(r.loop)[i] IN
      /\ tr.id = r.tid /\ tr.from = r.from /\ tr.to = r.to
      /\ r.actor \in tr.actors
      /\ r.warnings \subseteq tr.soft
      /\ ~ IsTerminal(r.loop, r.from)
      /\ RequiresGovernedEvidence(r.loop, tr) => r.snapshot

(* replayLoop finds no error in the records of h after position k: each    *)
(* leaves the state the one before it reached, the first the initial one.  *)
(* (replayLoop keeps the old state on a mismatch, so "no error" is this.)  *)
Replays(h, k, l) ==
  \A i \in (k + 1) .. Len(h) :
    /\ h[i].from = IF i = k + 1 THEN Definitions[l].initial ELSE h[i - 1].to
    /\ \E j \in DOMAIN Transitions(l) :
         /\ Transitions(l)[j].id = h[i].tid
         /\ Transitions(l)[j].from = h[i].from
         /\ Transitions(l)[j].to = h[i].to

(* The state a replay of the records after position k ends in.             *)
ReplayedState(h, k, l) ==
  IF Len(h) > k THEN h[Len(h)].to ELSE Definitions[l].initial
=============================================================================
