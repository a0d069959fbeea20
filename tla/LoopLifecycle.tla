---------------------------- MODULE LoopLifecycle ----------------------------
(***************************************************************************)
(* What a loop engine promises of one loop per aggregate, with every       *)
(* operation a single atomic step on the instance and its history.         *)
(* LoopEngine, whose operations are several store calls each, implements   *)
(* this specification when calls on one aggregate do not overlap.          *)
(***************************************************************************)
EXTENDS LoopDefinitions

VARIABLES
  instances,    \* aggregate -> LoopInstance, or NoInstance
  history,      \* aggregate -> the transition records, oldest first
  since         \* aggregate -> how many records precede its current run

vars == <<instances, history, since>>

TypeOK ==
  /\ instances \in [Aggregates -> LoopInstance \cup {NoInstance}]
  /\ history \in [Aggregates -> Seq(TransitionRecord)]
  /\ since \in [Aggregates -> Nat]

Init ==
  /\ instances = [a \in Aggregates |-> NoInstance]
  /\ history = [a \in Aggregates |-> <<>>]
  /\ since = [a \in Aggregates |-> 0]

(* A run begins where there is none, or where the last one is over.        *)
Start(a, l) ==
  /\ ~ IsActive(instances[a])
  /\ instances' = [instances EXCEPT ![a] = NewInstance(l)]
  /\ since' = [since EXCEPT ![a] = Len(history[a])]
  /\ UNCHANGED history

(* An open instance moves along a transition of its definition and the     *)
(* move is recorded, in one step.                                          *)
Advance(a, i, id, actor, warnings, snapshot) ==
  LET inst == instances[a]
      tr == Transitions(inst.loop)[i] IN
    /\ inst # NoInstance
    /\ inst.status # "completed" /\ ~ IsTerminal(inst.loop, inst.state)
    /\ i \in DOMAIN Transitions(inst.loop)
    /\ tr.from = inst.state /\ actor \in tr.actors /\ warnings \subseteq tr.soft
    /\ RequiresGovernedEvidence(inst.loop, tr) => snapshot
    /\ instances' = [instances EXCEPT ![a] = Moved(inst, tr)]
    /\ history' = [history EXCEPT ![a] = Append(@,
         [call |-> id, loop |-> inst.loop, tid |-> tr.id, from |-> tr.from,
          to |-> tr.to, actor |-> actor, warnings |-> warnings,
          snapshot |-> snapshot])]
    /\ UNCHANGED since

(* An instance is cancelled or failed, whatever its status.                *)
Close(a, status) ==
  /\ instances[a] # NoInstance
  /\ instances' = [instances EXCEPT ![a] = Closed(@, status)]
  /\ UNCHANGED <<history, since>>

Next ==
  \E a \in Aggregates :
    \/ \E l \in DOMAIN Definitions : Start(a, l)
    \/ \E status \in {"cancelled", "failed"} : Close(a, status)
    \/ /\ instances[a] # NoInstance
       /\ \E i \in DOMAIN Transitions(instances[a].loop), id \in CallIds,
            actor \in ActorTypes, warnings \in SUBSET GuardIds,
            snapshot \in BOOLEAN :
              Advance(a, i, id, actor, warnings, snapshot)

Spec == Init /\ [][Next]_vars
=============================================================================
