------------------------------ MODULE LoopEngine ------------------------------
(***************************************************************************)
(* packages/runtime/src/engine.ts over a LoopStore, a SnapshotStore and an *)
(* EventBus.  An engine call is an async function: it runs without         *)
(* interruption between two awaits, and any other call, of this process or *)
(* of another one on the same store, may run at an await.  So one action   *)
(* is the code from the settling of one await to the start of the next,    *)
(* and pc[c] names the await caller c is at:                               *)
(*                                                                         *)
(*   idle       no call                                                    *)
(*   emit       awaiting eventBus.emit of Head(call[c].outbox)             *)
(*   guards     about to evaluate the guards                               *)
(*   evidence   about to commit the governed evidence                      *)
(*   save       awaiting store.saveInstance(call[c].write)                 *)
(*   record     awaiting store.saveTransitionRecord(call[c].record)        *)
(*                                                                         *)
(* Nothing in the code keeps two calls on one aggregate apart.  Serves     *)
(* says which aggregates a caller's calls name: disjoint sets are an       *)
(* application that serialises its calls per aggregate, overlapping sets   *)
(* one that does not.                                                      *)
(*                                                                         *)
(* Abstractions.  A guard evaluator's verdict and the shape of the         *)
(* evidence a call was given are chosen where the engine first reads them. *)
(* The guard-failed events of one severity are one event.  The registry is *)
(* the same in every call.                                                 *)
(***************************************************************************)
EXTENDS LoopDefinitions

CONSTANTS
  Callers,          \* each runs one engine call at a time
  Serves,           \* caller -> the aggregates its calls name
  RegisteredGuards, \* the ids the GuardRegistry knows
  HasSnapshotStore, \* caller -> whether its engine has a snapshotStore
  MaxFaults,        \* bound: calls cut short and events lost
  NoCall,           \* call[c] of an idle caller
  NoTransition      \* the transition of a call that makes none

ASSUME EngineAssumption ==
  /\ Serves \in [Callers -> SUBSET Aggregates]
  /\ RegisteredGuards \subseteq GuardIds
  /\ HasSnapshotStore \in [Callers -> BOOLEAN]
  /\ MaxFaults \in Nat

(* Calls on one aggregate never overlap: the hypothesis of the properties  *)
(* that need the application to serialise them.                            *)
Isolated ==
  \A c, d \in Callers : c # d => Serves[c] \cap Serves[d] = {}

VARIABLES
  instances,   \* LoopStore: aggregate -> LoopInstance, or NoInstance
  history,     \* LoopStore: aggregate -> transition records, oldest first
  snapshots,   \* SnapshotStore: the inserted batches
  events,      \* aggregate -> the events the bus delivered, oldest first
  pc,
  call,        \* the locals of the call in flight
  calls,       \* how many calls were made
  faults,      \* how many faults occurred
  outcome,     \* call id -> how the call ended (history variable)
  since        \* aggregate -> Len(history) at its last start (history variable)

store == <<instances, history, snapshots, since>>
vars == <<instances, history, snapshots, events, pc, call, calls, faults,
          outcome, since>>

Operations == {"start", "transition", "cancel", "fail"}

Refusals == {"loop_closed", "invalid_transition", "unauthorized_actor",
             "pending_approval", "guard_failed", "evidence_required",
             "invalid_evidence_snapshot", "snapshot_store_required"}

(* "none": not ended.  "threw": the promise rejected, or its process died. *)
Outcomes == Refusals \cup
  {"none", "threw", "started", "executed", "cancelled", "failed"}

EventTypes ==
  {"started", "requested", "guard_soft", "guard_hard", "blocked", "executed",
   "completed", "cancelled", "failed"}

Event == [type: EventTypes, call: CallIds, state: StateIds]

Snapshot == [call: CallIds, agg: Aggregates]

Locations == {"idle", "emit", "guards", "evidence", "save", "record"}

(* `from` is the currentState the call read, `write` the instance it saves *)
(* (`updated`), `after` where it goes once its outbox is empty, and        *)
(* `result` what it then returns.                                          *)
Call ==
  [id: CallIds, op: Operations, agg: Aggregates, from: StateIds,
   write: LoopInstance, tr: TransitionSpecs \cup {NoTransition},
   actor: ActorTypes \cup {"none"}, warnings: SUBSET GuardIds,
   snapshot: BOOLEAN, outbox: Seq(Event), after: Locations,
   result: Outcomes]

TypeOK ==
  /\ instances \in [Aggregates -> LoopInstance \cup {NoInstance}]
  /\ history \in [Aggregates -> Seq(TransitionRecord)]
  /\ snapshots \subseteq Snapshot
  /\ events \in [Aggregates -> Seq(Event)]
  /\ pc \in [Callers -> Locations]
  /\ call \in [Callers -> Call \cup {NoCall}]
  /\ calls \in 0 .. MaxCalls
  /\ faults \in 0 .. MaxFaults
  /\ outcome \in [CallIds -> Outcomes]
  /\ since \in [Aggregates -> Nat]

Init ==
  /\ instances = [a \in Aggregates |-> NoInstance]
  /\ history = [a \in Aggregates |-> <<>>]
  /\ snapshots = {}
  /\ events = [a \in Aggregates |-> <<>>]
  /\ pc = [c \in Callers |-> "idle"]
  /\ call = [c \in Callers |-> NoCall]
  /\ calls = 0
  /\ faults = 0
  /\ outcome = [i \in CallIds |-> "none"]
  /\ since = [a \in Aggregates |-> 0]

-----------------------------------------------------------------------------
(* Steps that every call is made of.                                       *)

Begin(c, a) ==
  /\ pc[c] = "idle" /\ a \in Serves[c] /\ calls < MaxCalls
  /\ calls' = calls + 1

(* The call ends before its first await.                                   *)
ReturnsAtOnce(c, result) ==
  /\ outcome' = [outcome EXCEPT ![calls + 1] = result]
  /\ UNCHANGED <<store, events, pc, call, faults>>

(* The call goes on to await k, with the locals w.                         *)
Enters(c, k, w) ==
  /\ pc' = [pc EXCEPT ![c] = k]
  /\ call' = [call EXCEPT ![c] = w]

Returns(c, result) ==
  /\ Enters(c, "idle", NoCall)
  /\ outcome' = [outcome EXCEPT ![call[c].id] = result]

Ev(type, id, state) == [type |-> type, call |-> id, state |-> state]

NewCall(op, a, from, write) ==
  [id |-> calls + 1, op |-> op, agg |-> a, from |-> from, write |-> write,
   tr |-> NoTransition, actor |-> "none", warnings |-> {},
   snapshot |-> FALSE, outbox |-> <<>>, after |-> "idle", result |-> "none"]

-----------------------------------------------------------------------------
(* Mutant: an active instance is not looked for.                           *)
StartCallUnchecked(c, a, l) ==
  /\ Begin(c, a)
  /\ \/ l \notin DOMAIN Definitions /\ ReturnsAtOnce(c, "threw")
     \/ /\ l \in DOMAIN Definitions
        /\ Enters(c, "save",
             NewCall("start", a, Definitions[l].initial, NewInstance(l)))
        /\ UNCHANGED <<store, events, faults, outcome>>

(* engine.start: the definition lookup comes first, then the only check of *)
(* the stored instance; the save is a later step.                          *)
StartCall(c, a, l) ==
  /\ Begin(c, a)
  /\ \/ /\ l \in DOMAIN Definitions => IsActive(instances[a])
        /\ ReturnsAtOnce(c, "threw")
     \/ /\ l \in DOMAIN Definitions /\ ~ IsActive(instances[a])
        /\ Enters(c, "save",
             NewCall("start", a, Definitions[l].initial, NewInstance(l)))
        /\ UNCHANGED <<store, events, faults, outcome>>

(* Mutant: the actor list is not consulted.                                *)
IsAuthorizedAnyone(tr, actor) == TRUE

(* canActorExecuteTransition: the actor's type must be listed; an AI agent *)
(* constrained for this transition (`constrained`) needs approval.         *)
IsAuthorized(tr, actor) == actor \in tr.actors

RequiresApproval(actor, constrained) == actor = "ai-agent" /\ constrained

(* Mutant: the check asks for the wrong statuses.                          *)
IsClosedWhenCancelled(inst) == inst.status \in {"cancelled", "failed"}

(* The engine's closed check: the status `completed` or a terminal state.  *)
IsClosed(inst) ==
  inst.status = "completed" \/ IsTerminal(inst.loop, inst.state)

(* engine.transition up to its first emit: what it refuses at once ...     *)
TransitionRefused(c, a, t, actor, constrained) ==
  LET inst == instances[a] IN
    /\ Begin(c, a)
    /\ \/ inst = NoInstance /\ ReturnsAtOnce(c, "threw")
       \/ /\ inst # NoInstance /\ IsClosed(inst)
          /\ ReturnsAtOnce(c, "loop_closed")
       \/ /\ inst # NoInstance /\ ~ IsClosed(inst)
          /\ ~ HasMatch(inst.loop, t, inst.state)
          /\ ReturnsAtOnce(c, "invalid_transition")
       \/ /\ inst # NoInstance /\ ~ IsClosed(inst)
          /\ \E i \in DOMAIN Transitions(inst.loop) :
               LET tr == Transitions(inst.loop)[i] IN
                 /\ IsFirstMatch(inst.loop, i, t, inst.state)
                 /\ \/ /\ ~ IsAuthorized(tr, actor)
                       /\ ReturnsAtOnce(c, "unauthorized_actor")
                    \/ /\ IsAuthorized(tr, actor)
                       /\ RequiresApproval(actor, constrained)
                       /\ ReturnsAtOnce(c, "pending_approval")

(* ... and what it accepts: the locals keep the instance it read, moved.   *)
RequestedCall(a, tr, actor) ==
  [NewCall("transition", a, instances[a].state, Moved(instances[a], tr)) EXCEPT
     !.tr = tr, !.actor = actor, !.after = "guards",
     !.outbox = <<Ev("requested", calls + 1, tr.to)>>]

TransitionRequested(c, a, t, actor, constrained) ==
  LET inst == instances[a] IN
    /\ Begin(c, a)
    /\ inst # NoInstance /\ ~ IsClosed(inst)
    /\ \E i \in DOMAIN Transitions(inst.loop) :
         LET tr == Transitions(inst.loop)[i] IN
           /\ IsFirstMatch(inst.loop, i, t, inst.state)
           /\ IsAuthorized(tr, actor) /\ ~ RequiresApproval(actor, constrained)
           /\ Enters(c, "emit", RequestedCall(a, tr, actor))
    /\ UNCHANGED <<store, events, faults, outcome>>

(* engine.cancelLoop and failLoop: no check but that the instance exists.  *)
CloseCall(c, a, op, status) ==
  /\ Begin(c, a)
  /\ \/ instances[a] = NoInstance /\ ReturnsAtOnce(c, "threw")
     \/ /\ instances[a] # NoInstance
        /\ Enters(c, "save",
             NewCall(op, a, instances[a].state, Closed(instances[a], status)))
        /\ UNCHANGED <<store, events, faults, outcome>>

CancelCall(c, a) == CloseCall(c, a, "cancel", "cancelled")
FailCall(c, a) == CloseCall(c, a, "fail", "failed")

-----------------------------------------------------------------------------
(* The rest of a call.                                                     *)

(* Emit the events evs, then go to k; with none to emit, go there now.     *)
Emits(c, w, evs, k) ==
  Enters(c, IF evs = <<>> THEN k ELSE "emit",
         [w EXCEPT !.outbox = evs, !.after = k])

(* Mutant: no return after a hard failure was announced.                   *)
EvaluateGuardsGoesOn(c) ==
  LET w == call[c] IN
    /\ pc[c] = "guards"
    /\ \E hard \in SUBSET w.tr.hard :
         Emits(c, w, IF hard = {} THEN <<>>
                     ELSE <<Ev("guard_hard", w.id, w.from),
                            Ev("blocked", w.id, w.tr.to)>>,
               IF RequiresGovernedEvidence(w.write.loop, w.tr)
                 THEN "evidence" ELSE "save")
    /\ UNCHANGED <<store, events, calls, faults, outcome>>

(* Guards are evaluated in order; an unknown one throws.  Failed soft      *)
(* guards are announced and become warnings; a failed hard guard is        *)
(* announced, then the block, and the call returns.                        *)
EvaluateGuards(c) ==
  LET w == call[c]
      warn(s) == IF s = {} THEN <<>> ELSE <<Ev("guard_soft", w.id, w.from)>>
      next == IF RequiresGovernedEvidence(w.write.loop, w.tr)
                THEN "evidence" ELSE "save" IN
    /\ pc[c] = "guards"
    /\ UNCHANGED <<store, events, calls, faults>>
    /\ \/ /\ ~ (w.tr.hard \cup w.tr.soft \subseteq RegisteredGuards)
          /\ Returns(c, "threw")
       \/ /\ w.tr.hard \cup w.tr.soft \subseteq RegisteredGuards
          /\ \E soft \in SUBSET w.tr.soft, hard \in SUBSET w.tr.hard :
               IF hard = {}
                 THEN Emits(c, [w EXCEPT !.warnings = soft], warn(soft), next)
                 ELSE Emits(c, [w EXCEPT !.result = "guard_failed"],
                        warn(soft) \o <<Ev("guard_hard", w.id, w.from),
                                        Ev("blocked", w.id, w.tr.to)>>,
                        "idle")
          /\ UNCHANGED outcome

(* Mutant: the batch is inserted before it is checked.                     *)
CommitEvidenceUnchecked(c) ==
  LET w == call[c] IN
    /\ pc[c] = "evidence"
    /\ snapshots' = snapshots \cup {[call |-> w.id, agg |-> w.agg]}
    /\ \/ Returns(c, "invalid_evidence_snapshot")
       \/ /\ Enters(c, "save", [w EXCEPT !.snapshot = TRUE])
          /\ UNCHANGED outcome
    /\ UNCHANGED <<instances, history, since, events, calls, faults>>

(* Mutant: the references are used without awaiting the insertion.         *)
CommitEvidenceUnawaited(c) ==
  /\ pc[c] = "evidence"
  /\ Enters(c, "save", [call[c] EXCEPT !.snapshot = TRUE])
  /\ UNCHANGED <<store, events, calls, faults, outcome>>

(* Mutant: a call with evidence waits for a snapshot store to appear.      *)
CommitEvidenceWaits(c) ==
  /\ HasSnapshotStore[c]
  /\ CommitEvidenceUnchecked(c)

(* commitGovernedEvidenceSnapshots: absent, then malformed evidence, then  *)
(* a missing store refuse the call; otherwise the batch is inserted, which *)
(* is awaited, before any write to the LoopStore.                          *)
CommitEvidence(c) ==
  LET w == call[c] IN
    /\ pc[c] = "evidence"
    /\ UNCHANGED <<instances, history, since, events, calls, faults>>
    /\ \/ /\ \E reason \in {"evidence_required", "invalid_evidence_snapshot"} :
               Returns(c, reason)
          /\ UNCHANGED snapshots
       \/ /\ ~ HasSnapshotStore[c]
          /\ Returns(c, "snapshot_store_required")
          /\ UNCHANGED snapshots
       \/ /\ HasSnapshotStore[c]
          /\ snapshots' = snapshots \cup {[call |-> w.id, agg |-> w.agg]}
          /\ Enters(c, "save", [w EXCEPT !.snapshot = TRUE])
          /\ UNCHANGED outcome

(* Mutant: the operation's name instead of its event.                      *)
AnnouncedByName(op) == op

(* What a start, cancel or fail announces once it has saved.               *)
Announced(op) ==
  IF op = "start" THEN "started" ELSE IF op = "cancel" THEN "cancelled" ELSE "failed"

(* store.saveInstance is an upsert of the whole row: it does not look at   *)
(* what is there.                                                          *)
SaveInstance(c) ==
  LET w == call[c] IN
    /\ pc[c] = "save"
    /\ instances' = [instances EXCEPT ![w.agg] = w.write]
    /\ since' = IF w.op = "start"
                  THEN [since EXCEPT ![w.agg] = Len(history[w.agg])] ELSE since
    /\ IF w.op = "transition"
         THEN Enters(c, "record", w)
         ELSE Emits(c, [w EXCEPT !.result = Announced(w.op)],
                    <<Ev(Announced(w.op), w.id, w.from)>>, "idle")
    /\ UNCHANGED <<history, snapshots, events, calls, faults, outcome>>

RecordOf(w) ==
  [call |-> w.id, loop |-> w.write.loop, tid |-> w.tr.id, from |-> w.from,
   to |-> w.tr.to, actor |-> w.actor, warnings |-> w.warnings,
   snapshot |-> w.snapshot]

(* store.saveTransitionRecord appends; then the move is announced, and the *)
(* completion if the saved instance is completed.                          *)
SaveRecord(c) ==
  LET w == call[c]
      done == IF w.write.status = "completed"
                THEN <<Ev("completed", w.id, w.write.state)>> ELSE <<>> IN
    /\ pc[c] = "record"
    /\ history' = [history EXCEPT ![w.agg] = Append(@, RecordOf(w))]
    /\ Emits(c, [w EXCEPT !.result = "executed"],
             <<Ev("executed", w.id, w.tr.to)>> \o done, "idle")
    /\ UNCHANGED <<instances, snapshots, since, events, calls, faults, outcome>>

(* The awaited emit settles: the next event, or the rest of the call.      *)
EmitSettles(c) ==
  LET w == call[c] IN
    IF Tail(w.outbox) # <<>>
      THEN /\ Enters(c, "emit", [w EXCEPT !.outbox = Tail(@)])
           /\ UNCHANGED outcome
      ELSE IF w.after = "idle"
        THEN Returns(c, w.result)
        ELSE /\ Enters(c, w.after, [w EXCEPT !.outbox = <<>>])
             /\ UNCHANGED outcome

Deliver(c) ==
  /\ pc[c] = "emit"
  /\ events' = [events EXCEPT ![call[c].agg] = Append(@, Head(call[c].outbox))]
  /\ EmitSettles(c)
  /\ UNCHANGED <<store, calls, faults>>

-----------------------------------------------------------------------------
(* Faults.  An HTTP bus gives up after its retries and returns normally;   *)
(* a store, a bus or a guard evaluator may throw, and a process may die,   *)
(* at any await: the call then does nothing more.                          *)
LoseEvent(c) ==
  /\ pc[c] = "emit" /\ faults < MaxFaults
  /\ faults' = faults + 1
  /\ EmitSettles(c)
  /\ UNCHANGED <<store, events, calls>>

Abort(c) ==
  /\ pc[c] # "idle" /\ faults < MaxFaults
  /\ faults' = faults + 1
  /\ Returns(c, "threw")
  /\ UNCHANGED <<store, events, calls>>

-----------------------------------------------------------------------------
Continue(c) ==
  \/ EvaluateGuards(c) \/ CommitEvidence(c)
  \/ SaveInstance(c) \/ SaveRecord(c) \/ Deliver(c)

Next ==
  \E c \in Callers :
    \/ \E a \in Aggregates :
         \/ \E l \in LoopIds : StartCall(c, a, l)
         \/ \E t \in TransitionIds, actor \in ActorTypes, constrained \in BOOLEAN :
              \/ TransitionRefused(c, a, t, actor, constrained)
              \/ TransitionRequested(c, a, t, actor, constrained)
         \/ CancelCall(c, a)
         \/ FailCall(c, a)
    \/ EvaluateGuards(c) \/ CommitEvidence(c) \/ SaveInstance(c)
    \/ SaveRecord(c) \/ Deliver(c)
    \/ LoseEvent(c) \/ Abort(c)

(* Every await settles: the stores, the bus and the guards answer, or the  *)
(* call aborts.  Nobody has to make a call.                                *)
Fairness == \A c \in Callers : WF_vars(Continue(c))

Spec == Init /\ [][Next]_vars

FairSpec == Spec /\ Fairness
=============================================================================
