------------------------- MODULE LoopEngineProperties -------------------------
(***************************************************************************)
(* What the engine keeps true.  The first group holds of every             *)
(* interleaving of calls and every fault; the second needs calls on one    *)
(* aggregate not to overlap (Isolated) and no fault (MaxFaults = 0).       *)
(***************************************************************************)
EXTENDS LoopEngine

Positions(a) == DOMAIN history[a]

(* Where call id left records: aggregate and position.                     *)
RecordsOfCall(id) ==
  UNION {{<<a, i>> : i \in {j \in Positions(a) : history[a][j].call = id}} :
         a \in Aggregates}

Saw(a, type, id) ==
  \E i \in DOMAIN events[a] : events[a][i].type = type /\ events[a][i].call = id

-----------------------------------------------------------------------------
(* Every record in the history, whatever stale instance the call that      *)
(* wrote it had read, is a transition of the loop's definition out of a    *)
(* state that is not terminal, by an actor of a listed type, and a         *)
(* governed one names snapshots that were inserted for that aggregate      *)
(* (engine.ts transition, authorization.ts, governed-evidence-commit.ts).  *)
RecordsAreLawful ==
  \A a \in Aggregates : \A i \in Positions(a) :
    LET r == history[a][i] IN
      /\ IsLawful(r)
      /\ r.snapshot => [call |-> r.call, agg |-> a] \in snapshots

(* What a call answered is what it did: `executed` left exactly one record *)
(* and a refusal left no record, no snapshot and no announcement of a      *)
(* move, even when another call of the same transition succeeded; a call   *)
(* that threw wrote at most one record.                                    *)
AnswersAreHonest ==
  \A id \in CallIds :
    LET written == RecordsOfCall(id) IN
      /\ outcome[id] = "executed" => \E p \in written : written = {p}
      /\ outcome[id] \in Refusals =>
           /\ written = {}
           /\ \A a \in Aggregates : ~ Saw(a, "executed", id) /\ ~ Saw(a, "completed", id)
           /\ ~ \E s \in snapshots : s.call = id
      /\ \A p, q \in written : p = q

(* What the bus announced happened: an executed event has its record in    *)
(* the history, a completed event has one into a terminal state, and a     *)
(* blocked call has none (emit comes after both saves, engine.ts:352-399). *)
EventsAreHonest ==
  \A a \in Aggregates : \A i \in DOMAIN events[a] :
    LET e == events[a][i]
        moves == {j \in Positions(a) :
                    history[a][j].call = e.call /\ history[a][j].to = e.state} IN
      /\ e.type = "executed" => moves # {}
      /\ e.type = "completed" =>
           \E j \in moves : IsTerminal(history[a][j].loop, e.state)
      /\ e.type = "blocked" => RecordsOfCall(e.call) = {}

(* listOpenInstances returns the rows of a loop that are active: the ones  *)
(* a caller would go on with.                                              *)
ListOpenInstances(l) ==
  {a \in Aggregates : IsActive(instances[a]) /\ instances[a].loop = l}

(* listOpen never returns a loop that has ended: an active row never moved *)
(* into a terminal state and has no completion time, and a completed one   *)
(* is in a terminal state, through races of moves, cancels and restarts.   *)
ListOpenIsLive ==
  \A a \in Aggregates : instances[a] # NoInstance =>
    LET inst == instances[a] IN
      /\ a \in ListOpenInstances(inst.loop) =>
           /\ ~ inst.completedAt
           /\ IsTerminal(inst.loop, inst.state) =>
                inst.state = Definitions[inst.loop].initial
      /\ inst.status = "completed" => IsTerminal(inst.loop, inst.state)

(* A governed move of the stored instance happens only when the evidence   *)
(* of that very call is already in the snapshot store, so a crash between  *)
(* the two leaves an unused snapshot and never a move without evidence.    *)
EvidenceFirst ==
  [][\A c \in Callers :
       (/\ pc[c] = "save" /\ pc'[c] = "record"
        /\ RequiresGovernedEvidence(call[c].write.loop, call[c].tr))
       => [call |-> call[c].id, agg |-> call[c].agg] \in snapshots]_vars

-----------------------------------------------------------------------------
(* What the locals of a call in flight satisfy: with the above, invariants *)
(* that every step preserves.                                              *)

(* At the await k, or on the way to it through an emit.                    *)
Heads(at, w, k) == at = k \/ (at = "emit" /\ w.after = k)

(* Only a transition call gets to the guards or past the first save, and   *)
(* it knows its transition and its actor.                                  *)
CallShape(at, w) ==
  /\ w \in Call
  /\ w.after \in {"idle", "guards", "evidence", "save"}
  /\ at = "emit" => w.outbox # <<>>
  /\ (Heads(at, w, "guards") \/ Heads(at, w, "evidence") \/ at = "record"
       \/ (at = "emit" /\ w.after = "save")) => w.op = "transition"
  /\ w.op = "transition" => w.tr \in TransitionSpecs /\ w.actor \in ActorTypes

TypeInv ==
  TypeOK /\ \A c \in Callers : pc[c] # "idle" => CallShape(pc[c], call[c])

(* What the call read at its first step still describes its transition,    *)
(* whatever became of the stored instance, and once it heads for the save  *)
(* its governed evidence is in the snapshot store.                         *)
CallIsLawful(at, w) ==
  /\ w.op = "transition" =>
       /\ \E i \in DOMAIN Transitions(w.write.loop) :
            w.tr = Transitions(w.write.loop)[i]
       /\ w.tr.from = w.from /\ w.actor \in w.tr.actors
       /\ w.warnings \subseteq w.tr.soft
       /\ ~ IsTerminal(w.write.loop, w.from)
       /\ (Heads(at, w, "save") \/ at = "record")
            /\ RequiresGovernedEvidence(w.write.loop, w.tr) => w.snapshot
  /\ w.snapshot => [call |-> w.id, agg |-> w.agg] \in snapshots

LawInv ==
  /\ TypeInv
  /\ RecordsAreLawful
  /\ \A c \in Callers : pc[c] # "idle" => CallIsLawful(pc[c], call[c])

(* ListOpenIsLive holds of the stored instances if it holds of every       *)
(* instance a call is about to store.                                      *)
IsLive(inst) ==
  /\ inst.status = "active" =>
       /\ ~ inst.completedAt
       /\ IsTerminal(inst.loop, inst.state) =>
            inst.state = Definitions[inst.loop].initial
  /\ inst.status = "completed" => IsTerminal(inst.loop, inst.state)

LiveInv ==
  /\ TypeInv
  /\ \A a \in Aggregates : instances[a] # NoInstance => IsLive(instances[a])
  /\ \A c \in Callers : pc[c] # "idle" => IsLive(call[c].write)

(* What call id left behind.                                               *)
Kept(id) == \E s \in snapshots : s.call = id

Said(type, id) == \E a \in Aggregates : Saw(a, type, id)

MovedNothing(id) ==
  RecordsOfCall(id) = {} /\ ~ Said("executed", id) /\ ~ Said("completed", id)

(* What a call is about to announce is true of it.                         *)
EventIsBacked(e, w) ==
  /\ e.call = w.id
  /\ e.type \in {"executed", "completed"} =>
       w.result = "executed" /\ e.state = w.tr.to
  /\ e.type = "completed" => IsTerminal(w.write.loop, w.tr.to)
  /\ e.type = "blocked" => w.result \in Refusals

(* A call in flight has not answered; it has its record once its result is *)
(* `executed`, and until then, or if it is refused, it has moved nothing;  *)
(* it has no snapshot before the evidence step.                            *)
CallIsHonest(at, w) ==
  /\ w.id <= calls /\ outcome[w.id] = "none"
  /\ w.result # "none" => at = "emit" /\ w.after = "idle"
  /\ IF w.result = "executed"
       THEN \E i \in Positions(w.agg) : history[w.agg][i] = RecordOf(w)
       ELSE MovedNothing(w.id)
  /\ (Heads(at, w, "guards") \/ Heads(at, w, "evidence") \/ w.result \in Refusals)
       => ~ Kept(w.id)
  /\ Said("blocked", w.id) => w.result \in Refusals
  /\ w.op = "transition" => w.write.state = w.tr.to
  /\ at = "emit" => \A i \in DOMAIN w.outbox : EventIsBacked(w.outbox[i], w)

(* Two calls in flight are two calls.                                      *)
CallsAreApart ==
  \A c, d \in Callers :
    (pc[c] # "idle" /\ pc[d] # "idle" /\ call[c].id = call[d].id) => c = d

(* An id that no call has drawn has left nothing.                          *)
Undrawn(id) ==
  /\ outcome[id] = "none" /\ MovedNothing(id)
  /\ ~ Kept(id) /\ ~ Said("blocked", id)

AnswersInv ==
  /\ LiveInv
  /\ AnswersAreHonest
  /\ EventsAreHonest
  /\ \A c \in Callers : pc[c] # "idle" => CallIsHonest(pc[c], call[c])
  /\ CallsAreApart
  /\ \A id \in CallIds : id > calls => Undrawn(id)

-----------------------------------------------------------------------------
(* Isolated calls, no fault.                                               *)

Pending(a) == {c \in Callers : pc[c] = "record" /\ call[c].agg = a}

(* The records since the last start replay without error, in the engine's  *)
(* own replay tool, and end in the stored state, unless a call is between  *)
(* its two saves (replay.ts, engine.ts:352-365).                           *)
HistoryReplays ==
  \A a \in Aggregates : (instances[a] # NoInstance /\ Pending(a) = {}) =>
    /\ Replays(history[a], since[a], instances[a].loop)
    /\ ReplayedState(history[a], since[a], instances[a].loop) = instances[a].state

(* One run of a loop completes at most once, also when it is cancelled or  *)
(* failed after or before it completes: between two loop.completed events  *)
(* of an aggregate there is a loop.started.                                *)
OneCompletionPerRun ==
  \A a \in Aggregates : \A i, j \in DOMAIN events[a] :
    (i < j /\ events[a][i].type = "completed" /\ events[a][j].type = "completed")
    => \E k \in i .. j : events[a][k].type = "started"

(* Between the two saves of a transition the abstract loop has already     *)
(* recorded the move.                                                      *)
CommittedHistory ==
  [a \in Aggregates |->
     IF Pending(a) = {} THEN history[a]
     ELSE Append(history[a], RecordOf(call[CHOOSE c \in Pending(a) : TRUE]))]

(* The records of h after position k replay to inst.                       *)
ReplaysTo(h, k, inst) ==
  /\ k <= Len(h)
  /\ Replays(h, k, inst.loop) /\ ReplayedState(h, k, inst.loop) = inst.state

(* With nobody else on its aggregate, a call writes what follows from the  *)
(* stored instance, and between its saves the record is all that lacks.    *)
CallIsFresh(at, w) ==
  LET inst == instances[w.agg] IN
    /\ (w.result = "none" /\ at # "record") =>
         /\ w.op = "start" =>
              ~ IsActive(inst) /\ \E l \in DOMAIN Definitions : w.write = NewInstance(l)
         /\ w.op = "transition" =>
              /\ inst # NoInstance /\ ~ IsClosed(inst)
              /\ w.from = inst.state /\ w.write = Moved(inst, w.tr)
         /\ w.op \in {"cancel", "fail"} =>
              /\ inst # NoInstance
              /\ \E status \in {"cancelled", "failed"} : w.write = Closed(inst, status)
    /\ at = "record" =>
         /\ inst = w.write
         /\ ReplaysTo(Append(history[w.agg], RecordOf(w)), since[w.agg], inst)

ReplayInv ==
  /\ LawInv
  /\ \A a \in Aggregates :
       /\ since[a] <= Len(history[a])
       /\ (instances[a] # NoInstance /\ Pending(a) = {}) =>
            ReplaysTo(history[a], since[a], instances[a])
  /\ \A c \in Callers : pc[c] # "idle" =>
       /\ call[c].agg \in Serves[c]
       /\ call[c].result # "none" => pc[c] = "emit" /\ call[c].after = "idle"
       /\ CallIsFresh(pc[c], call[c])

(* A completed event that no start has followed yet.                       *)
OpenCompletion(a) ==
  \E i \in DOMAIN events[a] :
    /\ events[a][i].type = "completed"
    /\ \A k \in DOMAIN events[a] : k > i => events[a][k].type # "started"

RunIsOver(a) ==
  instances[a] # NoInstance /\ IsTerminal(instances[a].loop, instances[a].state)

(* A call announces a start before anything else, and a completion last,   *)
(* once and of a run that is over.                                         *)
CallEndsRun(at, w) ==
  /\ (at = "emit" /\ w.op = "start") =>
       \A i \in DOMAIN w.outbox : w.outbox[i].type = "started"
  /\ at = "record" => ~ OpenCompletion(w.agg)
  /\ at = "emit" => \A i \in DOMAIN w.outbox : w.outbox[i].type = "completed" =>
       i = Len(w.outbox) /\ RunIsOver(w.agg) /\ ~ OpenCompletion(w.agg)

RunsInv ==
  /\ ReplayInv
  /\ OneCompletionPerRun
  /\ \A a \in Aggregates : OpenCompletion(a) =>
       \/ RunIsOver(a)
       \/ \E c \in Callers : pc[c] = "emit" /\ call[c].agg = a /\ call[c].op = "start"
  /\ \A c \in Callers : pc[c] # "idle" => CallEndsRun(pc[c], call[c])

Lifecycle == INSTANCE LoopLifecycle WITH history <- CommittedHistory

(* The engine, several awaits per call, implements the loop lifecycle, one *)
(* atomic step per operation.                                              *)
ImplementsLifecycle == Lifecycle!Spec

(* Every engine call returns or throws.                                    *)
CallsReturn == \A c \in Callers : pc[c] # "idle" ~> pc[c] = "idle"

-----------------------------------------------------------------------------
(* A claim that the code does not meet.                                    *)

(* engine.ts: start refuses an aggregate that has an active loop.  So two  *)
(* starts of one aggregate both succeed only if the first run ended first. *)
ActiveLoopIsNotRestarted ==
  [][\A c \in Callers :
       (pc[c] = "save" /\ call[c].op = "start" /\ pc'[c] = "emit")
       => ~ IsActive(instances[call[c].agg])]_vars
=============================================================================
