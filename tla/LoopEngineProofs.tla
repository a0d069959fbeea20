--------------------------- MODULE LoopEngineProofs ---------------------------
(***************************************************************************)
(* Proofs about LoopEngine for every set of callers, aggregates, loops and *)
(* definitions, overlapping calls and any number of faults included.       *)
(***************************************************************************)
EXTENDS LoopEngineProperties, SequenceTheorems, TLAPS

USE DefinitionsAssumption, EngineAssumption

-----------------------------------------------------------------------------
(* The operators on definitions and instances.                             *)

LEMMA TransitionType ==
  ASSUME NEW l \in DOMAIN Definitions, NEW i \in DOMAIN Transitions(l)
  PROVE  Transitions(l)[i] \in TransitionSpecs
<1>1. Definitions[l] \in LoopDefinition
  BY DefinitionsAssumption
<1>2. Transitions(l) \in Seq(TransitionSpecs)
  BY <1>1 DEF Transitions, LoopDefinition
<1> QED
  BY <1>2, ElementOfSeq

LEMMA NewInstanceType ==
  ASSUME NEW l \in DOMAIN Definitions
  PROVE  NewInstance(l) \in LoopInstance /\ Definitions[l].initial \in StateIds
<1>1. Definitions[l] \in LoopDefinition
  BY DefinitionsAssumption
<1> QED
  BY <1>1 DEF NewInstance, LoopDefinition, LoopInstance, LoopStatuses

LEMMA MovedType ==
  ASSUME NEW inst \in LoopInstance, NEW tr \in TransitionSpecs
  PROVE  Moved(inst, tr) \in LoopInstance /\ Moved(inst, tr).loop = inst.loop
BY DEF Moved, LoopInstance, LoopStatuses, TransitionSpecs

LEMMA ClosedType ==
  ASSUME NEW inst \in LoopInstance, NEW status \in LoopStatuses
  PROVE  Closed(inst, status) \in LoopInstance
BY DEF Closed, LoopInstance, LoopStatuses

-----------------------------------------------------------------------------
(* The steps a call is made of.                                            *)

LEMMA NewCallType ==
  ASSUME TypeOK, calls < MaxCalls, NEW op \in Operations, NEW a \in Aggregates,
         NEW from \in StateIds, NEW write \in LoopInstance
  PROVE  NewCall(op, a, from, write) \in Call
<1>1. calls + 1 \in CallIds
  BY DEF TypeOK, CallIds
<1>2. <<>> \in Seq(Event)
  BY EmptySeq
<1> QED
  BY <1>1, <1>2 DEF NewCall, Call, Locations, Outcomes

(* A call that enters k with well-shaped locals leaves the others alone.   *)
LEMMA EntersShape ==
  ASSUME TypeInv, NEW c \in Callers, NEW k \in Locations, NEW w, Enters(c, k, w),
         IF k = "idle" THEN w = NoCall ELSE CallShape(k, w)
  PROVE  /\ pc' \in [Callers -> Locations]
         /\ call' \in [Callers -> Call \cup {NoCall}]
         /\ \A d \in Callers : pc'[d] # "idle" => CallShape(pc'[d], call'[d])
<1>1. w \in Call \cup {NoCall}
  BY DEF CallShape
<1>2. pc' = [pc EXCEPT ![c] = k] /\ call' = [call EXCEPT ![c] = w]
  BY DEF Enters
<1>3. pc \in [Callers -> Locations] /\ call \in [Callers -> Call \cup {NoCall}]
  BY DEF TypeInv, TypeOK
<1>4. pc' \in [Callers -> Locations] /\ call' \in [Callers -> Call \cup {NoCall}]
  BY <1>1, <1>2, <1>3
<1>5. ASSUME NEW d \in Callers, pc'[d] # "idle"
      PROVE  CallShape(pc'[d], call'[d])
  <2>1. CASE d = c
    BY <1>2, <1>3, <1>5, <2>1
  <2>2. CASE d # c
    <3>1. pc'[d] = pc[d] /\ call'[d] = call[d]
      BY <1>2, <1>3, <2>2
    <3> QED
      BY <3>1, <1>5 DEF TypeInv
  <2> QED
    BY <2>1, <2>2
<1> QED
  BY <1>4, <1>5

(* Emits leads to well-shaped locals.                                      *)
LEMMA EmitsShape ==
  ASSUME NEW w \in Call, NEW evs \in Seq(Event), 
         NEW k \in {"idle", "guards", "evidence", "save"},
         k = "idle" => evs # <<>>,
         k # "idle" => w.op = "transition",
         w.op = "transition" => w.tr \in TransitionSpecs /\ w.actor \in ActorTypes
  PROVE  LET at == IF evs = <<>> THEN k ELSE "emit" IN
           /\ at \in Locations \ {"idle"}
           /\ CallShape(at, [w EXCEPT !.outbox = evs, !.after = k])
<1> DEFINE v == [w EXCEPT !.outbox = evs, !.after = k]
<1>1. v \in Call
  BY DEF Call, Locations
<1>2. /\ v.outbox = evs /\ v.after = k /\ v.op = w.op
      /\ v.tr = w.tr /\ v.actor = w.actor
  BY DEF Call
<1> HIDE DEF v
<1>3. LET at == IF evs = <<>> THEN k ELSE "emit" IN
        at \in Locations \ {"idle"} /\ CallShape(at, v)
  <2>1. CASE evs = <<>>
    BY <1>1, <1>2, <2>1 DEF CallShape, Heads, Locations
  <2>2. CASE evs # <<>>
    BY <1>1, <1>2, <2>2 DEF CallShape, Heads, Locations
  <2> QED
    BY <2>1, <2>2
<1> QED
  BY <1>3 DEF v

(* What TypeInv says of the callers, in the next state.                    *)
CallersTyped ==
  /\ pc \in [Callers -> Locations]
  /\ call \in [Callers -> Call \cup {NoCall}]
  /\ \A d \in Callers : pc[d] # "idle" => CallShape(pc[d], call[d])

LEMMA ReturnsAtOnceTypes ==
  ASSUME TypeInv, NEW c \in Callers, NEW a, NEW result \in Outcomes,
         Begin(c, a), ReturnsAtOnce(c, result)
  PROVE  TypeInv'
<1>1. calls + 1 \in CallIds /\ calls' \in 0 .. MaxCalls
  BY DEF TypeInv, TypeOK, Begin, CallIds
<1>2. outcome' \in [CallIds -> Outcomes]
  BY <1>1 DEF TypeInv, TypeOK, ReturnsAtOnce
<1> QED
  BY <1>1, <1>2 DEF TypeInv, TypeOK, ReturnsAtOnce, store, CallShape, Heads

LEMMA ReturnsTypes ==
  ASSUME TypeInv, NEW c \in Callers, pc[c] # "idle", NEW result \in Outcomes,
         Returns(c, result)
  PROVE  CallersTyped' /\ outcome' \in [CallIds -> Outcomes]
<1>1. CallersTyped'
  BY EntersShape DEF Returns, Locations, CallersTyped
<1>2. outcome' \in [CallIds -> Outcomes]
  BY DEF TypeInv, TypeOK, Returns
<1> QED
  BY <1>1, <1>2

LEMMA EmitsTypes ==
  ASSUME TypeInv, NEW c \in Callers, NEW w \in Call, NEW evs \in Seq(Event),
         NEW k \in {"idle", "guards", "evidence", "save"},
         k = "idle" => evs # <<>>,
         k # "idle" => w.op = "transition",
         w.op = "transition" => w.tr \in TransitionSpecs /\ w.actor \in ActorTypes,
         Emits(c, w, evs, k)
  PROVE  CallersTyped'
<1> DEFINE at == IF evs = <<>> THEN k ELSE "emit"
           v == [w EXCEPT !.outbox = evs, !.after = k]
<1>1. at \in Locations \ {"idle"} /\ CallShape(at, v)
  BY EmitsShape
<1>2. Enters(c, at, v)
  BY DEF Emits
<1> HIDE DEF at, v
<1> QED
  BY <1>1, <1>2, EntersShape DEF CallersTyped

LEMMA EmitSettlesTypes ==
  ASSUME TypeInv, NEW c \in Callers, pc[c] = "emit", EmitSettles(c)
  PROVE  CallersTyped' /\ outcome' \in [CallIds -> Outcomes]
<1> DEFINE w == call[c]
<1>1. CallShape("emit", w)
  BY DEF TypeInv
<1>2. w \in Call /\ w.outbox \in Seq(Event) /\ w.result \in Outcomes
  BY <1>1 DEF CallShape, Call
<1>3. w.outbox # <<>> /\ Tail(w.outbox) \in Seq(Event)
  BY <1>1, <1>2, HeadTailProperties DEF CallShape
<1>4. CASE Tail(w.outbox) # <<>>
  <2> DEFINE v == [w EXCEPT !.outbox = Tail(@)]
  <2>1. v \in Call
    BY <1>2, <1>3 DEF Call
  <2>2. /\ v.outbox = Tail(w.outbox) /\ v.after = w.after /\ v.op = w.op
        /\ v.tr = w.tr /\ v.actor = w.actor
    BY <1>2 DEF Call
  <2>3. Enters(c, "emit", v) /\ outcome' = outcome
    BY <1>4 DEF EmitSettles
  <2> HIDE DEF v
  <2>4. CallShape("emit", v)
    BY <1>1, <1>4, <2>1, <2>2 DEF CallShape, Heads
  <2>5. CallersTyped'
    BY <2>3, <2>4, EntersShape DEF CallersTyped, Locations
  <2> QED
    BY <2>3, <2>5 DEF TypeInv, TypeOK
<1>5. CASE Tail(w.outbox) = <<>> /\ w.after = "idle"
  BY <1>2, <1>5, ReturnsTypes DEF EmitSettles
<1>6. CASE Tail(w.outbox) = <<>> /\ w.after # "idle"
  <2> DEFINE v == [w EXCEPT !.outbox = <<>>]
  <2>1. v \in Call
    BY <1>2, EmptySeq DEF Call
  <2>2. v.after = w.after /\ v.op = w.op /\ v.tr = w.tr /\ v.actor = w.actor
    BY <1>2 DEF Call
  <2>3. Enters(c, w.after, v) /\ outcome' = outcome
    BY <1>6 DEF EmitSettles
  <2> HIDE DEF v
  <2>4. w.after \in {"guards", "evidence", "save"} /\ CallShape(w.after, v)
    BY <1>1, <1>6, <2>1, <2>2 DEF CallShape, Heads
  <2>5. CallersTyped'
    BY <2>3, <2>4, EntersShape DEF CallersTyped, Locations
  <2> QED
    BY <2>3, <2>5 DEF TypeInv, TypeOK
<1> QED
  BY <1>4, <1>5, <1>6

-----------------------------------------------------------------------------
(* The actions keep TypeInv.                                               *)

(* A call that begins and goes on to an await.                             *)
LEMMA BeginEntersTypes ==
  ASSUME TypeInv, NEW c \in Callers, NEW a, Begin(c, a),
         NEW k \in Locations \ {"idle"}, NEW w, CallShape(k, w), Enters(c, k, w),
         UNCHANGED <<store, events, faults, outcome>>
  PROVE  TypeInv'
<1>1. CallersTyped'
  BY EntersShape DEF CallersTyped
<1>2. calls' \in 0 .. MaxCalls
  BY DEF TypeInv, TypeOK, Begin
<1> QED
  BY <1>1, <1>2 DEF TypeInv, TypeOK, CallersTyped, store

(* A call that goes straight to its save.                                  *)
LEMMA NewCallShape ==
  ASSUME TypeInv, NEW c \in Callers, NEW a, Begin(c, a),
         NEW op \in Operations \ {"transition"},
         NEW from \in StateIds, NEW write \in LoopInstance
  PROVE  CallShape("save", NewCall(op, a, from, write))
<1> DEFINE w == NewCall(op, a, from, write)
<1>1. a \in Aggregates /\ calls < MaxCalls
  BY DEF Begin
<1>2. w \in Call
  BY <1>1, NewCallType DEF TypeInv
<1>3. w.after = "idle" /\ w.op = op
  BY DEF NewCall
<1> HIDE DEF w
<1>4. CallShape("save", w)
  BY <1>2, <1>3 DEF CallShape, Heads
<1> QED
  BY <1>4 DEF w

LEMMA StartCallTypes ==
  ASSUME TypeInv, NEW c \in Callers, NEW a, NEW l, StartCall(c, a, l)
  PROVE  TypeInv'
<1>1. Begin(c, a)
  BY DEF StartCall
<1>2. CASE ReturnsAtOnce(c, "threw")
  BY <1>1, <1>2, ReturnsAtOnceTypes DEF Outcomes
<1>3. CASE /\ l \in DOMAIN Definitions
           /\ Enters(c, "save",
                NewCall("start", a, Definitions[l].initial, NewInstance(l)))
           /\ UNCHANGED <<store, events, faults, outcome>>
  <2>1. NewInstance(l) \in LoopInstance /\ Definitions[l].initial \in StateIds
    BY <1>3, NewInstanceType
  <2>2. CallShape("save",
          NewCall("start", a, Definitions[l].initial, NewInstance(l)))
    BY <1>1, <2>1, NewCallShape DEF Operations
  <2> QED
    BY <1>1, <1>3, <2>2, BeginEntersTypes DEF Locations
<1> QED
  BY <1>2, <1>3 DEF StartCall

LEMMA TransitionRefusedTypes ==
  ASSUME TypeInv, NEW c \in Callers, NEW a, NEW t, NEW actor, NEW constrained,
         TransitionRefused(c, a, t, actor, constrained)
  PROVE  TypeInv'
<1>1. Begin(c, a)
  BY DEF TransitionRefused
<1>2. \E result \in Outcomes : ReturnsAtOnce(c, result)
  BY DEF TransitionRefused, Outcomes, Refusals
<1> QED
  BY <1>1, <1>2, ReturnsAtOnceTypes

(* The locals of an accepted transition call.                              *)
LEMMA RequestedCallType ==
  ASSUME TypeOK, calls < MaxCalls, NEW a \in Aggregates, instances[a] # NoInstance,
         NEW tr \in TransitionSpecs, NEW actor \in ActorTypes
  PROVE  LET w == RequestedCall(a, tr, actor) IN
           /\ w \in Call
           /\ w.outbox # <<>> /\ w.after = "guards" /\ w.op = "transition"
           /\ w.tr = tr /\ w.actor = actor /\ w.from = instances[a].state
           /\ w.write = Moved(instances[a], tr)
           /\ w.warnings = {} /\ ~ w.snapshot
<1> DEFINE n == NewCall("transition", a, instances[a].state,
                        Moved(instances[a], tr))
           o == <<Ev("requested", calls + 1, tr.to)>>
<1>1. instances[a] \in LoopInstance
  BY DEF TypeOK
<1>2. instances[a].state \in StateIds /\ Moved(instances[a], tr) \in LoopInstance
  BY <1>1, MovedType DEF LoopInstance
<1>3. n \in Call
  BY <1>2, NewCallType DEF Operations
<1>4. /\ n.op = "transition" /\ n.from = instances[a].state
      /\ n.write = Moved(instances[a], tr) /\ n.warnings = {} /\ ~ n.snapshot
  BY DEF NewCall
<1>5. o \in Seq(Event) /\ o # <<>>
  <2>1. Ev("requested", calls + 1, tr.to) \in Event
    BY DEF Ev, Event, EventTypes, TypeOK, CallIds, TransitionSpecs
  <2> QED
    BY <2>1
<1> HIDE DEF n, o
<1>6. [n EXCEPT !.tr = tr, !.actor = actor, !.after = "guards", !.outbox = o] \in Call
  BY <1>3, <1>5 DEF Call, Locations
<1>7. LET w == [n EXCEPT !.tr = tr, !.actor = actor, !.after = "guards",
                         !.outbox = o] IN
           /\ w.outbox = o /\ w.after = "guards" /\ w.op = n.op
           /\ w.tr = tr /\ w.actor = actor /\ w.from = n.from
           /\ w.write = n.write
           /\ w.warnings = n.warnings /\ w.snapshot = n.snapshot
  BY <1>3 DEF Call
<1> QED
  BY <1>4, <1>5, <1>6, <1>7 DEF n, o, RequestedCall

LEMMA TransitionRequestedTypes ==
  ASSUME TypeInv, NEW c \in Callers, NEW a, NEW t, NEW actor \in ActorTypes,
         NEW constrained, TransitionRequested(c, a, t, actor, constrained)
  PROVE  TypeInv'
<1> DEFINE inst == instances[a]
<1>1. Begin(c, a) /\ a \in Aggregates /\ calls < MaxCalls /\ inst # NoInstance
  BY DEF TransitionRequested, Begin
<1>2. inst \in LoopInstance
  BY <1>1 DEF TypeInv, TypeOK
<1>3. PICK i \in DOMAIN Transitions(inst.loop) :
        Enters(c, "emit", RequestedCall(a, Transitions(inst.loop)[i], actor))
  BY DEF TransitionRequested
<1>4. Transitions(inst.loop)[i] \in TransitionSpecs
  BY <1>2, TransitionType DEF LoopInstance
<1> DEFINE v == RequestedCall(a, Transitions(inst.loop)[i], actor)
<1>5. /\ v \in Call /\ v.outbox # <<>> /\ v.after = "guards" /\ v.op = "transition"
      /\ v.tr \in TransitionSpecs /\ v.actor \in ActorTypes
  BY <1>1, <1>4, RequestedCallType DEF TypeInv
<1>6. Enters(c, "emit", v)
  BY <1>3
<1> HIDE DEF v
<1>7. CallShape("emit", v)
  BY <1>5 DEF CallShape, Heads
<1>8. UNCHANGED <<store, events, faults, outcome>>
  BY DEF TransitionRequested
<1> QED
  BY <1>1, <1>6, <1>7, <1>8, BeginEntersTypes DEF Locations

LEMMA CloseCallTypes ==
  ASSUME TypeInv, NEW c \in Callers, NEW a, NEW op \in {"cancel", "fail"},
         NEW status \in LoopStatuses, CloseCall(c, a, op, status)
  PROVE  TypeInv'
<1>1. Begin(c, a) /\ a \in Aggregates
  BY DEF CloseCall, Begin
<1>2. CASE ReturnsAtOnce(c, "threw")
  BY <1>1, <1>2, ReturnsAtOnceTypes DEF Outcomes
<1>3. CASE /\ instances[a] # NoInstance
           /\ Enters(c, "save", NewCall(op, a, instances[a].state,
                                        Closed(instances[a], status)))
           /\ UNCHANGED <<store, events, faults, outcome>>
  <2>1. instances[a] \in LoopInstance
    BY <1>1, <1>3 DEF TypeInv, TypeOK
  <2>2. instances[a].state \in StateIds /\ Closed(instances[a], status) \in LoopInstance
    BY <2>1, ClosedType DEF LoopInstance
  <2>3. CallShape("save", NewCall(op, a, instances[a].state,
                                  Closed(instances[a], status)))
    BY <1>1, <2>2, NewCallShape DEF Operations
  <2> QED
    BY <1>1, <1>3, <2>3, BeginEntersTypes DEF Locations
<1> QED
  BY <1>2, <1>3 DEF CloseCall

(* The outboxes the actions build are sequences, and not empty.            *)
LEMMA SoftEvents ==
  ASSUME NEW S, NEW e \in S, NEW s \in {<<>>, <<e>>}
  PROVE  s \in Seq(S)
<1>1. <<>> \in Seq(S)
  BY EmptySeq
<1>2. <<e>> \in Seq(S)
  OBVIOUS
<1> QED
  BY <1>1, <1>2

LEMMA OneThen ==
  ASSUME NEW S, NEW e \in S, NEW s \in Seq(S)
  PROVE  <<e>> \o s \in Seq(S) /\ <<e>> \o s # <<>>
<1>1. <<e>> \in Seq(S) /\ <<e>> # <<>>
  OBVIOUS
<1>2. <<e>> \o s \in Seq(S)
  BY <1>1, ConcatProperties
<1>3. <<e>> \o s # <<>>
  BY <1>1, ConcatEqualIffEmpty
<1> QED
  BY <1>2, <1>3

LEMMA ThenTwo ==
  ASSUME NEW S, NEW d \in S, NEW e \in S, NEW s \in Seq(S)
  PROVE  s \o <<d, e>> \in Seq(S) /\ s \o <<d, e>> # <<>>
<1>1. <<d, e>> \in Seq(S) /\ <<d, e>> # <<>>
  OBVIOUS
<1>2. s \o <<d, e>> \in Seq(S)
  BY <1>1, ConcatProperties
<1>3. s \o <<d, e>> # <<>>
  BY <1>1, ConcatEqualIffEmpty
<1> QED
  BY <1>2, <1>3

LEMMA EvaluateGuardsTypes ==
  ASSUME TypeInv, NEW c \in Callers, EvaluateGuards(c)
  PROVE  TypeInv'
<1> DEFINE w == call[c]
<1>1. CallShape("guards", w) /\ pc[c] = "guards"
  BY DEF TypeInv, EvaluateGuards
<1>2. /\ w \in Call /\ w.op = "transition" /\ w.id \in CallIds
      /\ w.tr \in TransitionSpecs /\ w.actor \in ActorTypes /\ w.from \in StateIds
  BY <1>1 DEF CallShape, Heads, Call
<1>3. /\ w.tr.to \in StateIds /\ w.tr.soft \subseteq GuardIds
  BY <1>2 DEF TransitionSpecs
<1>4. /\ Ev("guard_soft", w.id, w.from) \in Event
      /\ Ev("guard_hard", w.id, w.from) \in Event
      /\ Ev("blocked", w.id, w.tr.to) \in Event
  BY <1>2, <1>3 DEF Ev, Event, EventTypes
<1>5. UNCHANGED <<store, events, calls, faults>>
  BY DEF EvaluateGuards
<1>6. CASE Returns(c, "threw")
  <2>1. CallersTyped' /\ outcome' \in [CallIds -> Outcomes]
    BY <1>1, <1>6, ReturnsTypes DEF Outcomes
  <2> QED
    BY <2>1, <1>5 DEF TypeInv, TypeOK, CallersTyped, store
<1>7. ASSUME NEW soft \in SUBSET w.tr.soft, NEW k \in {"evidence", "save"},
             NEW evs \in {<<>>, <<Ev("guard_soft", w.id, w.from)>>},
             Emits(c, [w EXCEPT !.warnings = soft], evs, k), UNCHANGED outcome
      PROVE  TypeInv'
  <2> DEFINE v == [w EXCEPT !.warnings = soft]
  <2>1. v \in Call /\ v.op = w.op /\ v.tr = w.tr /\ v.actor = w.actor
    BY <1>2, <1>3 DEF Call
  <2>2. evs \in Seq(Event)
    BY <1>4, SoftEvents
  <2>3. Emits(c, v, evs, k)
    BY <1>7
  <2> HIDE DEF v
  <2>4. CallersTyped'
    BY <1>2, <2>1, <2>2, <2>3, EmitsTypes
  <2> QED
    BY <2>4, <1>5, <1>7 DEF TypeInv, TypeOK, CallersTyped, store
<1>8. ASSUME NEW first \in {<<>>, <<Ev("guard_soft", w.id, w.from)>>},
             Emits(c, [w EXCEPT !.result = "guard_failed"],
                   first \o <<Ev("guard_hard", w.id, w.from),
                              Ev("blocked", w.id, w.tr.to)>>, "idle"),
             UNCHANGED outcome
      PROVE  TypeInv'
  <2> DEFINE v == [w EXCEPT !.result = "guard_failed"]
             hard == <<Ev("guard_hard", w.id, w.from), Ev("blocked", w.id, w.tr.to)>>
             evs == first \o hard
  <2>1. v \in Call /\ v.op = w.op /\ v.tr = w.tr /\ v.actor = w.actor
    BY <1>2 DEF Call, Outcomes, Refusals
  <2>2. first \in Seq(Event)
    BY <1>4, SoftEvents
  <2>3. Emits(c, v, evs, "idle")
    BY <1>8
  <2>4. evs \in Seq(Event) /\ evs # <<>>
    BY <1>4, <2>2, ThenTwo
  <2> HIDE DEF v, hard
  <2> HIDE DEF evs
  <2>5. CallersTyped'
    BY <1>2, <2>1, <2>3, <2>4, EmitsTypes
  <2> QED
    BY <2>5, <1>5, <1>8 DEF TypeInv, TypeOK, CallersTyped, store
<1> QED
  BY <1>6, <1>7, <1>8 DEF EvaluateGuards

LEMMA CommitEvidenceTypes ==
  ASSUME TypeInv, NEW c \in Callers, CommitEvidence(c)
  PROVE  TypeInv'
<1> DEFINE w == call[c]
<1>1. CallShape("evidence", w) /\ pc[c] = "evidence"
  BY DEF TypeInv, CommitEvidence
<1>2. /\ w \in Call /\ w.id \in CallIds /\ w.agg \in Aggregates
  BY <1>1 DEF CallShape, Call
<1>3. UNCHANGED <<instances, history, since, events, calls, faults>>
  BY DEF CommitEvidence
<1>4. CASE UNCHANGED snapshots /\ \E result \in Refusals : Returns(c, result)
  <2>1. CallersTyped' /\ outcome' \in [CallIds -> Outcomes]
    BY <1>1, <1>4, ReturnsTypes DEF Outcomes
  <2> QED
    BY <2>1, <1>3, <1>4 DEF TypeInv, TypeOK, CallersTyped
<1>5. CASE /\ snapshots' = snapshots \cup {[call |-> w.id, agg |-> w.agg]}
           /\ Enters(c, "save", [w EXCEPT !.snapshot = TRUE])
           /\ UNCHANGED outcome
  <2> DEFINE v == [w EXCEPT !.snapshot = TRUE]
  <2>1. /\ v \in Call /\ v.after = w.after /\ v.outbox = w.outbox /\ v.op = w.op
        /\ v.tr = w.tr /\ v.actor = w.actor
    BY <1>2 DEF Call
  <2>2. Enters(c, "save", v)
    BY <1>5
  <2> HIDE DEF v
  <2>3. CallShape("save", v)
    BY <1>1, <2>1 DEF CallShape, Heads
  <2>4. CallersTyped'
    BY <2>2, <2>3, EntersShape DEF CallersTyped, Locations
  <2>5. snapshots' \subseteq Snapshot
    BY <1>2, <1>5 DEF TypeInv, TypeOK, Snapshot
  <2> QED
    BY <2>4, <2>5, <1>3, <1>5 DEF TypeInv, TypeOK, CallersTyped
<1> QED
  BY <1>4, <1>5 DEF CommitEvidence, Refusals

LEMMA SaveInstanceTypes ==
  ASSUME TypeInv, NEW c \in Callers, SaveInstance(c)
  PROVE  TypeInv'
<1> DEFINE w == call[c]
<1>1. CallShape("save", w) /\ pc[c] = "save"
  BY DEF TypeInv, SaveInstance
<1>2. /\ w \in Call /\ w.id \in CallIds /\ w.agg \in Aggregates
      /\ w.write \in LoopInstance /\ w.from \in StateIds
  BY <1>1 DEF CallShape, Call
<1>3. instances' \in [Aggregates -> LoopInstance \cup {NoInstance}]
  BY <1>2 DEF TypeInv, TypeOK, SaveInstance
<1>4. since' \in [Aggregates -> Nat]
  <2>1. Len(history[w.agg]) \in Nat
    BY <1>2, LenProperties DEF TypeInv, TypeOK
  <2> QED
    BY <2>1 DEF TypeInv, TypeOK, SaveInstance
<1>5. CallersTyped'
  <2>1. CASE w.op = "transition"
    <3>1. Enters(c, "record", w)
      BY <2>1 DEF SaveInstance
    <3>2. CallShape("record", w)
      BY <1>1, <2>1 DEF CallShape, Heads
    <3> QED
      BY <3>1, <3>2, EntersShape DEF CallersTyped, Locations
  <2>2. CASE w.op # "transition"
    <3> DEFINE v == [w EXCEPT !.result = Announced(w.op)]
               evs == <<Ev(Announced(w.op), w.id, w.from)>>
    <3>1. Announced(w.op) \in {"started", "cancelled", "failed"}
      BY DEF Announced
    <3>2. v \in Call /\ v.op = w.op
      BY <1>2, <3>1 DEF Call, Outcomes
    <3>3. Ev(Announced(w.op), w.id, w.from) \in Event
      BY <1>2, <3>1 DEF Ev, Event, EventTypes
    <3>4. evs \in Seq(Event) /\ evs # <<>>
      BY <3>3
    <3>5. Emits(c, v, evs, "idle")
      BY <2>2 DEF SaveInstance
    <3> HIDE DEF v, evs
    <3> QED
      BY <2>2, <3>2, <3>4, <3>5, EmitsTypes
  <2> QED
    BY <2>1, <2>2
<1> QED
  BY <1>3, <1>4, <1>5 DEF TypeInv, TypeOK, CallersTyped, SaveInstance

LEMMA RecordOfType ==
  ASSUME NEW w, CallShape("record", w)
  PROVE  RecordOf(w) \in TransitionRecord
<1>1. /\ w \in Call /\ w.op = "transition" /\ w.tr \in TransitionSpecs
      /\ w.actor \in ActorTypes
  BY DEF CallShape
<1>2. /\ w.id \in CallIds /\ w.write \in LoopInstance /\ w.from \in StateIds
      /\ w.warnings \in SUBSET GuardIds /\ w.snapshot \in BOOLEAN
  BY <1>1 DEF Call
<1>3. w.write.loop \in DOMAIN Definitions
  BY <1>2 DEF LoopInstance
<1>4. w.tr.id \in TransitionIds /\ w.tr.to \in StateIds
  BY <1>1 DEF TransitionSpecs
<1> QED
  BY <1>1, <1>2, <1>3, <1>4 DEF RecordOf, TransitionRecord

LEMMA SaveRecordTypes ==
  ASSUME TypeInv, NEW c \in Callers, SaveRecord(c)
  PROVE  TypeInv'
<1> DEFINE w == call[c]
           done == IF w.write.status = "completed"
                     THEN <<Ev("completed", w.id, w.write.state)>> ELSE <<>>
           first == <<Ev("executed", w.id, w.tr.to)>>
           v == [w EXCEPT !.result = "executed"]
<1>1. CallShape("record", w) /\ pc[c] = "record"
  BY DEF TypeInv, SaveRecord
<1>2. /\ w \in Call /\ w.id \in CallIds /\ w.agg \in Aggregates
      /\ w.write.state \in StateIds
      /\ w.op = "transition" /\ w.tr \in TransitionSpecs /\ w.actor \in ActorTypes
  BY <1>1 DEF CallShape, Call, LoopInstance, Heads
<1>3. history' \in [Aggregates -> Seq(TransitionRecord)]
  <2>1. Append(history[w.agg], RecordOf(w)) \in Seq(TransitionRecord)
    BY <1>1, <1>2, RecordOfType, AppendProperties DEF TypeInv, TypeOK
  <2> QED
    BY <2>1 DEF TypeInv, TypeOK, SaveRecord
<1>4. CallersTyped'
  <2>1. v \in Call /\ v.op = w.op /\ v.tr = w.tr /\ v.actor = w.actor
    BY <1>2 DEF Call, Outcomes
  <2>2. /\ Ev("executed", w.id, w.tr.to) \in Event
        /\ Ev("completed", w.id, w.write.state) \in Event
    BY <1>2 DEF Ev, Event, EventTypes, TransitionSpecs
  <2>3. done \in Seq(Event)
    BY <2>2, EmptySeq
  <2>5. Emits(c, v, first \o done, "idle")
    BY DEF SaveRecord
  <2>6. first \o done \in Seq(Event) /\ first \o done # <<>>
    BY <2>2, <2>3, OneThen
  <2> HIDE DEF v, first, done
  <2> QED
    BY <1>2, <2>1, <2>5, <2>6, EmitsTypes
<1> QED
  BY <1>3, <1>4 DEF TypeInv, TypeOK, CallersTyped, SaveRecord

LEMMA DeliverTypes ==
  ASSUME TypeInv, NEW c \in Callers, Deliver(c)
  PROVE  TypeInv'
<1> DEFINE w == call[c]
<1>1. CallShape("emit", w) /\ pc[c] = "emit"
  BY DEF TypeInv, Deliver
<1>2. w.outbox \in Seq(Event) /\ w.outbox # <<>> /\ w.agg \in Aggregates
  BY <1>1 DEF CallShape, Call
<1>3. Append(events[w.agg], Head(w.outbox)) \in Seq(Event)
  BY <1>2, HeadTailProperties, AppendProperties DEF TypeInv, TypeOK
<1>4. events' \in [Aggregates -> Seq(Event)]
  BY <1>3 DEF TypeInv, TypeOK, Deliver
<1>5. CallersTyped' /\ outcome' \in [CallIds -> Outcomes]
  BY <1>1, EmitSettlesTypes DEF Deliver
<1> QED
  BY <1>4, <1>5 DEF TypeInv, TypeOK, CallersTyped, Deliver, store

LEMMA LoseEventTypes ==
  ASSUME TypeInv, NEW c \in Callers, LoseEvent(c)
  PROVE  TypeInv'
<1>1. CallersTyped' /\ outcome' \in [CallIds -> Outcomes]
  BY EmitSettlesTypes DEF LoseEvent
<1>2. faults' \in 0 .. MaxFaults
  BY DEF TypeInv, TypeOK, LoseEvent
<1> QED
  BY <1>1, <1>2 DEF TypeInv, TypeOK, CallersTyped, LoseEvent, store

LEMMA AbortTypes ==
  ASSUME TypeInv, NEW c \in Callers, Abort(c)
  PROVE  TypeInv'
<1>1. CallersTyped' /\ outcome' \in [CallIds -> Outcomes]
  BY ReturnsTypes DEF Abort, Outcomes
<1>2. faults' \in 0 .. MaxFaults
  BY DEF TypeInv, TypeOK, Abort
<1> QED
  BY <1>1, <1>2 DEF TypeInv, TypeOK, CallersTyped, Abort, store

LEMMA StutterTypes ==
  ASSUME TypeInv, UNCHANGED vars
  PROVE  TypeInv'
BY DEF TypeInv, TypeOK, CallShape, Heads, vars

LEMMA InitTypes == Init => TypeInv
BY EmptySeq DEF Init, TypeInv, TypeOK, Locations, Outcomes

LEMMA NextTypes ==
  ASSUME TypeInv, [Next]_vars
  PROVE  TypeInv'
<1>1. ASSUME NEW c \in Callers, NEW a \in Aggregates, NEW l \in LoopIds,
             StartCall(c, a, l)
      PROVE  TypeInv'
  BY <1>1, StartCallTypes
<1>2. ASSUME NEW c \in Callers, NEW a \in Aggregates, NEW t \in TransitionIds,
             NEW actor \in ActorTypes, NEW constrained \in BOOLEAN,
             \/ TransitionRefused(c, a, t, actor, constrained)
             \/ TransitionRequested(c, a, t, actor, constrained)
      PROVE  TypeInv'
  BY <1>2, TransitionRefusedTypes, TransitionRequestedTypes
<1>3. ASSUME NEW c \in Callers, NEW a \in Aggregates, CancelCall(c, a) \/ FailCall(c, a)
      PROVE  TypeInv'
  BY <1>3, CloseCallTypes DEF CancelCall, FailCall, LoopStatuses
<1>4. ASSUME NEW c \in Callers,
             \/ EvaluateGuards(c) \/ CommitEvidence(c) \/ SaveInstance(c)
             \/ SaveRecord(c) \/ Deliver(c) \/ LoseEvent(c) \/ Abort(c)
      PROVE  TypeInv'
  BY <1>4, EvaluateGuardsTypes, CommitEvidenceTypes, SaveInstanceTypes,
     SaveRecordTypes, DeliverTypes, LoseEventTypes, AbortTypes
<1>5. CASE UNCHANGED vars
  BY <1>5, StutterTypes
<1> QED
  BY <1>1, <1>2, <1>3, <1>4, <1>5 DEF Next

(* Every reachable state has the types of TypeOK, and every call in flight *)
(* the locals of the await it is at.                                       *)
THEOREM TypeCorrect == Spec => []TypeOK
<1>1. Spec => []TypeInv
  BY InitTypes, NextTypes, PTL DEF Spec
<1>2. TypeInv => TypeOK
  BY DEF TypeInv
<1> QED
  BY <1>1, <1>2, PTL

-----------------------------------------------------------------------------
(* What a step does to the locals of the calls.                            *)

(* What a call read and decided at its first step it keeps to its end.     *)
SameCall(v, w) ==
  /\ v.id = w.id /\ v.op = w.op /\ v.agg = w.agg /\ v.from = w.from
  /\ v.write = w.write /\ v.tr = w.tr /\ v.actor = w.actor

Others(c) == \A d \in Callers \ {c} : pc'[d] = pc[d] /\ call'[d] = call[d]

LEMMA EntersOthers ==
  ASSUME TypeInv, NEW c \in Callers, NEW k, NEW w, Enters(c, k, w)
  PROVE  Others(c) /\ pc'[c] = k /\ call'[c] = w
BY DEF Enters, Others, TypeInv, TypeOK

LEMMA EmitsOthers ==
  ASSUME TypeInv, NEW c \in Callers, NEW w \in Call, NEW evs,
         NEW k \in {"idle", "guards", "evidence", "save"}, k = "idle" => evs # <<>>,
         Emits(c, w, evs, k)
  PROVE  /\ Others(c)
         /\ SameCall(call'[c], w) /\ call'[c].after = k
         /\ call'[c].warnings = w.warnings /\ call'[c].snapshot = w.snapshot
         /\ pc'[c] = IF evs = <<>> THEN k ELSE "emit"
<1> DEFINE v == [w EXCEPT !.outbox = evs, !.after = k]
<1>1. /\ SameCall(v, w) /\ v.after = k
      /\ v.warnings = w.warnings /\ v.snapshot = w.snapshot
  BY DEF Call, SameCall
<1>2. Enters(c, IF evs = <<>> THEN k ELSE "emit", v)
  BY DEF Emits
<1> HIDE DEF v
<1> QED
  BY <1>1, <1>2, EntersOthers

LEMMA EmitSettlesOthers ==
  ASSUME TypeInv, NEW c \in Callers, pc[c] = "emit", EmitSettles(c)
  PROVE  /\ Others(c)
         /\ pc'[c] # "idle" =>
              /\ SameCall(call'[c], call[c])
              /\ call'[c].warnings = call[c].warnings
              /\ call'[c].snapshot = call[c].snapshot
              /\ \/ pc'[c] = "emit" /\ call'[c].after = call[c].after
                 \/ pc'[c] = call[c].after
<1> DEFINE w == call[c]
           v(tail) == [w EXCEPT !.outbox = tail]
<1>1. w \in Call
  BY DEF TypeInv, CallShape
<1>2. ASSUME NEW tail
      PROVE  /\ SameCall(v(tail), w) /\ v(tail).after = w.after
             /\ v(tail).warnings = w.warnings /\ v(tail).snapshot = w.snapshot
  BY <1>1 DEF Call, SameCall
<1>3. CASE Enters(c, "emit", v(Tail(w.outbox)))
  <2> HIDE DEF v
  <2> QED
    BY <1>2, <1>3, EntersOthers
<1>4. CASE Enters(c, "idle", NoCall)
  BY <1>4, EntersOthers
<1>5. CASE Enters(c, w.after, v(<<>>))
  <2> HIDE DEF v
  <2> QED
    BY <1>2, <1>5, EntersOthers
<1> QED
  BY <1>3, <1>4, <1>5 DEF EmitSettles, Returns

(* EvaluateGuards records the soft failures as warnings, and heads for the *)
(* save only if the evidence is not governed.                              *)
LEMMA EvaluateGuardsOthers ==
  ASSUME TypeInv, NEW c \in Callers, EvaluateGuards(c)
  PROVE  /\ Others(c)
         /\ pc'[c] # "idle" =>
              /\ SameCall(call'[c], call[c])
              /\ \/ call'[c].warnings = call[c].warnings
                 \/ call'[c].warnings \subseteq call[c].tr.soft
              /\ call'[c].snapshot = call[c].snapshot
              /\ pc'[c] # "record"
              /\ Heads(pc'[c], call'[c], "save") =>
                   ~ RequiresGovernedEvidence(call[c].write.loop, call[c].tr)
<1> DEFINE w == call[c]
           next == IF RequiresGovernedEvidence(w.write.loop, w.tr)
                     THEN "evidence" ELSE "save"
<1>1. w \in Call
  BY DEF TypeInv, CallShape, EvaluateGuards
<1>2. CASE Returns(c, "threw")
  BY <1>2, EntersOthers DEF Returns
<1>3. ASSUME NEW soft \in SUBSET w.tr.soft, NEW evs,
             Emits(c, [w EXCEPT !.warnings = soft], evs, next)
      PROVE  /\ Others(c)
             /\ SameCall(call'[c], w) /\ call'[c].warnings = soft
             /\ call'[c].snapshot = w.snapshot
             /\ call'[c].after = next /\ pc'[c] \in {next, "emit"}
  <2> DEFINE v == [w EXCEPT !.warnings = soft]
  <2>1. SameCall(v, w) /\ v.warnings = soft /\ v.snapshot = w.snapshot
    BY <1>1 DEF Call, SameCall
  <2>2. v \in Call
    <3>1. w.tr \in TransitionSpecs
      BY DEF TypeInv, CallShape, Heads, EvaluateGuards
    <3>2. soft \subseteq GuardIds
      BY <3>1 DEF TransitionSpecs
    <3> QED
      BY <1>1, <3>2 DEF Call
  <2>3. Emits(c, v, evs, next)
    BY <1>3
  <2> HIDE DEF v
  <2>4. /\ Others(c) /\ SameCall(call'[c], v) /\ call'[c].after = next
        /\ call'[c].warnings = v.warnings /\ call'[c].snapshot = v.snapshot
        /\ pc'[c] = IF evs = <<>> THEN next ELSE "emit"
    BY <2>2, <2>3, EmitsOthers
  <2> QED
    BY <2>1, <2>4 DEF SameCall
<1>4. ASSUME NEW evs, evs # <<>>,
             Emits(c, [w EXCEPT !.result = "guard_failed"], evs, "idle")
      PROVE  /\ Others(c)
             /\ SameCall(call'[c], w) /\ call'[c].warnings = w.warnings
             /\ call'[c].snapshot = w.snapshot
             /\ call'[c].after = "idle" /\ pc'[c] = "emit"
  <2> DEFINE v == [w EXCEPT !.result = "guard_failed"]
  <2>1. SameCall(v, w) /\ v.warnings = w.warnings /\ v.snapshot = w.snapshot
    BY <1>1 DEF Call, SameCall
  <2>2. v \in Call
    BY <1>1 DEF Call, Outcomes, Refusals
  <2>3. Emits(c, v, evs, "idle")
    BY <1>4
  <2> HIDE DEF v
  <2>4. /\ Others(c) /\ SameCall(call'[c], v) /\ call'[c].after = "idle"
        /\ call'[c].warnings = v.warnings /\ call'[c].snapshot = v.snapshot
        /\ pc'[c] = "emit"
    BY <1>4, <2>2, <2>3, EmitsOthers
  <2> QED
    BY <2>1, <2>4 DEF SameCall
<1>5. CASE \E soft \in SUBSET w.tr.soft : \E evs :
             Emits(c, [w EXCEPT !.warnings = soft], evs, next)
  <2>1. PICK soft \in SUBSET w.tr.soft :
          \E evs : Emits(c, [w EXCEPT !.warnings = soft], evs, next)
    BY <1>5
  <2>2. PICK evs : Emits(c, [w EXCEPT !.warnings = soft], evs, next)
    BY <2>1
  <2>3. /\ Others(c)
        /\ SameCall(call'[c], w) /\ call'[c].warnings = soft
        /\ call'[c].snapshot = w.snapshot
        /\ call'[c].after = next /\ pc'[c] \in {next, "emit"}
    BY <1>3, <2>2
  <2> QED
    BY <2>3 DEF Heads
<1>6. CASE \E evs : /\ evs # <<>>
                    /\ Emits(c, [w EXCEPT !.result = "guard_failed"], evs, "idle")
  BY <1>4, <1>6 DEF Heads
<1>7. ASSUME NEW first \in {<<>>, <<Ev("guard_soft", w.id, w.from)>>}
      PROVE  first \o <<Ev("guard_hard", w.id, w.from),
                        Ev("blocked", w.id, w.tr.to)>> # <<>>
  <2>1. /\ Ev("guard_soft", w.id, w.from) \in Event
        /\ Ev("guard_hard", w.id, w.from) \in Event
        /\ Ev("blocked", w.id, w.tr.to) \in Event
    BY DEF TypeInv, CallShape, Heads, Call, EvaluateGuards, Ev, Event, EventTypes,
           TransitionSpecs
  <2>2. first \in Seq(Event)
    BY <2>1, SoftEvents
  <2> QED
    BY <2>1, <2>2, ThenTwo
<1> QED
  BY <1>2, <1>5, <1>6, <1>7 DEF EvaluateGuards

(* CommitEvidence marks the call only when its batch is in the store.      *)
LEMMA CommitEvidenceOthers ==
  ASSUME TypeInv, NEW c \in Callers, CommitEvidence(c)
  PROVE  /\ Others(c)
         /\ snapshots \subseteq snapshots'
         /\ pc'[c] # "idle" =>
              /\ SameCall(call'[c], call[c])
              /\ call'[c].warnings = call[c].warnings
              /\ call'[c].snapshot
              /\ [call |-> call[c].id, agg |-> call[c].agg] \in snapshots'
<1> DEFINE w == call[c]
           v == [w EXCEPT !.snapshot = TRUE]
<1>1. w \in Call
  BY DEF TypeInv, CallShape, CommitEvidence
<1>2. SameCall(v, w) /\ v.warnings = w.warnings /\ v.snapshot
  BY <1>1 DEF Call, SameCall
<1>3. CASE UNCHANGED snapshots /\ Enters(c, "idle", NoCall)
  BY <1>3, EntersOthers
<1>4. CASE /\ snapshots' = snapshots \cup {[call |-> w.id, agg |-> w.agg]}
           /\ Enters(c, "save", v)
  <2> HIDE DEF v
  <2> QED
    BY <1>2, <1>4, EntersOthers
<1> QED
  BY <1>3, <1>4 DEF CommitEvidence, Returns

(* SaveInstance writes what the call computed from what it read.           *)
LEMMA SaveInstanceOthers ==
  ASSUME TypeInv, NEW c \in Callers, SaveInstance(c)
  PROVE  /\ Others(c)
         /\ instances' = [instances EXCEPT ![call[c].agg] = call[c].write]
         /\ SameCall(call'[c], call[c])
         /\ call'[c].warnings = call[c].warnings
         /\ call'[c].snapshot = call[c].snapshot
         /\ \/ pc'[c] = "record"
            \/ pc'[c] = "emit" /\ call'[c].after = "idle"
<1> DEFINE w == call[c]
           v == [w EXCEPT !.result = Announced(w.op)]
           evs == <<Ev(Announced(w.op), w.id, w.from)>>
<1>1. w \in Call
  BY DEF TypeInv, CallShape, SaveInstance
<1>2. CASE Enters(c, "record", w)
  BY <1>2, EntersOthers DEF SaveInstance, SameCall
<1>3. CASE Emits(c, v, evs, "idle")
  <2>1. SameCall(v, w) /\ v.warnings = w.warnings /\ v.snapshot = w.snapshot
    BY <1>1 DEF Call, SameCall
  <2>2. v \in Call
    <3>1. Announced(w.op) \in Outcomes
      BY DEF Announced, Outcomes
    <3> QED
      BY <1>1, <3>1 DEF Call
  <2>3. evs # <<>>
    OBVIOUS
  <2> HIDE DEF v, evs
  <2>4. /\ Others(c) /\ SameCall(call'[c], v) /\ call'[c].after = "idle"
        /\ call'[c].warnings = v.warnings /\ call'[c].snapshot = v.snapshot
        /\ pc'[c] = "emit"
    BY <1>3, <2>2, <2>3, EmitsOthers
  <2> QED
    BY <2>1, <2>4 DEF SameCall, SaveInstance
<1> QED
  BY <1>2, <1>3 DEF SaveInstance

LEMMA SaveRecordOthers ==
  ASSUME TypeInv, NEW c \in Callers, SaveRecord(c)
  PROVE  /\ Others(c)
         /\ SameCall(call'[c], call[c])
         /\ call'[c].warnings = call[c].warnings
         /\ call'[c].snapshot = call[c].snapshot
         /\ pc'[c] = "emit" /\ call'[c].after = "idle"
<1> DEFINE w == call[c]
           v == [w EXCEPT !.result = "executed"]
           done == IF w.write.status = "completed"
                     THEN <<Ev("completed", w.id, w.write.state)>> ELSE <<>>
           evs == <<Ev("executed", w.id, w.tr.to)>> \o done
<1>1. CallShape("record", w)
  BY DEF TypeInv, SaveRecord
<1>2. /\ w \in Call /\ w.id \in CallIds /\ w.write.state \in StateIds
      /\ w.tr.to \in StateIds
  BY <1>1 DEF CallShape, Heads, Call, LoopInstance, TransitionSpecs
<1>3. SameCall(v, w) /\ v.warnings = w.warnings /\ v.snapshot = w.snapshot
  BY <1>2 DEF Call, SameCall
<1>4. v \in Call
  BY <1>2 DEF Call, Outcomes
<1>5. evs # <<>>
  <2>1. /\ Ev("executed", w.id, w.tr.to) \in Event
        /\ Ev("completed", w.id, w.write.state) \in Event
    BY <1>2 DEF Ev, Event, EventTypes
  <2>2. done \in Seq(Event)
    BY <2>1, EmptySeq
  <2> QED
    BY <2>1, <2>2, OneThen
<1>6. Emits(c, v, evs, "idle")
  BY DEF SaveRecord
<1> HIDE DEF v, evs
<1>7. /\ Others(c) /\ SameCall(call'[c], v) /\ call'[c].after = "idle"
      /\ call'[c].warnings = v.warnings /\ call'[c].snapshot = v.snapshot
      /\ pc'[c] = "emit"
  BY <1>4, <1>5, <1>6, EmitsOthers
<1> QED
  BY <1>3, <1>7 DEF SameCall

(* Any step of a call in flight.                                           *)
LEMMA ContinueKeepsCall ==
  ASSUME TypeInv, NEW c \in Callers,
         \/ EvaluateGuards(c) \/ CommitEvidence(c) \/ SaveInstance(c)
         \/ SaveRecord(c) \/ Deliver(c) \/ LoseEvent(c) \/ Abort(c)
  PROVE  /\ Others(c) /\ pc[c] # "idle"
         /\ pc'[c] # "idle" => SameCall(call'[c], call[c])
<1>1. CASE EvaluateGuards(c)
  BY <1>1, EvaluateGuardsOthers DEF EvaluateGuards
<1>2. CASE CommitEvidence(c)
  BY <1>2, CommitEvidenceOthers DEF CommitEvidence
<1>3. CASE SaveInstance(c)
  BY <1>3, SaveInstanceOthers DEF SaveInstance
<1>4. CASE SaveRecord(c)
  BY <1>4, SaveRecordOthers DEF SaveRecord
<1>5. CASE Deliver(c) \/ LoseEvent(c)
  BY <1>5, EmitSettlesOthers DEF Deliver, LoseEvent
<1>6. CASE Abort(c)
  BY <1>6, EntersOthers DEF Abort, Returns
<1> QED
  BY <1>1, <1>2, <1>3, <1>4, <1>5, <1>6

-----------------------------------------------------------------------------
(* What listOpenInstances returns is live.                                 *)

LEMMA NewInstanceIsLive ==
  ASSUME NEW l \in DOMAIN Definitions
  PROVE  IsLive(NewInstance(l))
BY DEF IsLive, NewInstance

LEMMA MovedIsLive ==
  ASSUME NEW inst \in LoopInstance, NEW tr \in TransitionSpecs, IsLive(inst),
         ~ IsClosed(inst)
  PROVE  IsLive(Moved(inst, tr))
<1>1. CASE IsTerminal(inst.loop, tr.to)
  BY <1>1 DEF IsLive, Moved, LoopInstance
<1>2. CASE ~ IsTerminal(inst.loop, tr.to)
  BY <1>2 DEF IsLive, Moved, LoopInstance, IsClosed
<1> QED
  BY <1>1, <1>2

LEMMA ClosedIsLive ==
  ASSUME NEW inst \in LoopInstance, NEW status \in {"cancelled", "failed"}
  PROVE  IsLive(Closed(inst, status))
BY DEF IsLive, Closed, LoopInstance

(* A call that begins writes a live instance, if it writes one.            *)
LEMMA BeginIsLive ==
  ASSUME LiveInv, NEW c \in Callers, NEW a, Begin(c, a), NEW k, NEW w,
         Enters(c, k, w), IsLive(w.write), UNCHANGED store, TypeInv'
  PROVE  LiveInv'
<1>1. Others(c) /\ call'[c] = w
  BY EntersOthers DEF LiveInv
<1>2. \A d \in Callers : pc'[d] # "idle" => IsLive(call'[d].write)
  BY <1>1 DEF LiveInv, Others
<1> QED
  BY <1>2 DEF LiveInv, store, IsLive

LEMMA ReturnsAtOnceIsLive ==
  ASSUME LiveInv, NEW c \in Callers, NEW result, ReturnsAtOnce(c, result), TypeInv'
  PROVE  LiveInv'
BY DEF LiveInv, ReturnsAtOnce, store, IsLive

LEMMA NewCallWrite ==
  ASSUME NEW op, NEW a, NEW from, NEW write
  PROVE  LET w == NewCall(op, a, from, write) IN
           w.write = write /\ w.op = op /\ ~ w.snapshot
BY DEF NewCall

LEMMA NextIsLive ==
  ASSUME LiveInv, [Next]_vars
  PROVE  LiveInv'
<1>t. TypeInv /\ TypeInv'
  BY NextTypes DEF LiveInv
<1>1. ASSUME NEW c \in Callers, NEW a \in Aggregates, NEW l \in LoopIds,
             StartCall(c, a, l)
      PROVE  LiveInv'
  <2>1. CASE ReturnsAtOnce(c, "threw")
    BY <1>t, <2>1, ReturnsAtOnceIsLive
  <2>2. CASE /\ l \in DOMAIN Definitions
             /\ Enters(c, "save",
                  NewCall("start", a, Definitions[l].initial, NewInstance(l)))
             /\ UNCHANGED store
    BY <1>t, <1>1, <2>2, NewInstanceIsLive, NewCallWrite, BeginIsLive DEF StartCall
  <2> QED
    BY <1>1, <2>1, <2>2 DEF StartCall
<1>2. ASSUME NEW c \in Callers, NEW a \in Aggregates, NEW t \in TransitionIds,
             NEW actor \in ActorTypes, NEW constrained \in BOOLEAN,
             TransitionRefused(c, a, t, actor, constrained)
      PROVE  LiveInv'
  <2>1. \E result : ReturnsAtOnce(c, result)
    BY <1>2 DEF TransitionRefused
  <2> QED
    BY <1>t, <2>1, ReturnsAtOnceIsLive
<1>3. ASSUME NEW c \in Callers, NEW a \in Aggregates, NEW t \in TransitionIds,
             NEW actor \in ActorTypes, NEW constrained \in BOOLEAN,
             TransitionRequested(c, a, t, actor, constrained)
      PROVE  LiveInv'
  <2> DEFINE inst == instances[a]
  <2>1. inst \in LoopInstance /\ ~ IsClosed(inst) /\ IsLive(inst)
    BY <1>t, <1>3 DEF TransitionRequested, LiveInv, TypeInv, TypeOK
  <2>2. PICK i \in DOMAIN Transitions(inst.loop) :
          Enters(c, "emit", RequestedCall(a, Transitions(inst.loop)[i], actor))
    BY <1>3 DEF TransitionRequested
  <2>3. Transitions(inst.loop)[i] \in TransitionSpecs
    BY <2>1, TransitionType DEF LoopInstance
  <2>4. RequestedCall(a, Transitions(inst.loop)[i], actor).write
          = Moved(inst, Transitions(inst.loop)[i])
    BY <1>t, <1>3, <2>3, RequestedCallType
       DEF TransitionRequested, TypeInv, Begin
  <2>5. Begin(c, a) /\ UNCHANGED store
    BY <1>3 DEF TransitionRequested
  <2> QED
    BY <1>t, <2>1, <2>2, <2>3, <2>4, <2>5, MovedIsLive, BeginIsLive
<1>4. ASSUME NEW c \in Callers, NEW a \in Aggregates, NEW op,
             NEW status \in {"cancelled", "failed"}, CloseCall(c, a, op, status)
      PROVE  LiveInv'
  <2>1. CASE ReturnsAtOnce(c, "threw")
    BY <1>t, <2>1, ReturnsAtOnceIsLive
  <2>2. CASE /\ instances[a] # NoInstance
             /\ Enters(c, "save", NewCall(op, a, instances[a].state,
                                          Closed(instances[a], status)))
             /\ UNCHANGED store
    <3>1. instances[a] \in LoopInstance
      BY <1>t, <2>2 DEF TypeInv, TypeOK
    <3> QED
      BY <1>t, <1>4, <2>2, <3>1, ClosedIsLive, NewCallWrite, BeginIsLive
         DEF CloseCall
  <2> QED
    BY <1>4, <2>1, <2>2 DEF CloseCall
<1>5. ASSUME NEW c \in Callers,
             \/ EvaluateGuards(c) \/ CommitEvidence(c) \/ SaveInstance(c)
             \/ SaveRecord(c) \/ Deliver(c) \/ LoseEvent(c) \/ Abort(c)
      PROVE  LiveInv'
  <2>1. \A d \in Callers : pc'[d] # "idle" => IsLive(call'[d].write)
    BY <1>t, <1>5, ContinueKeepsCall DEF Others, SameCall, LiveInv
  <2>2. CASE UNCHANGED instances
    BY <1>t, <2>1, <2>2 DEF LiveInv, IsLive
  <2>3. CASE SaveInstance(c)
    <3>1. /\ call[c].agg \in Aggregates /\ IsLive(call[c].write)
          /\ instances' = [instances EXCEPT ![call[c].agg] = call[c].write]
      BY <1>t, <2>3, SaveInstanceOthers
         DEF SaveInstance, LiveInv, TypeInv, CallShape, Call
    <3>2. \A a \in Aggregates : instances'[a] # NoInstance => IsLive(instances'[a])
      BY <1>t, <3>1 DEF LiveInv, TypeInv, TypeOK
    <3> QED
      BY <1>t, <2>1, <3>2 DEF LiveInv, IsLive
  <2> QED
    BY <1>5, <2>2, <2>3
       DEF EvaluateGuards, CommitEvidence, SaveRecord, Deliver, LoseEvent, Abort, store
<1>6. CASE UNCHANGED vars
  BY <1>t, <1>6 DEF LiveInv, IsLive, vars
<1> QED
  BY <1>1, <1>2, <1>3, <1>4, <1>5, <1>6 DEF Next, CancelCall, FailCall

(* Whatever calls overlap and whatever is lost, an instance that           *)
(* listOpenInstances returns has not ended, and a completed one is in a    *)
(* terminal state.                                                         *)
THEOREM OpenInstancesAreLive == Spec => []ListOpenIsLive
<1>1. Init => LiveInv
  BY InitTypes DEF Init, LiveInv
<1>2. LiveInv => ListOpenIsLive
  BY DEF LiveInv, ListOpenIsLive, ListOpenInstances, IsActive, IsLive
<1> QED
  BY <1>1, <1>2, NextIsLive, PTL DEF Spec

-----------------------------------------------------------------------------
(* The history is lawful.                                                  *)

LEMMA RecordIsLawful ==
  ASSUME NEW w, CallShape("record", w), CallIsLawful("record", w)
  PROVE  /\ IsLawful(RecordOf(w))
         /\ RecordOf(w).snapshot =>
              [call |-> RecordOf(w).call, agg |-> w.agg] \in snapshots
<1> DEFINE r == RecordOf(w)
<1>1. /\ r.call = w.id /\ r.loop = w.write.loop /\ r.tid = w.tr.id /\ r.from = w.from
      /\ r.to = w.tr.to /\ r.actor = w.actor /\ r.warnings = w.warnings
      /\ r.snapshot = w.snapshot
  BY DEF RecordOf
<1>2. w.op = "transition"
  BY DEF CallShape
<1>3. PICK i \in DOMAIN Transitions(w.write.loop) :
        w.tr = Transitions(w.write.loop)[i]
  BY <1>2 DEF CallIsLawful
<1> HIDE DEF r
<1>4. IsLawful(r)
  BY <1>1, <1>2, <1>3 DEF IsLawful, CallIsLawful
<1>5. r.snapshot => [call |-> r.call, agg |-> w.agg] \in snapshots
  BY <1>1 DEF CallIsLawful
<1> QED
  BY <1>4, <1>5 DEF r

(* The locals stay lawful while the snapshot store grows.                  *)
LEMMA LawfulStep ==
  ASSUME LawInv, TypeInv', NEW c \in Callers, Others(c),
         snapshots \subseteq snapshots', RecordsAreLawful',
         pc'[c] # "idle" => CallIsLawful(pc[c], call[c])'
  PROVE  LawInv'
<1>1. ASSUME NEW d \in Callers \ {c}, pc'[d] # "idle"
      PROVE  CallIsLawful(pc[d], call[d])'
  <2>1. pc'[d] = pc[d] /\ call'[d] = call[d]
    BY DEF Others
  <2>2. CallIsLawful(pc[d], call[d])
    BY <1>1, <2>1 DEF LawInv
  <2> QED
    BY <2>1, <2>2 DEF CallIsLawful, Heads
<1> QED
  BY <1>1 DEF LawInv

(* A step that writes no record keeps the history lawful.                  *)
LEMMA SameHistoryIsLawful ==
  ASSUME RecordsAreLawful, UNCHANGED history, snapshots \subseteq snapshots'
  PROVE  RecordsAreLawful'
BY DEF RecordsAreLawful, Positions

(* A step of a call that keeps its locals and where it heads.              *)
LEMMA SameCallIsLawful ==
  ASSUME NEW c \in Callers, CallIsLawful(pc[c], call[c]),
         SameCall(call'[c], call[c]), snapshots \subseteq snapshots',
         call'[c].warnings = call[c].warnings \/ call'[c].warnings \subseteq call[c].tr.soft,
         \/ call'[c].snapshot = call[c].snapshot
         \/ [call |-> call[c].id, agg |-> call[c].agg] \in snapshots',
         (Heads(pc'[c], call'[c], "save") \/ pc'[c] = "record")
           => \/ /\ Heads(pc[c], call[c], "save") \/ pc[c] = "record"
                 /\ call'[c].snapshot = call[c].snapshot
              \/ ~ RequiresGovernedEvidence(call[c].write.loop, call[c].tr)
              \/ call'[c].snapshot
  PROVE  CallIsLawful(pc[c], call[c])'
BY DEF CallIsLawful, SameCall

LEMMA ReturnsAtOnceIsLawful ==
  ASSUME LawInv, TypeInv', NEW c \in Callers, NEW result, ReturnsAtOnce(c, result)
  PROVE  LawInv'
<1>1. UNCHANGED <<history, snapshots, pc, call>>
  BY DEF ReturnsAtOnce, store
<1> QED
  BY <1>1, SameHistoryIsLawful DEF LawInv, CallIsLawful, Heads

(* A call that begins with lawful locals.                                  *)
LEMMA BeginIsLawful ==
  ASSUME LawInv, TypeInv', NEW c \in Callers, NEW k, NEW w, Enters(c, k, w),
         CallIsLawful(k, w), UNCHANGED store
  PROVE  LawInv'
<1>1. Others(c) /\ pc'[c] = k /\ call'[c] = w
  BY EntersOthers DEF LawInv
<1>2. UNCHANGED <<history, snapshots>>
  BY DEF store
<1>3. CallIsLawful(pc[c], call[c])'
  BY <1>1, <1>2 DEF CallIsLawful, Heads
<1>4. RecordsAreLawful'
  BY <1>2, SameHistoryIsLawful DEF LawInv
<1> QED
  BY <1>1, <1>2, <1>3, <1>4, LawfulStep

(* A call that makes no transition has nothing to answer for.              *)
LEMMA NewCallIsLawful ==
  ASSUME NEW op \in Operations \ {"transition"}, NEW a, NEW from, NEW write, NEW k
  PROVE  CallIsLawful(k, NewCall(op, a, from, write))
BY NewCallWrite DEF CallIsLawful

LEMMA TransitionRequestedIsLawful ==
  ASSUME LawInv, TypeInv', NEW c \in Callers, NEW a, NEW t,
         NEW actor \in ActorTypes, NEW constrained,
         TransitionRequested(c, a, t, actor, constrained)
  PROVE  LawInv'
<1> DEFINE inst == instances[a]
<1>1. /\ inst \in LoopInstance /\ ~ IsClosed(inst) /\ inst # NoInstance
      /\ a \in Aggregates /\ calls < MaxCalls /\ TypeOK
  BY DEF LawInv, TransitionRequested, Begin, TypeInv, TypeOK
<1>2. PICK i \in DOMAIN Transitions(inst.loop) :
        /\ IsFirstMatch(inst.loop, i, t, inst.state)
        /\ IsAuthorized(Transitions(inst.loop)[i], actor)
        /\ Enters(c, "emit", RequestedCall(a, Transitions(inst.loop)[i], actor))
  BY DEF TransitionRequested
<1> DEFINE tr == Transitions(inst.loop)[i]
           w == RequestedCall(a, tr, actor)
<1>3. tr \in TransitionSpecs
  BY <1>1, TransitionType DEF LoopInstance
<1>4. /\ w.after = "guards" /\ w.tr = tr /\ w.actor = actor /\ w.from = inst.state
      /\ w.write = Moved(inst, tr) /\ w.warnings = {} /\ ~ w.snapshot
  BY <1>1, <1>3, RequestedCallType
<1>5. w.write.loop = inst.loop
  BY <1>1, <1>3, <1>4, MovedType
<1>6. tr.from = inst.state /\ actor \in tr.actors /\ ~ IsTerminal(inst.loop, inst.state)
  BY <1>1, <1>2 DEF IsFirstMatch, IsAuthorized, IsClosed
<1>7. Enters(c, "emit", w) /\ w.tr = Transitions(w.write.loop)[i]
      /\ i \in DOMAIN Transitions(w.write.loop)
  BY <1>2, <1>4, <1>5
<1>8. UNCHANGED store
  BY DEF TransitionRequested
<1> HIDE DEF w, tr
<1>9. CallIsLawful("emit", w)
  BY <1>4, <1>5, <1>6, <1>7 DEF CallIsLawful, Heads
<1> QED
  BY <1>7, <1>8, <1>9, BeginIsLawful

LEMMA SaveRecordIsLawful ==
  ASSUME LawInv, TypeInv', NEW c \in Callers, SaveRecord(c)
  PROVE  LawInv'
<1> DEFINE w == call[c]
           r == RecordOf(w)
<1>1. CallShape("record", w) /\ CallIsLawful("record", w) /\ pc[c] = "record"
  BY DEF LawInv, TypeInv, SaveRecord
<1>2. /\ IsLawful(r)
      /\ r.snapshot => [call |-> r.call, agg |-> w.agg] \in snapshots
      /\ r \in TransitionRecord
  BY <1>1, RecordIsLawful, RecordOfType
<1>3. /\ history \in [Aggregates -> Seq(TransitionRecord)] /\ w.agg \in Aggregates
      /\ history' = [history EXCEPT ![w.agg] = Append(@, r)]
      /\ snapshots' = snapshots
  BY <1>1 DEF LawInv, TypeInv, TypeOK, CallShape, Call, SaveRecord
<1> HIDE DEF r
<1>4. ASSUME NEW a \in Aggregates, NEW i \in DOMAIN history'[a]
      PROVE  /\ IsLawful(history'[a][i])
             /\ history'[a][i].snapshot =>
                  [call |-> history'[a][i].call, agg |-> a] \in snapshots
  <2>1. CASE a # w.agg
    BY <1>3, <1>4, <2>1 DEF LawInv, RecordsAreLawful, Positions
  <2>2. CASE a = w.agg
    <3>1. history[a] \in Seq(TransitionRecord) /\ history'[a] = Append(history[a], r)
      BY <1>3, <2>2
    <3>2. i \in 1 .. Len(history[a]) + 1
      BY <1>2, <1>4, <3>1, AppendProperties, LenProperties
    <3>3. CASE i \in 1 .. Len(history[a])
      <4>1. history'[a][i] = history[a][i] /\ i \in DOMAIN history[a]
        BY <1>2, <3>1, <3>3, AppendProperties, LenProperties
      <4> QED
        BY <4>1 DEF LawInv, RecordsAreLawful, Positions
    <3>4. CASE i = Len(history[a]) + 1
      <4>1. history'[a][i] = r
        BY <1>2, <3>1, <3>4, AppendProperties
      <4> QED
        BY <1>2, <2>2, <4>1
    <3> QED
      BY <3>1, <3>2, <3>3, <3>4, LenProperties
  <2> QED
    BY <2>1, <2>2
<1>5. RecordsAreLawful'
  BY <1>3, <1>4 DEF RecordsAreLawful, Positions
<1>6. Others(c) /\ CallIsLawful(pc[c], call[c])'
  BY <1>1, <1>3, SaveRecordOthers, SameCallIsLawful DEF LawInv, Heads
<1> QED
  BY <1>3, <1>5, <1>6, LawfulStep

LEMMA ContinueIsLawful ==
  ASSUME LawInv, TypeInv', NEW c \in Callers,
         \/ EvaluateGuards(c) \/ CommitEvidence(c) \/ SaveInstance(c)
         \/ Deliver(c) \/ LoseEvent(c) \/ Abort(c)
  PROVE  LawInv'
<1>1. Others(c) /\ pc[c] # "idle"
  BY ContinueKeepsCall DEF LawInv
<1>2. CallIsLawful(pc[c], call[c]) /\ TypeInv
  BY <1>1 DEF LawInv
<1>3. UNCHANGED history /\ snapshots \subseteq snapshots'
  BY <1>2, CommitEvidenceOthers
     DEF EvaluateGuards, CommitEvidence, SaveInstance, Deliver, LoseEvent, Abort, store
<1>4. RecordsAreLawful'
  BY <1>3, SameHistoryIsLawful DEF LawInv
<1>5. ASSUME pc'[c] # "idle"
      PROVE  CallIsLawful(pc[c], call[c])'
  <2>1. CASE EvaluateGuards(c)
    BY <1>2, <1>3, <1>5, <2>1, EvaluateGuardsOthers, SameCallIsLawful
  <2>2. CASE CommitEvidence(c)
    BY <1>2, <1>3, <1>5, <2>2, CommitEvidenceOthers, SameCallIsLawful
  <2>3. CASE SaveInstance(c)
    BY <1>2, <1>3, <2>3, SaveInstanceOthers, SameCallIsLawful DEF Heads, SaveInstance
  <2>4. CASE Deliver(c) \/ LoseEvent(c)
    <3>1. call[c].after \in {"idle", "guards", "evidence", "save"} /\ pc[c] = "emit"
      BY <1>1, <1>2, <2>4 DEF TypeInv, CallShape, Deliver, LoseEvent
    <3>2. /\ SameCall(call'[c], call[c])
          /\ call'[c].warnings = call[c].warnings
          /\ call'[c].snapshot = call[c].snapshot
          /\ \/ pc'[c] = "emit" /\ call'[c].after = call[c].after
             \/ pc'[c] = call[c].after
      BY <1>2, <1>5, <2>4, EmitSettlesOthers DEF Deliver, LoseEvent
    <3>3. (Heads(pc'[c], call'[c], "save") \/ pc'[c] = "record")
            => Heads(pc[c], call[c], "save")
      BY <3>1, <3>2 DEF Heads
    <3> QED
      BY <1>2, <1>3, <3>2, <3>3, SameCallIsLawful
  <2>5. CASE Abort(c)
    BY <1>2, <1>5, <2>5, EntersOthers DEF Abort, Returns
  <2> QED
    BY <2>1, <2>2, <2>3, <2>4, <2>5
<1> QED
  BY <1>1, <1>3, <1>4, <1>5, LawfulStep

LEMMA NextIsLawful ==
  ASSUME LawInv, [Next]_vars
  PROVE  LawInv'
<1>t. TypeInv'
  BY NextTypes DEF LawInv
<1>1. ASSUME NEW c \in Callers, NEW a \in Aggregates, NEW l \in LoopIds,
             StartCall(c, a, l)
      PROVE  LawInv'
  <2>1. CASE ReturnsAtOnce(c, "threw")
    BY <1>t, <2>1, ReturnsAtOnceIsLawful
  <2>2. CASE /\ Enters(c, "save",
                  NewCall("start", a, Definitions[l].initial, NewInstance(l)))
             /\ UNCHANGED store
    BY <1>t, <2>2, NewCallIsLawful, BeginIsLawful DEF Operations
  <2> QED
    BY <1>1, <2>1, <2>2 DEF StartCall
<1>2. ASSUME NEW c \in Callers, NEW a \in Aggregates, NEW t \in TransitionIds,
             NEW actor \in ActorTypes, NEW constrained \in BOOLEAN,
             TransitionRefused(c, a, t, actor, constrained)
      PROVE  LawInv'
  <2>1. \E result : ReturnsAtOnce(c, result)
    BY <1>2 DEF TransitionRefused
  <2> QED
    BY <1>t, <2>1, ReturnsAtOnceIsLawful
<1>3. ASSUME NEW c \in Callers, NEW a \in Aggregates, NEW t \in TransitionIds,
             NEW actor \in ActorTypes, NEW constrained \in BOOLEAN,
             TransitionRequested(c, a, t, actor, constrained)
      PROVE  LawInv'
  BY <1>t, <1>3, TransitionRequestedIsLawful
<1>4. ASSUME NEW c \in Callers, NEW a \in Aggregates, NEW op \in {"cancel", "fail"},
             NEW status, CloseCall(c, a, op, status)
      PROVE  LawInv'
  <2>1. CASE ReturnsAtOnce(c, "threw")
    BY <1>t, <2>1, ReturnsAtOnceIsLawful
  <2>2. CASE /\ Enters(c, "save", NewCall(op, a, instances[a].state,
                                          Closed(instances[a], status)))
             /\ UNCHANGED store
    BY <1>t, <2>2, NewCallIsLawful, BeginIsLawful DEF Operations
  <2> QED
    BY <1>4, <2>1, <2>2 DEF CloseCall
<1>5. ASSUME NEW c \in Callers,
             \/ EvaluateGuards(c) \/ CommitEvidence(c) \/ SaveInstance(c)
             \/ SaveRecord(c) \/ Deliver(c) \/ LoseEvent(c) \/ Abort(c)
      PROVE  LawInv'
  BY <1>t, <1>5, ContinueIsLawful, SaveRecordIsLawful
<1>6. CASE UNCHANGED vars
  <2>1. UNCHANGED <<history, snapshots, pc, call>>
    BY <1>6 DEF vars
  <2> QED
    BY <1>t, <2>1, SameHistoryIsLawful DEF LawInv, CallIsLawful, Heads
<1> QED
  BY <1>1, <1>2, <1>3, <1>4, <1>5, <1>6 DEF Next, CancelCall, FailCall

(* Only SaveInstance takes a call from its first save to its second.       *)
LEMMA SaveToRecord ==
  ASSUME TypeInv, Next, NEW c \in Callers, pc[c] = "save", pc'[c] = "record"
  PROVE  call[c].op = "transition"
<1>1. ASSUME NEW d \in Callers, NEW a, Begin(d, a), NEW k, NEW w, Enters(d, k, w)
      PROVE  FALSE
  BY <1>1, EntersOthers DEF Begin, Others
<1>2. ASSUME NEW d \in Callers, NEW result, ReturnsAtOnce(d, result)
      PROVE  FALSE
  BY <1>2 DEF ReturnsAtOnce
<1>3. ASSUME NEW d \in Callers,
             \/ EvaluateGuards(d) \/ CommitEvidence(d) \/ SaveInstance(d)
             \/ SaveRecord(d) \/ Deliver(d) \/ LoseEvent(d) \/ Abort(d)
      PROVE  call[c].op = "transition"
  <2>1. d = c
    BY <1>3, ContinueKeepsCall DEF Others
  <2>2. SameCall(call'[c], call[c])
    BY <1>3, <2>1, ContinueKeepsCall
  <2>3. CallShape(pc[c], call[c])'
    BY NextTypes DEF TypeInv
  <2> QED
    BY <2>2, <2>3 DEF CallShape, SameCall
<1> QED
  BY <1>1, <1>2, <1>3
     DEF Next, StartCall, TransitionRefused, TransitionRequested, CancelCall,
         FailCall, CloseCall

LEMMA LawAlways == Spec => []LawInv
<1>1. Init => LawInv
  BY InitTypes DEF Init, LawInv, RecordsAreLawful, Positions
<1> QED
  BY <1>1, NextIsLawful, PTL DEF Spec

(* Every record in the history is a transition of its loop's definition,   *)
(* out of a state that is not terminal, by an actor of a listed type, and  *)
(* a governed one has its snapshots in the store.                          *)
THEOREM HistoryIsLawful == Spec => []RecordsAreLawful
<1>1. LawInv => RecordsAreLawful
  BY DEF LawInv
<1> QED
  BY <1>1, LawAlways, PTL

(* The stored instance makes a governed move only with the evidence of the *)
(* call that moves it already in the snapshot store.                       *)
THEOREM EvidencePrecedesMove == Spec => EvidenceFirst
<1> DEFINE Step ==
      \A c \in Callers :
        (/\ pc[c] = "save" /\ pc'[c] = "record"
         /\ RequiresGovernedEvidence(call[c].write.loop, call[c].tr))
        => [call |-> call[c].id, agg |-> call[c].agg] \in snapshots
<1>1. ASSUME LawInv, LawInv', Next
      PROVE  Step
  <2>1. ASSUME NEW c \in Callers, pc[c] = "save", pc'[c] = "record",
               RequiresGovernedEvidence(call[c].write.loop, call[c].tr)
        PROVE  [call |-> call[c].id, agg |-> call[c].agg] \in snapshots
    <3>1. call[c].op = "transition"
      BY <1>1, <2>1, SaveToRecord DEF LawInv
    <3>2. CallIsLawful(pc[c], call[c])
      BY <1>1, <2>1 DEF LawInv
    <3> QED
      BY <2>1, <3>1, <3>2 DEF CallIsLawful, Heads
  <2> QED
    BY <2>1
<1>2. LawInv /\ LawInv' /\ [Next]_vars => [Step]_vars
  BY <1>1
<1>3. Spec => [][Step]_vars
  BY <1>2, LawAlways, PTL DEF Spec
<1> QED
  BY <1>3 DEF EvidenceFirst
=============================================================================
