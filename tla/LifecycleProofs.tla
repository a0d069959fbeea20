---------------------------- MODULE LifecycleProofs ----------------------------
(***************************************************************************)
(* With calls that do not overlap on an aggregate (Isolated) and no fault  *)
(* (MaxFaults = 0), and for every set of callers, aggregates and           *)
(* definitions: the history replays to the stored state, a run completes   *)
(* once, and the engine implements LoopLifecycle.                          *)
(*                                                                         *)
(* The argument goes aggregate by aggregate: at most one call is in flight *)
(* on it, so what that call read is still what is stored (CallIsFresh),    *)
(* and a step disturbs nothing but its own aggregate (StepsAt).            *)
(***************************************************************************)
EXTENDS LoopAnswersProofs

-----------------------------------------------------------------------------
(* Replaying a history.                                                    *)

LEMMA ReplaysNothing ==
  ASSUME NEW h, NEW inst, Len(h) \in Nat, inst.state = Definitions[inst.loop].initial
  PROVE  ReplaysTo(h, Len(h), inst)
BY DEF ReplaysTo, Replays, ReplayedState

(* A replay sees the loop and the state of an instance only.               *)
LEMMA ReplaysToSame ==
  ASSUME NEW h, NEW k, NEW inst, NEW other, ReplaysTo(h, k, inst),
         other.loop = inst.loop, other.state = inst.state
  PROVE  ReplaysTo(h, k, other)
BY DEF ReplaysTo

(* A lawful record out of the replayed state extends the replay.           *)
LEMMA ReplaysOneMore ==
  ASSUME NEW h \in Seq(TransitionRecord), NEW r \in TransitionRecord, NEW k \in Nat,
         NEW inst, ReplaysTo(h, k, inst), r.from = inst.state,
         NEW next, next.loop = inst.loop, next.state = r.to,
         \E j \in DOMAIN Transitions(inst.loop) :
           /\ Transitions(inst.loop)[j].id = r.tid
           /\ Transitions(inst.loop)[j].from = r.from
           /\ Transitions(inst.loop)[j].to = r.to
  PROVE  ReplaysTo(Append(h, r), k, next)
<1>1. PICK l : l = inst.loop
  OBVIOUS
<1>2. PICK n \in Nat : n = Len(h)
  OBVIOUS
<1>3. PICK g : g = Append(h, r)
  OBVIOUS
<1>4. /\ Len(g) = n + 1 /\ g[n + 1] = r
      /\ \A i \in 1 .. n : g[i] = h[i]
  BY <1>2, <1>3, AppendProperties
<1>5. /\ k <= n /\ Replays(h, k, l) /\ ReplayedState(h, k, l) = r.from
  BY <1>1, <1>2 DEF ReplaysTo
<1>6. r.from = IF n + 1 = k + 1 THEN Definitions[l].initial ELSE g[n].to
  BY <1>2, <1>4, <1>5 DEF ReplayedState
<1>7. ASSUME NEW i \in (k + 1) .. (n + 1)
      PROVE  /\ g[i].from = IF i = k + 1 THEN Definitions[l].initial ELSE g[i - 1].to
             /\ \E j \in DOMAIN Transitions(l) :
                  /\ Transitions(l)[j].id = g[i].tid
                  /\ Transitions(l)[j].from = g[i].from
                  /\ Transitions(l)[j].to = g[i].to
  <2>1. CASE i = n + 1
    BY <1>1, <1>4, <1>6, <2>1
  <2>2. CASE i # n + 1
    <3>1. i \in (k + 1) .. Len(h) /\ g[i] = h[i]
      BY <1>2, <1>4, <2>2
    <3>2. i # k + 1 => g[i - 1] = h[i - 1]
      BY <1>2, <1>4, <2>2
    <3> QED
      BY <1>5, <3>1, <3>2 DEF Replays
  <2> QED
    BY <2>1, <2>2
<1>8. Replays(g, k, l)
  BY <1>4, <1>7 DEF Replays
<1>9. ReplayedState(g, k, l) = r.to
  BY <1>4, <1>5 DEF ReplayedState
<1> QED
  BY <1>1, <1>3, <1>4, <1>5, <1>8, <1>9 DEF ReplaysTo

-----------------------------------------------------------------------------
(* Calls that do not overlap.                                              *)

(* Caller c takes a step on its aggregate b.                               *)
StepsAt(c, b) ==
  /\ b \in Serves[c] /\ b \in Aggregates
  /\ Others(c)
  /\ pc[c] # "idle" => call[c].agg = b
  /\ pc'[c] # "idle" => call'[c].agg = b
  /\ \A a \in Aggregates \ {b} :
       instances'[a] = instances[a] /\ history'[a] = history[a] /\ since'[a] = since[a]

LEMMA NobodyElse ==
  ASSUME ReplayInv, Isolated, NEW c \in Callers, NEW b \in Serves[c],
         NEW d \in Callers \ {c}, pc[d] # "idle"
  PROVE  call[d].agg # b
BY DEF ReplayInv, Isolated

(* Who may be between its saves on the aggregate of caller c.              *)
LEMMA PendingAt ==
  ASSUME ReplayInv, Isolated, NEW c \in Callers, NEW b \in Serves[c],
         pc[c] # "idle" => call[c].agg = b
  PROVE  Pending(b) = IF pc[c] = "record" THEN {c} ELSE {}
<1>1. \A d \in Callers \ {c} : d \notin Pending(b)
  BY NobodyElse DEF Pending
<1>2. c \in Pending(b) <=> pc[c] = "record"
  BY DEF Pending
<1> QED
  BY <1>1, <1>2 DEF Pending

LEMMA CallerFields ==
  ASSUME ReplayInv, AnswersInv, NEW c \in Callers, pc[c] # "idle", NEW w, w = call[c]
  PROVE  /\ w \in Call /\ w.agg \in Aggregates /\ w.agg \in Serves[c]
         /\ CallShape(pc[c], w) /\ CallIsLawful(pc[c], w) /\ CallIsFresh(pc[c], w)
         /\ CallIsHonest(pc[c], w)
         /\ w.result # "none" => pc[c] = "emit" /\ w.after = "idle"
         /\ TypeInv /\ TypeOK
BY CallFields DEF ReplayInv, LawInv, CallIsHonest

(* What is left to show of a step.                                         *)
LEMMA ReplayStep ==
  ASSUME ReplayInv, Isolated, LawInv', AnswersInv', NEW c \in Callers, NEW b, StepsAt(c, b),
         since'[b] <= Len(history'[b]),
         (instances'[b] # NoInstance /\ pc'[c] # "record")
           => ReplaysTo(history'[b], since'[b], instances'[b]),
         pc'[c] # "idle" => CallIsFresh(pc[c], call[c])'
  PROVE  ReplayInv'
<1>1. ASSUME NEW a \in Aggregates
      PROVE  /\ since'[a] <= Len(history'[a])
             /\ (instances'[a] # NoInstance /\ Pending(a)' = {})
                  => ReplaysTo(history'[a], since'[a], instances'[a])
  <2>1. CASE a = b
    <3>1. Pending(b)' = {} => pc'[c] # "record"
      BY DEF Pending, StepsAt
    <3> QED
      BY <2>1, <3>1
  <2>2. CASE a # b
    <3>1. Pending(a)' = {} => Pending(a) = {}
      BY <2>2 DEF Pending, StepsAt, Others
    <3>2. instances'[a] = instances[a] /\ history'[a] = history[a] /\ since'[a] = since[a]
      BY <2>2 DEF StepsAt
    <3> QED
      BY <3>1, <3>2 DEF ReplayInv
  <2> QED
    BY <2>1, <2>2
<1>2. ASSUME NEW d \in Callers, pc'[d] # "idle"
      PROVE  /\ call'[d].agg \in Serves[d]
             /\ call'[d].result # "none" => pc'[d] = "emit" /\ call'[d].after = "idle"
             /\ CallIsFresh(pc[d], call[d])'
  <2>1. call'[d].result # "none" => pc'[d] = "emit" /\ call'[d].after = "idle"
    BY <1>2 DEF AnswersInv, CallIsHonest
  <2>2. CASE d = c
    BY <1>2, <2>1, <2>2 DEF StepsAt
  <2>3. CASE d # c
    <3>1. PICK w, k : w = call[d] /\ w = call'[d] /\ k = pc[d] /\ k = pc'[d]
      BY <2>3 DEF StepsAt, Others
    <3>2. w.agg \in Serves[d] /\ CallIsFresh(k, w)
      BY <1>2, <3>1 DEF ReplayInv
    <3>3. w.agg # b /\ w.agg \in Aggregates
      <4>1. b \in Serves[c] /\ pc[d] # "idle"
        BY <1>2, <3>1 DEF StepsAt
      <4>2. call[d].agg # b
        BY <2>3, <4>1, NobodyElse
      <4>3. Serves[d] \subseteq Aggregates
        BY EngineAssumption
      <4> QED
        BY <3>1, <3>2, <4>2, <4>3
    <3>4. /\ instances'[w.agg] = instances[w.agg] /\ history'[w.agg] = history[w.agg]
          /\ since'[w.agg] = since[w.agg]
      BY <3>3 DEF StepsAt
    <3>5. CallIsFresh(k, w)'
      BY <3>2, <3>4 DEF CallIsFresh
    <3> QED
      BY <2>1, <3>1, <3>2, <3>5 DEF CallIsFresh
  <2> QED
    BY <2>2, <2>3
<1> QED
  BY <1>1, <1>2 DEF ReplayInv

(* A step that stores nothing and comes to no save.                        *)
LEMMA StoringNothing ==
  ASSUME ReplayInv, Isolated, LawInv', AnswersInv', NEW c \in Callers, NEW b, StepsAt(c, b),
         UNCHANGED <<instances, history, since>>, pc[c] # "record", pc'[c] # "record",
         pc'[c] # "idle" => CallIsFresh(pc[c], call[c])'
  PROVE  ReplayInv'
<1>1. Pending(b) = {}
  BY PendingAt DEF StepsAt
<1>2. /\ since[b] <= Len(history[b])
      /\ instances[b] # NoInstance => ReplaysTo(history[b], since[b], instances[b])
  BY <1>1 DEF ReplayInv, StepsAt
<1> QED
  BY <1>2, ReplayStep

-----------------------------------------------------------------------------
(* The actions.                                                            *)

LEMMA SameStoreReplays ==
  ASSUME ReplayInv, LawInv', UNCHANGED <<instances, history, since, pc, call>>
  PROVE  ReplayInv'
BY DEF ReplayInv, ReplaysTo, Pending, CallIsFresh

LEMMA ReturnsAtOnceReplays ==
  ASSUME ReplayInv, LawInv', NEW c, NEW x, ReturnsAtOnce(c, x)
  PROVE  ReplayInv'
BY SameStoreReplays DEF ReturnsAtOnce, store

LEMMA BeginReplays ==
  ASSUME ReplayInv, Isolated, LawInv', AnswersInv', NEW c \in Callers, NEW a,
         Begin(c, a), NEW k \in {"save", "emit"}, NEW w, Enters(c, k, w),
         UNCHANGED store, w.agg = a, CallIsFresh(k, w)
  PROVE  ReplayInv'
<1>1. TypeInv /\ pc[c] = "idle" /\ a \in Serves[c] /\ a \in Aggregates
  BY EngineAssumption DEF ReplayInv, LawInv, Begin
<1>2. /\ Others(c) /\ pc'[c] = k /\ call'[c] = w
      /\ UNCHANGED <<instances, history, since>>
  BY <1>1, EntersOthers DEF store
<1>3. StepsAt(c, a)
  BY <1>1, <1>2 DEF StepsAt
<1>4. CallIsFresh(k, w)'
  BY <1>2 DEF CallIsFresh
<1>5. CallIsFresh(pc[c], call[c])'
  BY <1>2, <1>4 DEF CallIsFresh
<1> QED
  BY <1>1, <1>2, <1>3, <1>5, StoringNothing

LEMMA StartCallReplays ==
  ASSUME ReplayInv, Isolated, LawInv', AnswersInv', NEW c \in Callers, NEW a, NEW l,
         StartCall(c, a, l)
  PROVE  ReplayInv'
<1>1. CASE ReturnsAtOnce(c, "threw")
  BY <1>1, ReturnsAtOnceReplays
<1>2. CASE /\ l \in DOMAIN Definitions /\ ~ IsActive(instances[a])
           /\ Enters(c, "save",
                NewCall("start", a, Definitions[l].initial, NewInstance(l)))
           /\ UNCHANGED store
  <2>1. PICK w : w = NewCall("start", a, Definitions[l].initial, NewInstance(l))
    OBVIOUS
  <2>2. w.agg = a /\ w.op = "start" /\ w.write = NewInstance(l)
    BY <2>1 DEF NewCall
  <2>3. CallIsFresh("save", w)
    BY <1>2, <2>2 DEF CallIsFresh
  <2>4. Enters(c, "save", w)
    BY <1>2, <2>1
  <2> QED
    BY <1>2, <2>2, <2>3, <2>4, BeginReplays DEF StartCall
<1> QED
  BY <1>1, <1>2 DEF StartCall

LEMMA CloseCallReplays ==
  ASSUME ReplayInv, Isolated, LawInv', AnswersInv', NEW c \in Callers, NEW a,
         NEW op \in {"cancel", "fail"}, NEW status \in {"cancelled", "failed"},
         CloseCall(c, a, op, status)
  PROVE  ReplayInv'
<1>1. CASE ReturnsAtOnce(c, "threw")
  BY <1>1, ReturnsAtOnceReplays
<1>2. CASE /\ instances[a] # NoInstance
           /\ Enters(c, "save",
                NewCall(op, a, instances[a].state, Closed(instances[a], status)))
           /\ UNCHANGED store
  <2>1. PICK w : w = NewCall(op, a, instances[a].state, Closed(instances[a], status))
    OBVIOUS
  <2>2. w.agg = a /\ w.op = op /\ w.write = Closed(instances[a], status)
    BY <2>1 DEF NewCall
  <2>3. CallIsFresh("save", w)
    BY <1>2, <2>2 DEF CallIsFresh
  <2>4. Enters(c, "save", w)
    BY <1>2, <2>1
  <2> QED
    BY <1>2, <2>2, <2>3, <2>4, BeginReplays DEF CloseCall
<1> QED
  BY <1>1, <1>2 DEF CloseCall

(* The locals of a transition call that was let in.                        *)
LetIn(c, a, w) ==
  /\ Enters(c, "emit", w) /\ w.agg = a /\ CallIsFresh("emit", w)
  /\ w.op = "transition"
  /\ \A i \in DOMAIN w.outbox : w.outbox[i].type = "requested"

LEMMA RequestedCallIsFresh ==
  ASSUME TypeInv, NEW c \in Callers, NEW a, NEW t, NEW actor \in ActorTypes,
         NEW constrained, TransitionRequested(c, a, t, actor, constrained)
  PROVE  \E w : LetIn(c, a, w)
<1>1. PICK inst : inst = instances[a]
  OBVIOUS
<1>2. /\ Begin(c, a) /\ inst # NoInstance /\ ~ IsClosed(inst) /\ a \in Aggregates
      /\ calls < MaxCalls /\ TypeOK
  BY <1>1, EngineAssumption DEF TransitionRequested, Begin, TypeInv
<1>3. inst \in LoopInstance
  BY <1>1, <1>2 DEF TypeOK
<1>4. PICK i \in DOMAIN Transitions(inst.loop) :
        Enters(c, "emit", RequestedCall(a, Transitions(inst.loop)[i], actor))
  BY <1>1 DEF TransitionRequested
<1>5. PICK tr \in TransitionSpecs : tr = Transitions(inst.loop)[i]
  BY <1>3, <1>4, TransitionType DEF LoopInstance
<1>6. PICK w : w = RequestedCall(a, tr, actor)
  OBVIOUS
<1>7. /\ w.id = calls + 1 /\ w.op = "transition" /\ w.agg = a
      /\ w.outbox = <<Ev("requested", calls + 1, tr.to)>>
  BY <1>1, <1>2, <1>6, RequestedCallFields
<1>8. w.tr = tr /\ w.from = inst.state /\ w.write = Moved(inst, tr)
  BY <1>1, <1>2, <1>3, <1>6, RequestedCallType
<1>9. CallIsFresh("emit", w)
  BY <1>1, <1>2, <1>7, <1>8 DEF CallIsFresh
<1>10. \A k \in DOMAIN w.outbox : w.outbox[k].type = "requested"
  <2>1. Ev("requested", calls + 1, tr.to).type = "requested"
    BY DEF Ev
  <2> QED
    BY <1>7, <2>1
<1>11. Enters(c, "emit", w)
  BY <1>4, <1>5, <1>6
<1>12. LetIn(c, a, w)
  BY <1>7, <1>9, <1>10, <1>11 DEF LetIn
<1> QED
  BY <1>12

LEMMA TransitionRequestedReplays ==
  ASSUME ReplayInv, Isolated, LawInv', AnswersInv', NEW c \in Callers, NEW a, NEW t,
         NEW actor \in ActorTypes, NEW constrained,
         TransitionRequested(c, a, t, actor, constrained)
  PROVE  ReplayInv'
<1>1. PICK w : LetIn(c, a, w)
  BY RequestedCallIsFresh DEF ReplayInv, LawInv
<1>2. Begin(c, a) /\ UNCHANGED store
  BY DEF TransitionRequested
<1> QED
  BY <1>1, <1>2, BeginReplays DEF LetIn

(* The step of a call that is on its way to its save, or only has events   *)
(* to announce.                                                            *)
LEMMA WaitingReplays ==
  ASSUME ReplayInv, AnswersInv, Isolated, LawInv', AnswersInv', NEW c \in Callers,
         EvaluateGuards(c) \/ CommitEvidence(c) \/ Deliver(c)
  PROVE  /\ ReplayInv' /\ StepsAt(c, call[c].agg) /\ UNCHANGED <<instances, history, since>>
         /\ pc[c] # "record" /\ pc'[c] # "record"
<1>1. PICK w : w = call[c]
  OBVIOUS
<1>2. /\ Others(c) /\ pc[c] # "idle"
      /\ pc'[c] # "idle" => SameCall(call'[c], w)
  BY <1>1, ContinueKeepsCall DEF ReplayInv, LawInv
<1>3. pc'[c] # "idle" => Resulting(call'[c], w)
  BY <1>1, ContinueResults
<1>4. /\ w.agg \in Aggregates /\ w.agg \in Serves[c] /\ CallIsFresh(pc[c], w)
      /\ CallShape(pc[c], w) /\ TypeInv
  BY <1>1, <1>2, CallerFields
<1>5. UNCHANGED <<instances, history, since>> /\ pc[c] # "record"
  BY DEF EvaluateGuards, CommitEvidence, Deliver, store
<1>6. pc'[c] # "record"
  <2>1. CASE EvaluateGuards(c)
    BY <1>4, <2>1, EvaluateGuardsOthers
  <2>2. CASE CommitEvidence(c)
    BY <1>4, <2>2, EntersOthers DEF CommitEvidence, Returns
  <2>3. CASE Deliver(c)
    BY <1>1, <1>4, <2>3, EmitSettlesOthers DEF Deliver, CallShape
  <2> QED
    BY <2>1, <2>2, <2>3
<1>7. StepsAt(c, w.agg)
  BY <1>1, <1>2, <1>4, <1>5 DEF StepsAt, SameCall
<1>8. ASSUME pc'[c] # "idle"
      PROVE  CallIsFresh(pc[c], call[c])'
  <2>1. PICK v : v = call'[c]
    OBVIOUS
  <2>2. SameCall(v, w) /\ (v.result = "none" => w.result = "none")
    BY <1>2, <1>3, <1>8, <2>1 DEF Resulting, Intended, Announced
  <2> QED
    BY <1>4, <1>5, <1>6, <2>1, <2>2 DEF CallIsFresh, SameCall
<1> QED
  BY <1>1, <1>5, <1>6, <1>7, <1>8, StoringNothing

(* The three saves.                                                        *)
LEMMA SaveInstanceReplays ==
  ASSUME ReplayInv, AnswersInv, Isolated, LawInv', AnswersInv', NEW c \in Callers,
         SaveInstance(c)
  PROVE  ReplayInv'
<1>1. PICK w : w = call[c]
  OBVIOUS
<1>2. PICK b : b = w.agg
  OBVIOUS
<1>3. PICK inst : inst = instances[b]
  OBVIOUS
<1>4. /\ pc[c] = "save" /\ w \in Call /\ b \in Aggregates /\ b \in Serves[c]
      /\ CallShape("save", w) /\ CallIsLawful("save", w) /\ CallIsFresh("save", w)
      /\ w.result = "none" /\ TypeInv /\ TypeOK
  BY <1>1, <1>2, CallerFields DEF SaveInstance
<1>5. /\ instances' = [instances EXCEPT ![b] = w.write]
      /\ since' = IF w.op = "start" THEN [since EXCEPT ![b] = Len(history[b])] ELSE since
      /\ UNCHANGED history
  BY <1>1, <1>2 DEF SaveInstance
<1>6. /\ instances'[b] = w.write /\ history'[b] = history[b]
      /\ since'[b] = IF w.op = "start" THEN Len(history[b]) ELSE since[b]
      /\ \A a \in Aggregates \ {b} :
           instances'[a] = instances[a] /\ history'[a] = history[a] /\ since'[a] = since[a]
  BY <1>4, <1>5 DEF TypeOK
<1>7. Others(c) /\ SameCall(call'[c], w)
  BY <1>1, <1>4, SaveInstanceOthers
<1>8. StepsAt(c, b)
  BY <1>1, <1>2, <1>4, <1>6, <1>7 DEF StepsAt, SameCall
<1>9. /\ since[b] <= Len(history[b]) /\ since[b] \in Nat /\ Len(history[b]) \in Nat
      /\ history[b] \in Seq(TransitionRecord)
      /\ inst # NoInstance => ReplaysTo(history[b], since[b], inst) /\ inst \in LoopInstance
  <2>1. Pending(b) = {}
    BY <1>1, <1>2, <1>4, PendingAt
  <2>2. history[b] \in Seq(TransitionRecord) /\ since[b] \in Nat
    BY <1>4 DEF TypeOK
  <2> QED
    BY <1>3, <1>4, <2>1, <2>2, LenProperties DEF ReplayInv, TypeOK
<1>10. w.op \in {"start", "cancel", "fail", "transition"}
  BY <1>4 DEF Call, Operations
<1>11. w.op # "transition" => pc'[c] = "emit" /\ call'[c].result # "none"
  <2>1. ASSUME w.op # "transition"
        PROVE  pc'[c] = "emit" /\ call'[c].result # "none"
    <3>1. PICK r : r = Announced(w.op)
      OBVIOUS
    <3>2. PICK u : u = [w EXCEPT !.result = r]
      OBVIOUS
    <3>3. u \in Call /\ u.result = r /\ r # "none"
      BY <1>4, <3>1, <3>2 DEF Call, Announced, Outcomes
    <3>4. PICK evs : evs = <<Ev(r, w.id, w.from)>>
      OBVIOUS
    <3>5. Emits(c, u, evs, "idle") /\ evs # <<>>
      BY <1>1, <2>1, <3>1, <3>2, <3>4 DEF SaveInstance
    <3> QED
      BY <1>4, <3>3, <3>5, EmitsFields
  <2> QED
    BY <2>1
<1>12. CASE w.op = "start"
  <2>1. PICK l \in DOMAIN Definitions : w.write = NewInstance(l)
    BY <1>4, <1>12 DEF CallIsFresh
  <2>2. w.write.state = Definitions[w.write.loop].initial
    BY <2>1 DEF NewInstance
  <2>3. ReplaysTo(history[b], Len(history[b]), w.write)
    BY <1>9, <2>2, ReplaysNothing
  <2>4. CallIsFresh(pc[c], call[c])'
    BY <1>11, <1>12 DEF CallIsFresh
  <2> QED
    BY <1>6, <1>8, <1>9, <1>12, <2>3, <2>4, ReplayStep
<1>13. CASE w.op \in {"cancel", "fail"}
  <2>1. PICK status \in {"cancelled", "failed"} : w.write = Closed(inst, status)
    BY <1>2, <1>3, <1>4, <1>13 DEF CallIsFresh
  <2>2. inst # NoInstance
    BY <1>2, <1>3, <1>4, <1>13 DEF CallIsFresh
  <2>3. w.write.loop = inst.loop /\ w.write.state = inst.state
    BY <1>9, <2>1, <2>2 DEF Closed, LoopInstance
  <2>4. ReplaysTo(history[b], since[b], w.write)
    BY <1>9, <2>2, <2>3, ReplaysToSame
  <2>5. CallIsFresh(pc[c], call[c])'
    BY <1>11, <1>13 DEF CallIsFresh
  <2> QED
    BY <1>6, <1>8, <1>9, <1>13, <2>4, <2>5, ReplayStep
<1>14. CASE w.op = "transition"
  <2>1. pc'[c] = "record" /\ call'[c] = w
    BY <1>1, <1>4, <1>14, EntersOthers DEF SaveInstance
  <2>2. /\ inst # NoInstance /\ w.from = inst.state /\ w.write = Moved(inst, w.tr)
        /\ w.tr \in TransitionSpecs
    BY <1>2, <1>3, <1>4, <1>14 DEF CallIsFresh, CallShape
  <2>3. w.write.loop = inst.loop /\ w.write.state = w.tr.to
    <3>1. inst \in LoopInstance
      BY <1>9, <2>2
    <3>2. Moved(inst, w.tr).loop = inst.loop
      BY <2>2, <3>1, MovedType
    <3>3. Moved(inst, w.tr).state = w.tr.to
      BY <3>1 DEF Moved, LoopInstance
    <3> QED
      BY <2>2, <3>2, <3>3
  <2>4. RecordOf(w) \in TransitionRecord
    <3>1. CallShape("record", w)
      BY <1>4, <1>14 DEF CallShape
    <3> QED
      BY <3>1, RecordOfType
  <2>5. PICK r \in TransitionRecord : r = RecordOf(w)
    BY <2>4
  <2>6. /\ r.from = inst.state /\ r.to = w.tr.to /\ r.tid = w.tr.id
    BY <2>2, <2>5 DEF RecordOf
  <2>7. \E j \in DOMAIN Transitions(inst.loop) :
          /\ Transitions(inst.loop)[j].id = r.tid
          /\ Transitions(inst.loop)[j].from = r.from
          /\ Transitions(inst.loop)[j].to = r.to
    <3>1. PICK j \in DOMAIN Transitions(inst.loop) : w.tr = Transitions(inst.loop)[j]
      BY <1>4, <1>14, <2>3 DEF CallIsLawful
    <3>2. w.tr.from = w.from
      BY <1>4, <1>14 DEF CallIsLawful
    <3> QED
      BY <2>2, <2>6, <3>1, <3>2
  <2>8. ReplaysTo(Append(history[b], r), since[b], w.write)
    BY <1>9, <2>2, <2>3, <2>6, <2>7, ReplaysOneMore
  <2>9. CallIsFresh("record", w)'
    BY <1>2, <1>6, <1>14, <2>5, <2>8 DEF CallIsFresh
  <2>10. CallIsFresh(pc[c], call[c])'
    BY <2>1, <2>9 DEF CallIsFresh
  <2> QED
    BY <1>6, <1>8, <1>9, <1>14, <2>1, <2>10, ReplayStep
<1> QED
  BY <1>10, <1>12, <1>13, <1>14

LEMMA SaveRecordReplays ==
  ASSUME ReplayInv, AnswersInv, Isolated, LawInv', AnswersInv', NEW c \in Callers,
         SaveRecord(c)
  PROVE  ReplayInv'
<1>1. PICK w : w = call[c]
  OBVIOUS
<1>2. PICK b : b = w.agg
  OBVIOUS
<1>3. /\ pc[c] = "record" /\ w \in Call /\ b \in Aggregates /\ b \in Serves[c]
      /\ CallShape("record", w) /\ CallIsFresh("record", w) /\ TypeInv /\ TypeOK
  BY <1>1, <1>2, CallerFields DEF SaveRecord
<1>4. PICK r \in TransitionRecord : r = RecordOf(w)
  BY <1>3, RecordOfType
<1>5. /\ history' = [history EXCEPT ![b] = Append(@, r)]
      /\ UNCHANGED <<instances, since>>
  BY <1>1, <1>2, <1>4 DEF SaveRecord
<1>6. /\ history'[b] = Append(history[b], r) /\ instances'[b] = instances[b]
      /\ since'[b] = since[b]
      /\ \A a \in Aggregates \ {b} :
           instances'[a] = instances[a] /\ history'[a] = history[a] /\ since'[a] = since[a]
  BY <1>3, <1>5 DEF TypeOK
<1>7. /\ Others(c) /\ SameCall(call'[c], w) /\ pc'[c] = "emit"
  BY <1>1, <1>3, SaveRecordOthers
<1>8. StepsAt(c, b)
  BY <1>1, <1>2, <1>3, <1>6, <1>7 DEF StepsAt, SameCall
<1>9. ReplaysTo(history'[b], since'[b], instances'[b]) /\ instances[b] = w.write
  BY <1>2, <1>3, <1>4, <1>6 DEF CallIsFresh
<1>10. since'[b] <= Len(history'[b])
  BY <1>9 DEF ReplaysTo
<1>11. call'[c].result # "none"
  <2>1. PICK u : u = [w EXCEPT !.result = "executed"]
    OBVIOUS
  <2>2. u \in Call /\ u.result = "executed"
    BY <1>3, <2>1 DEF Call, Outcomes
  <2>3. \E evs : Emits(c, u, evs, "idle")
    BY <1>1, <2>1 DEF SaveRecord
  <2> QED
    BY <1>3, <2>2, <2>3, EmitsFields
<1>12. CallIsFresh(pc[c], call[c])'
  BY <1>7, <1>11 DEF CallIsFresh
<1> QED
  BY <1>8, <1>9, <1>10, <1>12, ReplayStep

(* What a step is, when nothing fails.                                     *)
NoFaults == MaxFaults = 0

LEMMA FaultlessStep ==
  ASSUME TypeInv, NoFaults, [Next]_vars
  PROVE  \/ UNCHANGED vars
         \/ \E c \in Callers, a \in Aggregates :
              \/ \E l \in LoopIds : StartCall(c, a, l)
              \/ \E t \in TransitionIds, actor \in ActorTypes, constrained \in BOOLEAN :
                   \/ TransitionRefused(c, a, t, actor, constrained)
                   \/ TransitionRequested(c, a, t, actor, constrained)
              \/ CancelCall(c, a) \/ FailCall(c, a)
         \/ \E c \in Callers : EvaluateGuards(c) \/ CommitEvidence(c) \/ Deliver(c)
         \/ \E c \in Callers : SaveInstance(c)
         \/ \E c \in Callers : SaveRecord(c)
<1>1. ~ (faults < MaxFaults)
  BY EngineAssumption DEF TypeInv, TypeOK, NoFaults
<1>2. \A c \in Callers : ~ LoseEvent(c) /\ ~ Abort(c)
  BY <1>1 DEF LoseEvent, Abort
<1> QED
  BY <1>2 DEF Next

LEMMA NextReplays ==
  ASSUME ReplayInv, AnswersInv, AnswersInv', LawInv', Isolated, NoFaults, [Next]_vars
  PROVE  ReplayInv'
<1>1. TypeInv
  BY DEF ReplayInv, LawInv
<1>2. CASE UNCHANGED vars
  BY <1>2, SameStoreReplays DEF vars
<1>3. ASSUME NEW c \in Callers, NEW a \in Aggregates, NEW l \in LoopIds, StartCall(c, a, l)
      PROVE  ReplayInv'
  BY <1>3, StartCallReplays
<1>4. ASSUME NEW c \in Callers, NEW a \in Aggregates, NEW t \in TransitionIds,
             NEW actor \in ActorTypes, NEW constrained \in BOOLEAN,
             TransitionRefused(c, a, t, actor, constrained)
      PROVE  ReplayInv'
  <2>1. \E x : ReturnsAtOnce(c, x)
    BY <1>4 DEF TransitionRefused
  <2> QED
    BY <2>1, ReturnsAtOnceReplays
<1>5. ASSUME NEW c \in Callers, NEW a \in Aggregates, NEW t \in TransitionIds,
             NEW actor \in ActorTypes, NEW constrained \in BOOLEAN,
             TransitionRequested(c, a, t, actor, constrained)
      PROVE  ReplayInv'
  BY <1>5, TransitionRequestedReplays
<1>6. ASSUME NEW c \in Callers, NEW a \in Aggregates, CancelCall(c, a) \/ FailCall(c, a)
      PROVE  ReplayInv'
  BY <1>6, CloseCallReplays DEF CancelCall, FailCall
<1>7. ASSUME NEW c \in Callers, EvaluateGuards(c) \/ CommitEvidence(c) \/ Deliver(c)
      PROVE  ReplayInv'
  BY <1>7, WaitingReplays
<1>8. ASSUME NEW c \in Callers, SaveInstance(c) \/ SaveRecord(c)
      PROVE  ReplayInv'
  BY <1>8, SaveInstanceReplays, SaveRecordReplays
<1> QED
  BY <1>1, <1>2, <1>3, <1>4, <1>5, <1>6, <1>7, <1>8, FaultlessStep

LEMMA InitReplays ==
  ASSUME Init
  PROVE  ReplayInv
<1>1. LawInv
  BY InitTypes DEF Init, LawInv, RecordsAreLawful, Positions
<1>2. \A c \in Callers : pc[c] = "idle"
  BY DEF Init
<1>3. \A a \in Aggregates :
        since[a] = 0 /\ Len(history[a]) = 0 /\ instances[a] = NoInstance
  BY DEF Init
<1> QED
  BY <1>1, <1>2, <1>3 DEF ReplayInv

LEMMA ReplayAlways ==
  ASSUME Isolated, NoFaults
  PROVE  Spec => [](ReplayInv /\ AnswersInv)
<1>1. Init => ReplayInv /\ AnswersInv
  BY InitReplays, InitIsHonest
<1>2. ReplayInv /\ AnswersInv /\ [Next]_vars => (ReplayInv /\ AnswersInv)'
  <2> SUFFICES ASSUME ReplayInv, AnswersInv, [Next]_vars
               PROVE  (ReplayInv /\ AnswersInv)'
    OBVIOUS
  <2>1. LawInv'
    BY NextIsLawful DEF ReplayInv
  <2>2. AnswersInv'
    BY NextIsHonest
  <2> QED
    BY <2>1, <2>2, NextReplays
<1> QED
  BY <1>1, <1>2, PTL DEF Spec

(* A history replays, without an error and to the stored state, whatever   *)
(* loop it is of: the engine's records and its own replay tool agree, if   *)
(* the application serialises its calls per aggregate and nothing fails.   *)
THEOREM HistoryReplaysAlways ==
  ASSUME Isolated, NoFaults
  PROVE  Spec => []HistoryReplays
<1>1. ReplayInv => HistoryReplays
  BY DEF ReplayInv, HistoryReplays, ReplaysTo
<1> QED
  BY <1>1, ReplayAlways, PTL

-----------------------------------------------------------------------------
(* One completion per run.                                                 *)

(* The events of aggregate b only grow, and those of the others stay.      *)
EventsAt(b) == \A a \in Aggregates \ {b} : events'[a] = events[a]

LEMMA RunsStep ==
  ASSUME RunsInv, Isolated, ReplayInv', NEW c \in Callers, NEW b, StepsAt(c, b), EventsAt(b),
         \A i, j \in DOMAIN events'[b] :
           (i < j /\ events'[b][i].type = "completed" /\ events'[b][j].type = "completed")
             => \E k \in i .. j : events'[b][k].type = "started",
         OpenCompletion(b)' =>
           RunIsOver(b)' \/ (pc'[c] = "emit" /\ call'[c].op = "start"),
         pc'[c] # "idle" => CallEndsRun(pc[c], call[c])'
  PROVE  RunsInv'
<1>1. OneCompletionPerRun'
  BY DEF RunsInv, OneCompletionPerRun, EventsAt
<1>2. ASSUME NEW a \in Aggregates, OpenCompletion(a)'
      PROVE  \/ RunIsOver(a)'
             \/ \E d \in Callers :
                  pc'[d] = "emit" /\ call'[d].agg = a /\ call'[d].op = "start"
  <2>1. CASE a = b
    BY <1>2, <2>1 DEF StepsAt
  <2>2. CASE a # b
    <3>1. events'[a] = events[a] /\ instances'[a] = instances[a]
      BY <2>2 DEF EventsAt, StepsAt
    <3>2. OpenCompletion(a)
      BY <1>2, <3>1 DEF OpenCompletion
    <3>3. CASE RunIsOver(a)
      BY <3>1, <3>3 DEF RunIsOver
    <3>4. CASE ~ RunIsOver(a)
      <4>1. PICK d \in Callers : pc[d] = "emit" /\ call[d].agg = a /\ call[d].op = "start"
        BY <3>2, <3>4 DEF RunsInv
      <4>2. d # c
        BY <2>2, <4>1 DEF StepsAt
      <4> QED
        BY <4>1, <4>2 DEF StepsAt, Others
    <3> QED
      BY <3>3, <3>4
  <2> QED
    BY <2>1, <2>2
<1>3. ASSUME NEW d \in Callers, pc'[d] # "idle"
      PROVE  CallEndsRun(pc[d], call[d])'
  <2>1. CASE d = c
    BY <1>3, <2>1
  <2>2. CASE d # c
    <3>1. PICK w, k : w = call[d] /\ w = call'[d] /\ k = pc[d] /\ k = pc'[d]
      BY <2>2 DEF StepsAt, Others
    <3>2. CallEndsRun(k, w) /\ w.agg \in Serves[d]
      BY <1>3, <3>1 DEF RunsInv, ReplayInv
    <3>3. w.agg # b /\ w.agg \in Aggregates
      <4>1. b \in Serves[c] /\ pc[d] # "idle" /\ ReplayInv
        BY <1>3, <3>1 DEF StepsAt, RunsInv
      <4>2. call[d].agg # b
        BY <2>2, <4>1, NobodyElse
      <4>3. Serves[d] \subseteq Aggregates
        BY EngineAssumption
      <4> QED
        BY <3>1, <3>2, <4>2, <4>3
    <3>4. events'[w.agg] = events[w.agg] /\ instances'[w.agg] = instances[w.agg]
      BY <3>3 DEF EventsAt, StepsAt
    <3>5. /\ OpenCompletion(w.agg)' <=> OpenCompletion(w.agg)
          /\ RunIsOver(w.agg)' <=> RunIsOver(w.agg)
      BY <3>4 DEF OpenCompletion, RunIsOver
    <3>6. CallEndsRun(k, w)'
      BY <3>2, <3>5 DEF CallEndsRun
    <3> QED
      BY <3>1, <3>6 DEF CallEndsRun
  <2> QED
    BY <2>1, <2>2
<1> QED
  BY <1>1, <1>2, <1>3 DEF RunsInv

(* A step that announces nothing.                                          *)
LEMMA SilentStep ==
  ASSUME RunsInv, Isolated, ReplayInv', NEW c \in Callers, NEW b, StepsAt(c, b),
         UNCHANGED events,
         OpenCompletion(b) =>
           RunIsOver(b)' \/ (pc'[c] = "emit" /\ call'[c].op = "start"),
         pc'[c] # "idle" => CallEndsRun(pc[c], call[c])'
  PROVE  RunsInv'
<1>1. OpenCompletion(b)' => OpenCompletion(b)
  BY DEF OpenCompletion
<1>2. EventsAt(b)
  BY DEF EventsAt
<1>3. \A i, j \in DOMAIN events'[b] :
        (i < j /\ events'[b][i].type = "completed" /\ events'[b][j].type = "completed")
          => \E k \in i .. j : events'[b][k].type = "started"
  BY DEF RunsInv, OneCompletionPerRun, StepsAt
<1> QED
  BY <1>1, <1>2, <1>3, RunsStep

LEMMA SameEventsRuns ==
  ASSUME RunsInv, ReplayInv', UNCHANGED <<instances, events, pc, call>>
  PROVE  RunsInv'
BY DEF RunsInv, OneCompletionPerRun, OpenCompletion, RunIsOver, CallEndsRun

(* A completion nobody followed with a start is of a run that is over, if  *)
(* the aggregate's caller is not about to announce a start.                *)
LEMMA OpenIsOver ==
  ASSUME RunsInv, Isolated, NEW c \in Callers, NEW b \in Aggregates, b \in Serves[c],
         OpenCompletion(b), pc[c] = "emit" /\ call[c].agg = b => call[c].op # "start"
  PROVE  RunIsOver(b)
<1>1. ReplayInv
  BY DEF RunsInv
<1>2. \A d \in Callers \ {c} : pc[d] # "idle" => call[d].agg # b
  BY <1>1, NobodyElse
<1> QED
  BY <1>2 DEF RunsInv

LEMMA BeginRuns ==
  ASSUME RunsInv, Isolated, ReplayInv', NEW c \in Callers, NEW a, Begin(c, a),
         NEW k \in {"save", "emit"}, NEW w, Enters(c, k, w), UNCHANGED <<store, events>>,
         w.agg = a,
         k = "emit" => w.op # "start"
                       /\ \A i \in DOMAIN w.outbox : w.outbox[i].type # "completed"
  PROVE  RunsInv'
<1>1. TypeInv /\ pc[c] = "idle" /\ a \in Serves[c] /\ a \in Aggregates
  BY EngineAssumption DEF RunsInv, ReplayInv, LawInv, Begin
<1>2. /\ Others(c) /\ pc'[c] = k /\ call'[c] = w
      /\ UNCHANGED <<instances, history, since>>
  BY <1>1, EntersOthers DEF store
<1>3. StepsAt(c, a)
  BY <1>1, <1>2 DEF StepsAt
<1>4. OpenCompletion(a) => RunIsOver(a)'
  BY <1>1, <1>2, OpenIsOver DEF RunIsOver
<1>5. CallEndsRun(pc[c], call[c])'
  BY <1>2 DEF CallEndsRun
<1> QED
  BY <1>3, <1>4, <1>5, SilentStep

LEMMA ReturnsAtOnceRuns ==
  ASSUME RunsInv, ReplayInv', NEW c, NEW x, ReturnsAtOnce(c, x)
  PROVE  RunsInv'
BY SameEventsRuns DEF ReturnsAtOnce, store

LEMMA StartCallRuns ==
  ASSUME RunsInv, Isolated, ReplayInv', NEW c \in Callers, NEW a, NEW l,
         StartCall(c, a, l)
  PROVE  RunsInv'
<1>1. CASE ReturnsAtOnce(c, "threw")
  BY <1>1, ReturnsAtOnceRuns
<1>2. CASE /\ Enters(c, "save",
                NewCall("start", a, Definitions[l].initial, NewInstance(l)))
           /\ UNCHANGED <<store, events>>
  <2>1. PICK w : w = NewCall("start", a, Definitions[l].initial, NewInstance(l))
    OBVIOUS
  <2>2. w.agg = a
    BY <2>1 DEF NewCall
  <2>3. Enters(c, "save", w)
    BY <1>2, <2>1
  <2> QED
    BY <1>2, <2>2, <2>3, BeginRuns DEF StartCall
<1> QED
  BY <1>1, <1>2 DEF StartCall

LEMMA CloseCallRuns ==
  ASSUME RunsInv, Isolated, ReplayInv', NEW c \in Callers, NEW a, NEW op, NEW status,
         CloseCall(c, a, op, status)
  PROVE  RunsInv'
<1>1. CASE ReturnsAtOnce(c, "threw")
  BY <1>1, ReturnsAtOnceRuns
<1>2. CASE /\ Enters(c, "save",
                NewCall(op, a, instances[a].state, Closed(instances[a], status)))
           /\ UNCHANGED <<store, events>>
  <2>1. PICK w : w = NewCall(op, a, instances[a].state, Closed(instances[a], status))
    OBVIOUS
  <2>2. w.agg = a
    BY <2>1 DEF NewCall
  <2>3. Enters(c, "save", w)
    BY <1>2, <2>1
  <2> QED
    BY <1>2, <2>2, <2>3, BeginRuns DEF CloseCall
<1> QED
  BY <1>1, <1>2 DEF CloseCall

LEMMA TransitionRequestedRuns ==
  ASSUME RunsInv, Isolated, ReplayInv', NEW c \in Callers, NEW a, NEW t,
         NEW actor \in ActorTypes, NEW constrained,
         TransitionRequested(c, a, t, actor, constrained)
  PROVE  RunsInv'
<1>1. TypeInv
  BY DEF RunsInv, ReplayInv, LawInv
<1>2. PICK w : LetIn(c, a, w)
  BY <1>1, RequestedCallIsFresh
<1>3. Begin(c, a) /\ UNCHANGED <<store, events>>
  BY DEF TransitionRequested
<1>4. \A i \in DOMAIN w.outbox : w.outbox[i].type # "completed"
  BY <1>2 DEF LetIn
<1> QED
  BY <1>2, <1>3, <1>4, BeginRuns DEF LetIn

(* The guards have only themselves and a block to announce.                *)
LEMMA EvaluateGuardsAnnounces ==
  ASSUME TypeInv, NEW c \in Callers, EvaluateGuards(c)
  PROVE  pc'[c] = "emit" =>
           \A i \in DOMAIN call'[c].outbox : call'[c].outbox[i].type # "completed"
<1>1. PICK w : w = call[c]
  OBVIOUS
<1>2. CallShape("guards", w) /\ w \in Call /\ w.tr \in TransitionSpecs
  BY <1>1 DEF TypeInv, EvaluateGuards, CallShape, Heads
<1>3. PICK g, h, b : /\ g = Ev("guard_soft", w.id, w.from)
                     /\ h = Ev("guard_hard", w.id, w.from)
                     /\ b = Ev("blocked", w.id, w.tr.to)
  OBVIOUS
<1>4. \A e \in {g, h, b} : e.type # "completed"
  BY <1>3 DEF Ev
<1>5. ASSUME NEW u \in Call, NEW k, NEW evs \in Seq({g, h, b}), Emits(c, u, evs, k)
      PROVE  \A i \in DOMAIN call'[c].outbox : call'[c].outbox[i].type # "completed"
  <2>1. call'[c].outbox = evs
    BY <1>5, EmitsFields
  <2> QED
    BY <1>4, <2>1
<1>6. CASE Returns(c, "threw")
  BY <1>6, EntersOthers DEF Returns
<1>7. ASSUME NEW soft \in SUBSET w.tr.soft, NEW k,
             NEW evs \in {<<>>, <<g>>}, Emits(c, [w EXCEPT !.warnings = soft], evs, k)
      PROVE  \A i \in DOMAIN call'[c].outbox : call'[c].outbox[i].type # "completed"
  <2>1. PICK u : u = [w EXCEPT !.warnings = soft]
    OBVIOUS
  <2>2. soft \subseteq GuardIds
    BY <1>2 DEF TransitionSpecs
  <2>3. u \in Call
    BY <1>2, <2>1, <2>2 DEF Call
  <2>4. evs \in Seq({g, h, b})
    BY SoftEvents
  <2> QED
    BY <1>5, <1>7, <2>1, <2>3, <2>4
<1>8. ASSUME NEW first \in {<<>>, <<g>>}, NEW k,
             Emits(c, [w EXCEPT !.result = "guard_failed"], first \o <<h, b>>, k)
      PROVE  \A i \in DOMAIN call'[c].outbox : call'[c].outbox[i].type # "completed"
  <2>1. PICK u : u = [w EXCEPT !.result = "guard_failed"]
    OBVIOUS
  <2>2. u \in Call
    BY <1>2, <2>1 DEF Call, Outcomes, Refusals
  <2>3. PICK evs : evs = first \o <<h, b>>
    OBVIOUS
  <2>4. evs \in Seq({g, h, b})
    <3>1. first \in Seq({g, h, b})
      BY SoftEvents
    <3> QED
      BY <2>3, <3>1, ThenTwo
  <2> QED
    BY <1>5, <1>8, <2>1, <2>2, <2>3, <2>4
<1> QED
  BY <1>1, <1>3, <1>6, <1>7, <1>8 DEF EvaluateGuards

LEMMA OnTheWayRuns ==
  ASSUME RunsInv, AnswersInv, AnswersInv', Isolated, LawInv', ReplayInv', NEW c \in Callers,
         EvaluateGuards(c) \/ CommitEvidence(c)
  PROVE  RunsInv'
<1>1. PICK w : w = call[c]
  OBVIOUS
<1>2. /\ StepsAt(c, w.agg) /\ UNCHANGED <<instances, history, since>>
      /\ pc'[c] # "record"
  BY <1>1, WaitingReplays DEF RunsInv
<1>3. /\ pc[c] \in {"guards", "evidence"} /\ UNCHANGED events
  BY DEF EvaluateGuards, CommitEvidence
<1>4. /\ w \in Call /\ w.op = "transition" /\ w.agg \in Aggregates /\ w.agg \in Serves[c]
      /\ TypeInv
  BY <1>1, <1>3, CallerFields DEF CallShape, Heads, RunsInv
<1>5. OpenCompletion(w.agg) => RunIsOver(w.agg)'
  BY <1>2, <1>3, <1>4, OpenIsOver DEF RunIsOver
<1>6. pc'[c] # "idle" => SameCall(call'[c], w)
  BY <1>1, <1>4, ContinueKeepsCall
<1>7. pc'[c] = "emit" =>
        \A i \in DOMAIN call'[c].outbox : call'[c].outbox[i].type # "completed"
  <2>1. CASE EvaluateGuards(c)
    BY <1>4, <2>1, EvaluateGuardsAnnounces
  <2>2. CASE CommitEvidence(c)
    BY <1>4, <2>2, EntersOthers DEF CommitEvidence, Returns
  <2> QED
    BY <2>1, <2>2
<1>8. pc'[c] # "idle" => CallEndsRun(pc[c], call[c])'
  BY <1>2, <1>4, <1>6, <1>7 DEF CallEndsRun, SameCall
<1> QED
  BY <1>2, <1>3, <1>5, <1>8, SilentStep

(* A start is about to be announced, a cancel or fail leaves the state as  *)
(* it was, and a run that is over does not move.                           *)
LEMMA SaveInstanceRuns ==
  ASSUME RunsInv, AnswersInv, Isolated, ReplayInv', NEW c \in Callers, SaveInstance(c)
  PROVE  RunsInv'
<1>1. PICK w : w = call[c]
  OBVIOUS
<1>2. PICK b : b = w.agg
  OBVIOUS
<1>3. PICK inst : inst = instances[b]
  OBVIOUS
<1>4. /\ pc[c] = "save" /\ w \in Call /\ b \in Aggregates /\ b \in Serves[c]
      /\ CallIsFresh("save", w) /\ w.result = "none" /\ TypeInv /\ TypeOK
      /\ w.op \in {"start", "cancel", "fail", "transition"}
  BY <1>1, <1>2, CallerFields DEF SaveInstance, RunsInv, Call, Operations
<1>5. /\ instances'[b] = w.write
      /\ since'[b] = IF w.op = "start" THEN Len(history[b]) ELSE since[b]
      /\ \A a \in Aggregates \ {b} :
           instances'[a] = instances[a] /\ history'[a] = history[a] /\ since'[a] = since[a]
      /\ UNCHANGED events
  BY <1>1, <1>2, <1>4 DEF SaveInstance, TypeOK
<1>6. Others(c) /\ SameCall(call'[c], w)
  BY <1>1, <1>4, SaveInstanceOthers
<1>7. StepsAt(c, b)
  BY <1>1, <1>2, <1>4, <1>5, <1>6 DEF StepsAt, SameCall
<1>8. OpenCompletion(b) => RunIsOver(b)
  BY <1>4, OpenIsOver
<1>9. CASE w.op = "transition"
  <2>1. pc'[c] = "record" /\ call'[c] = w
    BY <1>1, <1>4, <1>9, EntersOthers DEF SaveInstance
  <2>2. inst # NoInstance /\ ~ IsClosed(inst)
    BY <1>2, <1>3, <1>4, <1>9 DEF CallIsFresh
  <2>3. ~ OpenCompletion(b)
    BY <1>3, <1>8, <2>2 DEF RunIsOver, IsClosed
  <2>4. ~ OpenCompletion(b)'
    BY <1>5, <2>3 DEF OpenCompletion
  <2>5. CallEndsRun(pc[c], call[c])'
    BY <1>2, <2>1, <2>4 DEF CallEndsRun
  <2> QED
    BY <1>5, <1>7, <2>3, <2>5, SilentStep
<1>10. CASE w.op # "transition"
  <2>1. PICK t : t = Announced(w.op)
    OBVIOUS
  <2>2. PICK e : e = Ev(t, w.id, w.from)
    OBVIOUS
  <2>3. PICK evs : evs = <<e>>
    OBVIOUS
  <2>4. e.type = t /\ t # "completed" /\ (w.op = "start" => t = "started")
    BY <2>1, <2>2 DEF Ev, Announced
  <2>5. pc'[c] = "emit" /\ call'[c].outbox = evs
    <3>1. PICK u : u = [w EXCEPT !.result = t]
      OBVIOUS
    <3>2. u \in Call
      BY <1>4, <2>1, <3>1 DEF Call, Announced, Outcomes
    <3>3. Emits(c, u, evs, "idle") /\ evs # <<>>
      BY <1>1, <1>10, <2>1, <2>2, <2>3, <3>1 DEF SaveInstance
    <3> QED
      BY <1>4, <3>2, <3>3, EmitsFields
  <2>6. \A i \in DOMAIN evs : evs[i] = e
    BY <2>3
  <2>7. CallEndsRun(pc[c], call[c])'
    BY <1>6, <2>4, <2>5, <2>6 DEF CallEndsRun, SameCall
  <2>8. CASE w.op = "start"
    <3>1. call'[c].op = "start"
      BY <1>6, <2>8 DEF SameCall
    <3> QED
      BY <1>5, <1>7, <2>5, <2>7, <3>1, SilentStep
  <2>9. CASE w.op \in {"cancel", "fail"}
    <3>1. PICK status \in {"cancelled", "failed"} : w.write = Closed(inst, status)
      BY <1>2, <1>3, <1>4, <2>9 DEF CallIsFresh
    <3>2. inst # NoInstance
      BY <1>2, <1>3, <1>4, <2>9 DEF CallIsFresh
    <3>3. inst \in LoopInstance
      BY <1>3, <1>4, <3>2 DEF TypeOK
    <3>4. /\ w.write.loop = inst.loop /\ w.write.state = inst.state
          /\ w.write # NoInstance
      <4>1. w.write \in LoopInstance
        BY <1>4 DEF Call
      <4> QED
        BY <3>1, <3>3, <4>1, DefinitionsAssumption DEF Closed, LoopInstance
    <3>5. RunIsOver(b) => RunIsOver(b)'
      BY <1>3, <1>5, <3>4 DEF RunIsOver
    <3> QED
      BY <1>5, <1>7, <1>8, <2>7, <3>5, SilentStep
  <2> QED
    BY <1>4, <1>10, <2>8, <2>9
<1> QED
  BY <1>9, <1>10

(* The completion is announced last, and of a run that is over.            *)
LEMMA SaveRecordRuns ==
  ASSUME RunsInv, AnswersInv, Isolated, ReplayInv', NEW c \in Callers, SaveRecord(c)
  PROVE  RunsInv'
<1>1. PICK w : w = call[c]
  OBVIOUS
<1>2. PICK b : b = w.agg
  OBVIOUS
<1>3. /\ pc[c] = "record" /\ w \in Call /\ b \in Aggregates /\ b \in Serves[c]
      /\ CallShape("record", w) /\ CallIsFresh("record", w) /\ TypeInv /\ TypeOK
      /\ w.op = "transition"
  BY <1>1, <1>2, CallerFields DEF SaveRecord, RunsInv, CallShape
<1>4. /\ ~ OpenCompletion(b) /\ IsLive(w.write) /\ instances[b] = w.write
      /\ w.write \in LoopInstance
  <2>1. CallEndsRun("record", w)
    BY <1>1, <1>3 DEF RunsInv
  <2>2. IsLive(w.write)
    BY <1>1, <1>3 DEF AnswersInv, LiveInv
  <2> QED
    BY <1>2, <1>3, <2>1, <2>2 DEF CallEndsRun, CallIsFresh, Call
<1>5. /\ instances' = instances /\ since' = since /\ UNCHANGED events
      /\ history' = [history EXCEPT ![b] = Append(@, RecordOf(w))]
  BY <1>1, <1>2 DEF SaveRecord
<1>6. /\ Others(c) /\ SameCall(call'[c], w) /\ pc'[c] = "emit"
  BY <1>1, <1>3, SaveRecordOthers
<1>7. StepsAt(c, b)
  BY <1>1, <1>2, <1>3, <1>5, <1>6 DEF StepsAt, SameCall, TypeOK
<1>8. PICK x, f : /\ x = Ev("executed", w.id, w.tr.to)
                  /\ f = Ev("completed", w.id, w.write.state)
  OBVIOUS
<1>9. x.type = "executed"
  BY <1>8 DEF Ev
<1>10. PICK done : done = IF w.write.status = "completed" THEN <<f>> ELSE <<>>
  OBVIOUS
<1>11. PICK evs : evs = <<x>> \o done
  OBVIOUS
<1>12. call'[c].outbox = evs
  <2>1. PICK u : u = [w EXCEPT !.result = "executed"]
    OBVIOUS
  <2>2. u \in Call
    BY <1>3, <2>1 DEF Call, Outcomes
  <2>3. Emits(c, u, evs, "idle")
    BY <1>1, <1>8, <1>10, <1>11, <2>1 DEF SaveRecord
  <2> QED
    BY <1>3, <2>2, <2>3, EmitsFields
<1>13. \A i \in DOMAIN evs : evs[i].type = "completed" =>
         i = Len(evs) /\ w.write.status = "completed"
  <2>1. CASE w.write.status = "completed"
    <3>1. evs = <<x>> \o <<f>>
      BY <1>10, <1>11, <2>1
    <3>2. Len(evs) = 2 /\ DOMAIN evs = 1 .. 2 /\ evs[1] = x
      BY <3>1, ConcatProperties, <1>8
    <3> QED
      BY <1>9, <2>1, <3>2
  <2>2. CASE w.write.status # "completed"
    <3>1. evs = <<x>>
      BY <1>10, <1>11, <2>2
    <3> QED
      BY <1>9, <3>1
  <2> QED
    BY <2>1, <2>2
<1>14. w.write.status = "completed" => RunIsOver(b)
  BY <1>4, DefinitionsAssumption DEF IsLive, RunIsOver
<1>15. (RunIsOver(b) <=> RunIsOver(b)') /\ (OpenCompletion(b) <=> OpenCompletion(b)')
  BY <1>5 DEF RunIsOver, OpenCompletion
<1>16. CallEndsRun(pc[c], call[c])'
  BY <1>2, <1>3, <1>4, <1>6, <1>12, <1>13, <1>14, <1>15 DEF CallEndsRun, SameCall
<1> QED
  BY <1>4, <1>5, <1>7, <1>16, SilentStep

(* The event that is delivered is the first of the outbox; what is left of *)
(* the outbox is its tail.                                                 *)
LEMMA DeliverRuns ==
  ASSUME RunsInv, AnswersInv, AnswersInv', Isolated, LawInv', ReplayInv', NEW c \in Callers,
         Deliver(c)
  PROVE  RunsInv'
<1>1. PICK w : w = call[c]
  OBVIOUS
<1>2. PICK b : b = w.agg
  OBVIOUS
<1>3. /\ pc[c] = "emit" /\ w \in Call /\ b \in Aggregates /\ b \in Serves[c]
      /\ CallShape("emit", w) /\ TypeInv /\ TypeOK
  BY <1>1, <1>2, CallerFields DEF Deliver, RunsInv
<1>4. /\ StepsAt(c, b) /\ UNCHANGED <<instances, history, since>> /\ pc'[c] # "record"
  BY <1>1, <1>2, WaitingReplays DEF RunsInv
<1>5. CallEndsRun("emit", w)
  BY <1>1, <1>3 DEF RunsInv
<1>6. PICK o \in Seq(Event) : o = w.outbox
  BY <1>3 DEF Call
<1>7. PICK e : e = Head(o)
  OBVIOUS
<1>8. PICK r : r = Tail(o)
  OBVIOUS
<1>9. /\ o # <<>> /\ e \in Event /\ e = o[1] /\ 1 \in DOMAIN o /\ r \in Seq(Event)
      /\ Len(o) \in Nat /\ Len(r) = Len(o) - 1
      /\ \A i \in DOMAIN r : i + 1 \in DOMAIN o /\ r[i] = o[i + 1] /\ i + 1 # 1
  BY <1>3, <1>6, <1>7, <1>8, HeadTailProperties DEF CallShape
<1>10. /\ w.op = "start" => e.type = "started"
       /\ e.type = "completed" => Len(o) = 1 /\ RunIsOver(b) /\ ~ OpenCompletion(b)
  BY <1>2, <1>5, <1>6, <1>9 DEF CallEndsRun
<1>11. PICK n : n = Len(events[b]) + 1
  OBVIOUS
<1>12. /\ Len(events[b]) \in Nat
       /\ DOMAIN events[b] = 1 .. Len(events[b])
       /\ DOMAIN events'[b] = DOMAIN events[b] \cup {n}
       /\ events'[b][n] = e
       /\ \A i \in DOMAIN events[b] : events'[b][i] = events[b][i]
       /\ \A a \in Aggregates \ {b} : events'[a] = events[a]
  <2>1. events \in [Aggregates -> Seq(Event)]
    BY <1>3 DEF TypeOK
  <2>2. events' = [events EXCEPT ![b] = Append(@, e)]
    BY <1>1, <1>2, <1>6, <1>7 DEF Deliver
  <2> QED
    BY <1>3, <1>9, <1>11, <2>1, <2>2, Appended1
<1>13. EventsAt(b)
  BY <1>12 DEF EventsAt
<1>14. ASSUME NEW i \in DOMAIN events'[b], NEW j \in DOMAIN events'[b], i < j,
              events'[b][i].type = "completed", events'[b][j].type = "completed"
       PROVE  \E k \in i .. j : events'[b][k].type = "started"
  <2>1. i \in DOMAIN events[b]
    BY <1>11, <1>12, <1>14
  <2>2. CASE j = n
    <3>1. ~ OpenCompletion(b)
      BY <1>10, <1>12, <1>14, <2>2
    <3>2. PICK k \in DOMAIN events[b] : k > i /\ events[b][k].type = "started"
      BY <1>12, <1>14, <2>1, <3>1 DEF OpenCompletion
    <3>3. k \in i .. j
      BY <1>11, <1>12, <2>1, <2>2, <3>2
    <3> QED
      BY <1>12, <3>2, <3>3
  <2>3. CASE j # n
    <3>1. j \in DOMAIN events[b]
      BY <1>12, <1>14, <2>3
    <3>2. PICK k \in i .. j : events[b][k].type = "started"
      BY <1>3, <1>12, <1>14, <2>1, <3>1 DEF RunsInv, OneCompletionPerRun
    <3>3. k \in DOMAIN events[b]
      BY <1>12, <2>1, <3>1, <3>2
    <3> QED
      BY <1>12, <3>2, <3>3
  <2> QED
    BY <2>2, <2>3
<1>15. RunIsOver(b)' <=> RunIsOver(b)
  BY <1>4 DEF RunIsOver
<1>16. ASSUME OpenCompletion(b)', e.type # "completed"
       PROVE  OpenCompletion(b) /\ e.type # "started"
  <2>1. PICK i \in DOMAIN events'[b] :
          /\ events'[b][i].type = "completed"
          /\ \A k \in DOMAIN events'[b] : k > i => events'[b][k].type # "started"
    BY <1>16 DEF OpenCompletion
  <2>2. i \in DOMAIN events[b] /\ n > i /\ n \in DOMAIN events'[b]
    BY <1>11, <1>12, <1>16, <2>1
  <2>3. e.type # "started"
    BY <1>12, <2>1, <2>2
  <2>4. events[b][i].type = "completed"
    BY <1>12, <2>1, <2>2
  <2>5. \A k \in DOMAIN events[b] : k > i => events[b][k].type # "started"
    BY <1>12, <2>1
  <2> QED
    BY <2>2, <2>3, <2>4, <2>5 DEF OpenCompletion
<1>17. OpenCompletion(b)' => RunIsOver(b)'
  <2>1. CASE e.type = "completed"
    BY <1>10, <1>15, <2>1
  <2>2. ASSUME OpenCompletion(b)', e.type # "completed"
        PROVE  RunIsOver(b)
    <3>1. OpenCompletion(b) /\ w.op # "start"
      BY <1>10, <1>16, <2>2
    <3> QED
      BY <1>1, <1>3, <3>1, OpenIsOver
  <2> QED
    BY <1>15, <2>1, <2>2
<1>18. ASSUME pc'[c] = "emit"
       PROVE  SameCall(call'[c], w) /\ call'[c].outbox = r
  <2>1. SameCall(call'[c], w)
    BY <1>1, <1>3, <1>18, ContinueKeepsCall
  <2>2. r # <<>>
    <3>1. ASSUME r = <<>>
          PROVE  FALSE
      <4>1. \E v : Enters(c, w.after, v) \/ Enters(c, "idle", v)
        BY <1>1, <1>6, <1>8, <3>1 DEF Deliver, EmitSettles, Returns
      <4>2. w.after \in {"idle", "guards", "evidence", "save"}
        BY <1>3 DEF CallShape
      <4> QED
        BY <1>3, <1>18, <4>1, <4>2, EntersOthers
    <3> QED
      BY <3>1
  <2>3. PICK v : v = [w EXCEPT !.outbox = r]
    OBVIOUS
  <2>4. v.outbox = r
    BY <1>3, <2>3 DEF Call
  <2>5. Enters(c, "emit", v)
    <3>1. [w EXCEPT !.outbox = Tail(@)] = [w EXCEPT !.outbox = r]
      BY <1>6, <1>8
    <3> QED
      BY <1>1, <1>6, <1>8, <2>2, <2>3, <3>1 DEF Deliver, EmitSettles
  <2> QED
    BY <1>3, <2>1, <2>4, <2>5, EntersOthers
<1>19. ASSUME pc'[c] = "emit", NEW i \in DOMAIN r
       PROVE  /\ w.op = "start" => r[i].type = "started"
              /\ r[i].type = "completed" =>
                   i = Len(r) /\ RunIsOver(b)' /\ ~ OpenCompletion(b)'
  <2>1. i + 1 \in DOMAIN o /\ r[i] = o[i + 1] /\ i + 1 # 1 /\ i \in Nat
    BY <1>9, <1>19
  <2>2. w.op = "start" => r[i].type = "started"
    BY <1>3, <1>5, <1>6, <2>1 DEF CallEndsRun
  <2>3. r[i].type = "completed" =>
          i + 1 = Len(o) /\ RunIsOver(b) /\ ~ OpenCompletion(b)
    BY <1>2, <1>5, <1>6, <2>1 DEF CallEndsRun
  <2>4. r[i].type = "completed" => e.type # "completed"
    BY <1>10, <2>1, <2>3
  <2> QED
    BY <1>9, <1>15, <1>16, <2>1, <2>2, <2>3, <2>4
<1>20. pc'[c] # "idle" => CallEndsRun(pc[c], call[c])'
  BY <1>2, <1>4, <1>18, <1>19 DEF CallEndsRun, SameCall
<1> QED
  BY <1>4, <1>13, <1>14, <1>17, <1>20, RunsStep

LEMMA NextRuns ==
  ASSUME RunsInv, AnswersInv, AnswersInv', LawInv', ReplayInv', Isolated, NoFaults,
         [Next]_vars
  PROVE  RunsInv'
<1>1. TypeInv
  BY DEF RunsInv, ReplayInv, LawInv
<1>2. CASE UNCHANGED vars
  BY <1>2, SameEventsRuns DEF vars
<1>3. ASSUME NEW c \in Callers, NEW a \in Aggregates, NEW l \in LoopIds, StartCall(c, a, l)
      PROVE  RunsInv'
  BY <1>3, StartCallRuns
<1>4. ASSUME NEW c \in Callers, NEW a \in Aggregates, NEW t \in TransitionIds,
             NEW actor \in ActorTypes, NEW constrained \in BOOLEAN,
             TransitionRefused(c, a, t, actor, constrained)
      PROVE  RunsInv'
  <2>1. \E x : ReturnsAtOnce(c, x)
    BY <1>4 DEF TransitionRefused
  <2> QED
    BY <2>1, ReturnsAtOnceRuns
<1>5. ASSUME NEW c \in Callers, NEW a \in Aggregates, NEW t \in TransitionIds,
             NEW actor \in ActorTypes, NEW constrained \in BOOLEAN,
             TransitionRequested(c, a, t, actor, constrained)
      PROVE  RunsInv'
  BY <1>5, TransitionRequestedRuns
<1>6. ASSUME NEW c \in Callers, NEW a \in Aggregates, CancelCall(c, a) \/ FailCall(c, a)
      PROVE  RunsInv'
  BY <1>6, CloseCallRuns DEF CancelCall, FailCall
<1>7. ASSUME NEW c \in Callers, EvaluateGuards(c) \/ CommitEvidence(c) \/ Deliver(c)
      PROVE  RunsInv'
  BY <1>7, OnTheWayRuns, DeliverRuns
<1>8. ASSUME NEW c \in Callers, SaveInstance(c) \/ SaveRecord(c)
      PROVE  RunsInv'
  BY <1>8, SaveInstanceRuns, SaveRecordRuns
<1> QED
  BY <1>1, <1>2, <1>3, <1>4, <1>5, <1>6, <1>7, <1>8, FaultlessStep

LEMMA InitRuns ==
  ASSUME Init
  PROVE  RunsInv
<1>1. \A a \in Aggregates : events[a] = <<>>
  BY DEF Init
<1>2. \A c \in Callers : pc[c] = "idle"
  BY DEF Init
<1>3. OneCompletionPerRun /\ \A a \in Aggregates : ~ OpenCompletion(a)
  BY <1>1 DEF OneCompletionPerRun, OpenCompletion
<1> QED
  BY <1>2, <1>3, InitReplays DEF RunsInv

(* A run of a loop completes at most once, also when it is cancelled or    *)
(* failed before or after it completes: between two loop.completed events  *)
(* of an aggregate comes a loop.started, if the application serialises its *)
(* calls per aggregate and nothing fails.                                  *)
THEOREM RunsCompleteOnce ==
  ASSUME Isolated, NoFaults
  PROVE  Spec => []OneCompletionPerRun
<1>1. Init => RunsInv /\ AnswersInv
  BY InitRuns, InitIsHonest
<1>2. RunsInv /\ AnswersInv /\ [Next]_vars => (RunsInv /\ AnswersInv)'
  <2> SUFFICES ASSUME RunsInv, AnswersInv, [Next]_vars
               PROVE  (RunsInv /\ AnswersInv)'
    OBVIOUS
  <2>1. ReplayInv
    BY DEF RunsInv
  <2>2. LawInv'
    BY <2>1, NextIsLawful DEF ReplayInv
  <2>3. AnswersInv'
    BY NextIsHonest
  <2>4. ReplayInv'
    BY <2>1, <2>2, <2>3, NextReplays
  <2> QED
    BY <2>2, <2>3, <2>4, NextRuns
<1>3. RunsInv => OneCompletionPerRun
  BY DEF RunsInv
<1> QED
  BY <1>1, <1>2, <1>3, PTL DEF Spec

-----------------------------------------------------------------------------
(* The engine implements the lifecycle.                                    *)

(* The history of aggregate a as the lifecycle has it.                     *)
Committed(a) ==
  IF Pending(a) = {} THEN history[a]
  ELSE Append(history[a], RecordOf(call[CHOOSE c \in Pending(a) : TRUE]))

(* Only the history of the aggregate where the step is taken may change.   *)
LEMMA CommittedStep ==
  ASSUME ReplayInv, Isolated, NEW c \in Callers, NEW b, StepsAt(c, b)
  PROVE  /\ CommittedHistory[b] = Committed(b)
         /\ CommittedHistory' = [CommittedHistory EXCEPT ![b] = Committed(b)']
         /\ Committed(b) = IF pc[c] = "record" THEN Append(history[b], RecordOf(call[c]))
                           ELSE history[b]
         /\ pc'[c] # "record" => Committed(b)' = history'[b]
         /\ \A w : pc'[c] = "record" /\ call'[c] = w =>
              Committed(b)' = Append(history'[b], RecordOf(w))
<1>1. /\ b \in Serves[c] /\ b \in Aggregates /\ Others(c)
      /\ pc[c] # "idle" => call[c].agg = b
      /\ pc'[c] # "idle" => call'[c].agg = b
  BY DEF StepsAt
<1>2. Pending(b) = IF pc[c] = "record" THEN {c} ELSE {}
  BY <1>1, PendingAt
<1>3. Committed(b) = IF pc[c] = "record" THEN Append(history[b], RecordOf(call[c]))
                     ELSE history[b]
  BY <1>2 DEF Committed
<1>4. Pending(b)' = IF pc'[c] = "record" THEN {c} ELSE {}
  <2>1. ASSUME NEW d \in Callers \ {c}
        PROVE  d \notin Pending(b)'
    <3>1. d \notin Pending(b)
      BY <1>2
    <3> QED
      BY <1>1, <3>1 DEF Pending, Others
  <2>2. c \in Pending(b)' <=> pc'[c] = "record"
    BY <1>1 DEF Pending
  <2> QED
    BY <2>1, <2>2 DEF Pending
<1>5. ASSUME pc'[c] = "record", NEW w, w = call'[c]
      PROVE  Committed(b)' = Append(history'[b], RecordOf(w))
  <2>1. (CHOOSE d \in Pending(b)' : TRUE) = c
    BY <1>4, <1>5
  <2> QED
    BY <1>4, <1>5, <2>1 DEF Committed, RecordOf
<1>6. pc'[c] # "record" => Committed(b)' = history'[b]
  BY <1>4 DEF Committed
<1>7. ASSUME NEW a \in Aggregates, a # b
      PROVE  Committed(a)' = Committed(a)
  <2>1. c \notin Pending(a) /\ c \notin Pending(a)' /\ history'[a] = history[a]
    BY <1>1, <1>7 DEF Pending, StepsAt
  <2>2. ASSUME NEW d \in Callers \ {c}
        PROVE  (d \in Pending(a)' <=> d \in Pending(a)) /\ call'[d] = call[d]
    BY <1>1 DEF Pending, Others
  <2>3. Pending(a)' = Pending(a)
    BY <2>1, <2>2 DEF Pending
  <2>4. CASE Pending(a) = {}
    BY <2>1, <2>3, <2>4 DEF Committed
  <2>5. CASE Pending(a) # {}
    <3>1. PICK d : d = CHOOSE x \in Pending(a) : TRUE
      OBVIOUS
    <3>2. d \in Pending(a)
      BY <2>5, <3>1
    <3>3. d \in Callers \ {c}
      BY <2>1, <3>2 DEF Pending
    <3>4. call'[d] = call[d]
      BY <2>2, <3>3
    <3>5. d = CHOOSE x \in Pending(a)' : TRUE
      BY <2>3, <3>1
    <3> QED
      BY <2>1, <2>3, <2>5, <3>1, <3>4, <3>5 DEF Committed, RecordOf
  <2> QED
    BY <2>4, <2>5
<1>8. CommittedHistory = [a \in Aggregates |-> Committed(a)]
  BY DEF CommittedHistory, Committed
<1>9. CommittedHistory' = [a \in Aggregates |-> Committed(a)']
  BY DEF CommittedHistory, Committed
<1> QED
  BY <1>1, <1>3, <1>5, <1>6, <1>7, <1>8, <1>9

(* The lifecycle stutters.                                                 *)
Stutters == UNCHANGED <<instances, CommittedHistory, since>>

LEMMA KeepsCommitted ==
  ASSUME ReplayInv, Isolated, NEW c \in Callers, NEW b, StepsAt(c, b),
         UNCHANGED <<instances, history, since>>, pc[c] # "record", pc'[c] # "record"
  PROVE  Stutters
<1>1. Committed(b) = history[b] /\ Committed(b)' = history[b]
  BY CommittedStep
<1>2. CommittedHistory' = [CommittedHistory EXCEPT ![b] = CommittedHistory[b]]
  BY <1>1, CommittedStep
<1>3. CommittedHistory' = CommittedHistory
  BY <1>2 DEF CommittedHistory
<1> QED
  BY <1>3 DEF Stutters

LEMMA SameStoreStutters ==
  ASSUME UNCHANGED <<instances, history, since, pc, call>>
  PROVE  Stutters
BY DEF Stutters, CommittedHistory, Pending, RecordOf

LEMMA ReturnsAtOnceStutters ==
  ASSUME NEW c, NEW x, ReturnsAtOnce(c, x)
  PROVE  Stutters
BY SameStoreStutters DEF ReturnsAtOnce, store

LEMMA BeginStutters ==
  ASSUME ReplayInv, Isolated, NEW c \in Callers, NEW a, Begin(c, a),
         NEW k \in {"save", "emit"}, NEW w, Enters(c, k, w), UNCHANGED store, w.agg = a
  PROVE  Stutters
<1>1. TypeInv /\ pc[c] = "idle" /\ a \in Serves[c] /\ a \in Aggregates
  BY EngineAssumption DEF ReplayInv, LawInv, Begin
<1>2. /\ Others(c) /\ pc'[c] = k /\ call'[c] = w
      /\ UNCHANGED <<instances, history, since>>
  BY <1>1, EntersOthers DEF store
<1>3. StepsAt(c, a)
  BY <1>1, <1>2 DEF StepsAt
<1> QED
  BY <1>1, <1>2, <1>3, KeepsCommitted

(* A call that begins has not done anything yet.                           *)
LEMMA StartCallStutters ==
  ASSUME ReplayInv, Isolated, NEW c \in Callers, NEW a, NEW l, StartCall(c, a, l)
  PROVE  Stutters
<1>1. CASE ReturnsAtOnce(c, "threw")
  BY <1>1, ReturnsAtOnceStutters
<1>2. CASE /\ Enters(c, "save",
                NewCall("start", a, Definitions[l].initial, NewInstance(l)))
           /\ UNCHANGED store
  <2>1. PICK w : w = NewCall("start", a, Definitions[l].initial, NewInstance(l))
    OBVIOUS
  <2>2. w.agg = a
    BY <2>1 DEF NewCall
  <2>3. Enters(c, "save", w)
    BY <1>2, <2>1
  <2> QED
    BY <1>2, <2>2, <2>3, BeginStutters DEF StartCall
<1> QED
  BY <1>1, <1>2 DEF StartCall

LEMMA CloseCallStutters ==
  ASSUME ReplayInv, Isolated, NEW c \in Callers, NEW a, NEW op, NEW status,
         CloseCall(c, a, op, status)
  PROVE  Stutters
<1>1. CASE ReturnsAtOnce(c, "threw")
  BY <1>1, ReturnsAtOnceStutters
<1>2. CASE /\ Enters(c, "save",
                NewCall(op, a, instances[a].state, Closed(instances[a], status)))
           /\ UNCHANGED store
  <2>1. PICK w : w = NewCall(op, a, instances[a].state, Closed(instances[a], status))
    OBVIOUS
  <2>2. w.agg = a
    BY <2>1 DEF NewCall
  <2>3. Enters(c, "save", w)
    BY <1>2, <2>1
  <2> QED
    BY <1>2, <2>2, <2>3, BeginStutters DEF CloseCall
<1> QED
  BY <1>1, <1>2 DEF CloseCall

LEMMA TransitionRequestedStutters ==
  ASSUME ReplayInv, Isolated, NEW c \in Callers, NEW a, NEW t,
         NEW actor \in ActorTypes, NEW constrained,
         TransitionRequested(c, a, t, actor, constrained)
  PROVE  Stutters
<1>1. PICK w : LetIn(c, a, w)
  BY RequestedCallIsFresh DEF ReplayInv, LawInv
<1>2. Begin(c, a) /\ UNCHANGED store
  BY DEF TransitionRequested
<1> QED
  BY <1>1, <1>2, BeginStutters DEF LetIn

LEMMA SaveRecordStutters ==
  ASSUME ReplayInv, AnswersInv, Isolated, NEW c \in Callers, SaveRecord(c)
  PROVE  Stutters
<1>1. PICK w : w = call[c]
  OBVIOUS
<1>2. PICK b : b = w.agg
  OBVIOUS
<1>3. /\ pc[c] = "record" /\ w \in Call /\ b \in Aggregates /\ b \in Serves[c]
      /\ TypeInv /\ TypeOK
  BY <1>1, <1>2, CallerFields DEF SaveRecord
<1>4. PICK r : r = RecordOf(w)
  OBVIOUS
<1>5. /\ history' = [history EXCEPT ![b] = Append(@, r)]
      /\ UNCHANGED <<instances, since>>
  BY <1>1, <1>2, <1>4 DEF SaveRecord
<1>6. history'[b] = Append(history[b], r) /\ \A a \in Aggregates \ {b} : history'[a] = history[a]
  BY <1>3, <1>5 DEF TypeOK
<1>7. /\ Others(c) /\ SameCall(call'[c], w) /\ pc'[c] = "emit"
  BY <1>1, <1>3, SaveRecordOthers
<1>8. StepsAt(c, b)
  BY <1>1, <1>2, <1>3, <1>5, <1>6, <1>7 DEF StepsAt, SameCall
<1>9. Committed(b) = Append(history[b], r) /\ Committed(b)' = history'[b]
  BY <1>1, <1>3, <1>4, <1>7, <1>8, CommittedStep
<1>10. CommittedHistory' = [CommittedHistory EXCEPT ![b] = CommittedHistory[b]]
  BY <1>6, <1>8, <1>9, CommittedStep
<1>11. CommittedHistory' = CommittedHistory
  BY <1>10 DEF CommittedHistory
<1> QED
  BY <1>5, <1>11 DEF Stutters

(* The operators of LoopDefinitions are the lifecycle's.                   *)
LEMMA SameDefinitions ==
  /\ Lifecycle!CallIds = CallIds
  /\ \A inst : Lifecycle!IsActive(inst) <=> IsActive(inst)
  /\ \A l : /\ Lifecycle!NewInstance(l) = NewInstance(l)
            /\ Lifecycle!Transitions(l) = Transitions(l)
  /\ \A l, x : /\ Lifecycle!IsTerminal(l, x) <=> IsTerminal(l, x)
               /\ Lifecycle!RequiresGovernedEvidence(l, x) <=> RequiresGovernedEvidence(l, x)
  /\ \A inst, x : /\ Lifecycle!Moved(inst, x) = Moved(inst, x)
                  /\ Lifecycle!Closed(inst, x) = Closed(inst, x)
<1>1. Lifecycle!CallIds = CallIds
  BY DEF Lifecycle!CallIds, CallIds
<1>2. \A inst : Lifecycle!IsActive(inst) <=> IsActive(inst)
  BY DEF Lifecycle!IsActive, IsActive
<1>3. \A l : /\ Lifecycle!NewInstance(l) = NewInstance(l)
             /\ Lifecycle!Transitions(l) = Transitions(l)
  BY DEF Lifecycle!NewInstance, NewInstance, Lifecycle!Transitions, Transitions
<1>4. \A l, x :
        /\ Lifecycle!IsTerminal(l, x) <=> IsTerminal(l, x)
        /\ Lifecycle!RequiresGovernedEvidence(l, x) <=> RequiresGovernedEvidence(l, x)
  BY DEF Lifecycle!IsTerminal, IsTerminal, Lifecycle!RequiresGovernedEvidence,
         RequiresGovernedEvidence
<1>5. \A inst, x : Lifecycle!Moved(inst, x) = Moved(inst, x)
  BY DEF Lifecycle!Moved, Moved, Lifecycle!IsTerminal, IsTerminal
<1>6. \A inst, x : Lifecycle!Closed(inst, x) = Closed(inst, x)
  BY DEF Lifecycle!Closed, Closed
<1> QED
  BY <1>1, <1>2, <1>3, <1>4, <1>5, <1>6

(* The save of the instance is the step of the operation.                  *)
LEMMA SaveInstanceImplements ==
  ASSUME ReplayInv, AnswersInv, Isolated, NEW c \in Callers, SaveInstance(c)
  PROVE  Lifecycle!Next
<1>1. PICK w : w = call[c]
  OBVIOUS
<1>2. PICK b : b = w.agg
  OBVIOUS
<1>3. PICK inst : inst = instances[b]
  OBVIOUS
<1>4. /\ pc[c] = "save" /\ w \in Call /\ b \in Aggregates /\ b \in Serves[c]
      /\ CallIsFresh("save", w) /\ CallIsLawful("save", w) /\ CallShape("save", w)
      /\ w.result = "none" /\ TypeInv /\ TypeOK
      /\ w.op \in {"start", "cancel", "fail", "transition"}
  BY <1>1, <1>2, CallerFields DEF SaveInstance, Call, Operations
<1>5. /\ instances' = [instances EXCEPT ![b] = w.write]
      /\ since' = IF w.op = "start" THEN [since EXCEPT ![b] = Len(history[b])] ELSE since
      /\ history' = history
  BY <1>1, <1>2 DEF SaveInstance
<1>6. /\ instances'[b] = w.write
      /\ \A a \in Aggregates \ {b} :
           instances'[a] = instances[a] /\ history'[a] = history[a] /\ since'[a] = since[a]
  BY <1>4, <1>5 DEF TypeOK
<1>7. Others(c) /\ SameCall(call'[c], w)
  BY <1>1, <1>4, SaveInstanceOthers
<1>8. StepsAt(c, b)
  BY <1>1, <1>2, <1>4, <1>6, <1>7 DEF StepsAt, SameCall
<1>9. CommittedHistory[b] = history[b]
  BY <1>4, <1>8, CommittedStep
<1>10. ASSUME w.op # "transition"
       PROVE  CommittedHistory' = CommittedHistory
  <2>1. pc'[c] # "record"
    <3>1. PICK evs : evs = <<Ev(Announced(w.op), w.id, w.from)>>
      OBVIOUS
    <3>2. \E v : Emits(c, v, evs, "idle")
      BY <1>1, <1>10, <3>1 DEF SaveInstance
    <3>3. \E k \in {"idle", "emit"} : \E v : Enters(c, k, v)
      BY <3>2 DEF Emits
    <3> QED
      BY <1>4, <3>3, EntersOthers
  <2>2. Committed(b)' = CommittedHistory[b]
    BY <1>5, <1>8, <1>9, <2>1, CommittedStep
  <2>3. CommittedHistory' = [CommittedHistory EXCEPT ![b] = CommittedHistory[b]]
    BY <1>8, <2>2, CommittedStep
  <2> QED
    BY <2>3 DEF CommittedHistory
<1>11. CASE w.op = "start"
  <2>1. PICK l \in DOMAIN Definitions : w.write = NewInstance(l) /\ ~ IsActive(inst)
    BY <1>2, <1>3, <1>4, <1>11 DEF CallIsFresh
  <2>2. Lifecycle!Start(b, l)
    BY <1>3, <1>5, <1>9, <1>10, <1>11, <2>1, SameDefinitions DEF Lifecycle!Start
  <2> QED
    BY <1>4, <2>2 DEF Lifecycle!Next
<1>12. CASE w.op \in {"cancel", "fail"}
  <2>1. PICK status \in {"cancelled", "failed"} :
          inst # NoInstance /\ w.write = Closed(inst, status)
    BY <1>2, <1>3, <1>4, <1>12 DEF CallIsFresh
  <2>2. instances' = [instances EXCEPT ![b] = Closed(instances[b], status)]
    BY <1>3, <1>5, <2>1
  <2>3. Lifecycle!Close(b, status)
    BY <1>3, <1>5, <1>10, <1>12, <2>1, <2>2, SameDefinitions DEF Lifecycle!Close
  <2> QED
    BY <1>4, <2>1, <2>3 DEF Lifecycle!Next
<1>13. CASE w.op = "transition"
  <2>1. pc'[c] = "record" /\ call'[c] = w
    BY <1>1, <1>4, <1>13, EntersOthers DEF SaveInstance
  <2>2. /\ inst # NoInstance /\ ~ IsClosed(inst) /\ inst \in LoopInstance
        /\ w.from = inst.state /\ w.write = Moved(inst, w.tr)
        /\ w.tr \in TransitionSpecs
    BY <1>2, <1>3, <1>4, <1>13 DEF CallIsFresh, CallShape, TypeOK
  <2>3. w.write.loop = inst.loop
    BY <2>2, MovedType
  <2>4. PICK i \in DOMAIN Transitions(inst.loop) : w.tr = Transitions(inst.loop)[i]
    BY <1>4, <1>13, <2>3 DEF CallIsLawful
  <2>5. /\ w.tr.from = inst.state /\ w.actor \in w.tr.actors
        /\ w.warnings \subseteq w.tr.soft
        /\ RequiresGovernedEvidence(inst.loop, w.tr) => w.snapshot
    BY <1>4, <1>13, <2>2, <2>3 DEF CallIsLawful, Heads
  <2>6. /\ w.id \in CallIds /\ w.actor \in ActorTypes /\ w.warnings \in SUBSET GuardIds
        /\ w.snapshot \in BOOLEAN
    BY <1>4, <1>13 DEF Call, CallShape
  <2>7. PICK r : r = RecordOf(w)
    OBVIOUS
  <2>8. r = [call |-> w.id, loop |-> inst.loop, tid |-> w.tr.id, from |-> w.tr.from,
             to |-> w.tr.to, actor |-> w.actor, warnings |-> w.warnings,
             snapshot |-> w.snapshot]
    BY <2>2, <2>3, <2>5, <2>7 DEF RecordOf
  <2>9. CommittedHistory' = [CommittedHistory EXCEPT ![b] = Append(CommittedHistory[b], r)]
    BY <1>5, <1>8, <1>9, <2>1, <2>7, CommittedStep
  <2>10. Lifecycle!Advance(b, i, w.id, w.actor, w.warnings, w.snapshot)
    <3>1. inst.status # "completed" /\ ~ IsTerminal(inst.loop, inst.state)
      BY <2>2 DEF IsClosed
    <3>2. instances' = [instances EXCEPT ![b] = Moved(inst, w.tr)]
      BY <1>5, <2>2
    <3>3. since' = since
      BY <1>5, <1>13
    <3> QED
      BY <1>3, <2>2, <2>4, <2>5, <2>8, <2>9, <3>1, <3>2, <3>3, SameDefinitions
      DEF Lifecycle!Advance
  <2> QED
    BY <1>3, <1>4, <2>2, <2>4, <2>6, <2>10, SameDefinitions DEF Lifecycle!Next
<1> QED
  BY <1>4, <1>11, <1>12, <1>13

LEMMA NextImplements ==
  ASSUME ReplayInv, AnswersInv, AnswersInv', LawInv', Isolated, NoFaults, [Next]_vars
  PROVE  [Lifecycle!Next]_(Lifecycle!vars)
<1>1. TypeInv
  BY DEF ReplayInv, LawInv
<1>2. CASE UNCHANGED vars
  <2>1. Stutters
    BY <1>2, SameStoreStutters DEF vars
  <2> QED
    BY <2>1 DEF Stutters, Lifecycle!vars
<1>3. ASSUME NEW c \in Callers, NEW a \in Aggregates, NEW l \in LoopIds, StartCall(c, a, l)
      PROVE  Stutters
  BY <1>3, StartCallStutters
<1>4. ASSUME NEW c \in Callers, NEW a \in Aggregates, NEW t \in TransitionIds,
             NEW actor \in ActorTypes, NEW constrained \in BOOLEAN,
             \/ TransitionRefused(c, a, t, actor, constrained)
             \/ TransitionRequested(c, a, t, actor, constrained)
      PROVE  Stutters
  <2>1. ASSUME TransitionRefused(c, a, t, actor, constrained)
        PROVE  Stutters
    <3>1. \E x : ReturnsAtOnce(c, x)
      BY <2>1 DEF TransitionRefused
    <3> QED
      BY <3>1, ReturnsAtOnceStutters
  <2> QED
    BY <1>4, <2>1, TransitionRequestedStutters
<1>5. ASSUME NEW c \in Callers, NEW a \in Aggregates, CancelCall(c, a) \/ FailCall(c, a)
      PROVE  Stutters
  BY <1>5, CloseCallStutters DEF CancelCall, FailCall
<1>6. ASSUME NEW c \in Callers, EvaluateGuards(c) \/ CommitEvidence(c) \/ Deliver(c)
      PROVE  Stutters
  <2>1. PICK b : b = call[c].agg
    OBVIOUS
  <2>2. /\ StepsAt(c, b) /\ UNCHANGED <<instances, history, since>>
        /\ pc[c] # "record" /\ pc'[c] # "record"
    BY <1>6, <2>1, WaitingReplays
  <2> QED
    BY <2>2, KeepsCommitted
<1>7. ASSUME NEW c \in Callers, SaveRecord(c)
      PROVE  Stutters
  BY <1>7, SaveRecordStutters
<1>8. ASSUME NEW c \in Callers, SaveInstance(c)
      PROVE  Lifecycle!Next
  BY <1>8, SaveInstanceImplements
<1>9. Stutters => UNCHANGED Lifecycle!vars
  BY DEF Stutters, Lifecycle!vars
<1> QED
  BY <1>1, <1>2, <1>3, <1>4, <1>5, <1>6, <1>7, <1>8, <1>9, FaultlessStep

(* The engine, with its several store calls and events per operation,      *)
(* implements the loop lifecycle, where every operation is one atomic step *)
(* on the instance and its history: if the application serialises its      *)
(* calls per aggregate and nothing fails, an operation takes effect at its *)
(* first save.                                                             *)
THEOREM EngineImplementsLifecycle ==
  ASSUME Isolated, NoFaults
  PROVE  Spec => ImplementsLifecycle
<1>1. Init => Lifecycle!Init
  <2> SUFFICES ASSUME Init
               PROVE  Lifecycle!Init
    OBVIOUS
  <2>1. \A a \in Aggregates : Pending(a) = {} /\ history[a] = <<>>
    BY DEF Init, Pending
  <2>2. CommittedHistory = [a \in Aggregates |-> <<>>]
    BY <2>1 DEF CommittedHistory
  <2> QED
    BY <2>2 DEF Init, Lifecycle!Init
<1>2. /\ ReplayInv /\ AnswersInv /\ (ReplayInv /\ AnswersInv)' /\ [Next]_vars
      => [Lifecycle!Next]_(Lifecycle!vars)
  BY NextImplements DEF ReplayInv
<1> QED
  BY <1>1, <1>2, ReplayAlways, PTL DEF Spec, ImplementsLifecycle, Lifecycle!Spec
=============================================================================
