-------------------------- MODULE LoopAnswersProofs --------------------------
(***************************************************************************)
(* What a call of LoopEngine answers and announces is what it did: proofs  *)
(* for every set of callers, aggregates, loops and definitions,            *)
(* overlapping calls and any number of faults included.                    *)
(*                                                                         *)
(* A call leaves marks under its id: records, snapshots, events.  A step   *)
(* leaves marks of the call that takes it only, so the invariant of the    *)
(* other calls and of the ids is kept for free, and each action is left    *)
(* with what it does to its own call.                                      *)
(***************************************************************************)
EXTENDS LoopEngineProofs

-----------------------------------------------------------------------------
(* The marks of a call.                                                    *)

LEMMA RecordsMember ==
  ASSUME NEW id
  PROVE  \A p : p \in RecordsOfCall(id) <=>
           \E a \in Aggregates : \E i \in Positions(a) :
             p = <<a, i>> /\ history[a][i].call = id
BY DEF RecordsOfCall

(* A step leaves the marks of call id alone.                               *)
SameMarks(id) ==
  /\ RecordsOfCall(id)' = RecordsOfCall(id)
  /\ Kept(id)' <=> Kept(id)
  /\ \A type \in EventTypes : Said(type, id)' <=> Said(type, id)

HistoryGrows ==
  \A a \in Aggregates : \A i \in Positions(a) :
    i \in Positions(a)' /\ history'[a][i] = history[a][i]

LEMMA NoRecordMarks ==
  ASSUME UNCHANGED history
  PROVE  HistoryGrows /\ \A id : RecordsOfCall(id)' = RecordsOfCall(id)
BY DEF HistoryGrows, RecordsOfCall, Positions

LEMMA NoSnapshotMarks ==
  ASSUME UNCHANGED snapshots
  PROVE  \A id : Kept(id)' <=> Kept(id)
BY DEF Kept

LEMMA NoEventMarks ==
  ASSUME UNCHANGED events
  PROVE  \A type, id : Said(type, id)' <=> Said(type, id)
BY DEF Said, Saw

LEMMA NoMarks ==
  ASSUME UNCHANGED <<history, snapshots, events>>
  PROVE  HistoryGrows /\ \A id : SameMarks(id)
BY NoRecordMarks, NoSnapshotMarks, NoEventMarks DEF SameMarks

(* What appending e to the sequence of aggregate b does, for the history   *)
(* and for the events.                                                     *)
LEMMA Appended1 ==
  ASSUME NEW S, NEW f \in [Aggregates -> Seq(S)], NEW b \in Aggregates, NEW e \in S,
         NEW g, g = [f EXCEPT ![b] = Append(@, e)]
  PROVE  /\ Len(f[b]) \in Nat
         /\ DOMAIN g[b] = DOMAIN f[b] \cup {Len(f[b]) + 1}
         /\ Len(f[b]) + 1 \notin DOMAIN f[b]
         /\ DOMAIN f[b] = 1 .. Len(f[b])
         /\ g[b][Len(f[b]) + 1] = e
         /\ \A i \in DOMAIN f[b] : g[b][i] = f[b][i]
         /\ \A a \in Aggregates \ {b} : g[a] = f[a]
<1>1. f[b] \in Seq(S) /\ g[b] = Append(f[b], e)
  OBVIOUS
<1>2. Len(f[b]) \in Nat /\ DOMAIN f[b] = 1 .. Len(f[b])
  BY <1>1
<1>3. /\ Append(f[b], e) \in Seq(S) /\ Len(Append(f[b], e)) = Len(f[b]) + 1
      /\ \A i \in 1 .. Len(f[b]) : Append(f[b], e)[i] = f[b][i]
      /\ Append(f[b], e)[Len(f[b]) + 1] = e
  BY <1>1, AppendProperties
<1>4. DOMAIN g[b] = 1 .. (Len(f[b]) + 1)
  BY <1>1, <1>3
<1>5. \A a \in Aggregates \ {b} : g[a] = f[a]
  OBVIOUS
<1> QED
  BY <1>1, <1>2, <1>3, <1>4, <1>5

LEMMA SaveRecordMarks ==
  ASSUME TypeInv, NEW c \in Callers, SaveRecord(c), NEW w, w = call[c],
         NEW n, n = Len(history[w.agg]) + 1
  PROVE  /\ HistoryGrows
         /\ RecordsOfCall(w.id)' = RecordsOfCall(w.id) \cup {<<w.agg, n>>}
         /\ n \in Positions(w.agg)' /\ history'[w.agg][n] = RecordOf(w)
         /\ \A id \in CallIds \ {w.id} : SameMarks(id)
         /\ \A id : (Kept(id)' <=> Kept(id)) /\ \A type : Said(type, id)' <=> Said(type, id)
<1>1. CallShape("record", w)
  BY DEF TypeInv, SaveRecord
<1>2. PICK b \in Aggregates : b = w.agg
  BY <1>1 DEF CallShape, Call
<1>3. PICK r \in TransitionRecord : r = RecordOf(w) /\ r.call = w.id
  <2>1. RecordOf(w) \in TransitionRecord
    BY <1>1, RecordOfType
  <2>2. RecordOf(w).call = w.id
    BY DEF RecordOf
  <2> QED
    BY <2>1, <2>2
<1>4. /\ history \in [Aggregates -> Seq(TransitionRecord)]
      /\ history' = [history EXCEPT ![b] = Append(@, r)]
      /\ UNCHANGED <<snapshots, events>>
  BY <1>2, <1>3 DEF TypeInv, TypeOK, SaveRecord
<1>5. /\ DOMAIN history'[b] = DOMAIN history[b] \cup {n}
      /\ n \notin DOMAIN history[b]
      /\ history'[b][n] = r
      /\ \A i \in DOMAIN history[b] : history'[b][i] = history[b][i]
      /\ \A a \in Aggregates \ {b} : history'[a] = history[a]
  BY <1>2, <1>4, Appended1
<1>6. HistoryGrows
  BY <1>5 DEF HistoryGrows, Positions
<1>7. ASSUME NEW id, NEW p
      PROVE  p \in RecordsOfCall(id)' <=>
               p \in RecordsOfCall(id) \/ (id = w.id /\ p = <<b, n>>)
  <2>1. p \in RecordsOfCall(id) <=>
          \E a \in Aggregates : \E i \in DOMAIN history[a] :
            p = <<a, i>> /\ history[a][i].call = id
    BY DEF RecordsOfCall, Positions
  <2>2. p \in RecordsOfCall(id)' <=>
          \E a \in Aggregates : \E i \in DOMAIN history'[a] :
            p = <<a, i>> /\ history'[a][i].call = id
    BY DEF RecordsOfCall, Positions
  <2>3. ASSUME p \in RecordsOfCall(id)
        PROVE  p \in RecordsOfCall(id)'
    BY <2>1, <2>2, <2>3, <1>5
  <2>4. ASSUME id = w.id, p = <<b, n>>
        PROVE  p \in RecordsOfCall(id)'
    BY <2>2, <2>4, <1>3, <1>5
  <2>5. ASSUME p \in RecordsOfCall(id)'
        PROVE  p \in RecordsOfCall(id) \/ (id = w.id /\ p = <<b, n>>)
    <3>1. PICK a \in Aggregates : \E i \in DOMAIN history'[a] :
            p = <<a, i>> /\ history'[a][i].call = id
      BY <2>2, <2>5
    <3>2. PICK i \in DOMAIN history'[a] : p = <<a, i>> /\ history'[a][i].call = id
      BY <3>1
    <3>3. CASE a = b /\ i = n
      BY <3>2, <3>3, <1>3, <1>5
    <3>4. CASE ~ (a = b /\ i = n)
      <4>1. i \in DOMAIN history[a] /\ history'[a][i] = history[a][i]
        BY <3>4, <1>5
      <4> QED
        BY <4>1, <3>2, <2>1
    <3> QED
      BY <3>3, <3>4
  <2> QED
    BY <2>3, <2>4, <2>5
<1>8. RecordsOfCall(w.id)' = RecordsOfCall(w.id) \cup {<<b, n>>}
  BY <1>7
<1>9. ASSUME NEW id \in CallIds \ {w.id}
      PROVE  RecordsOfCall(id)' = RecordsOfCall(id)
  <2>1. \A p : p \in RecordsOfCall(id)' <=> p \in RecordsOfCall(id)
    BY <1>7
  <2> QED
    BY <2>1
<1>10. \A id : (Kept(id)' <=> Kept(id)) /\ \A type : Said(type, id)' <=> Said(type, id)
  BY <1>4, NoSnapshotMarks, NoEventMarks
<1> QED
  BY <1>2, <1>3, <1>5, <1>6, <1>8, <1>9, <1>10 DEF SameMarks, Positions

LEMMA CommitEvidenceMarks ==
  ASSUME TypeInv, NEW c \in Callers, CommitEvidence(c), NEW w, w = call[c]
  PROVE  /\ HistoryGrows
         /\ \A id \in CallIds \ {w.id} : SameMarks(id)
         /\ \A id : RecordsOfCall(id)' = RecordsOfCall(id)
         /\ \A type, id : Said(type, id)' <=> Said(type, id)
         /\ snapshots' = snapshots => (Kept(w.id)' <=> Kept(w.id))
<1>1. UNCHANGED <<history, events>>
  BY DEF CommitEvidence
<1>2. /\ HistoryGrows
      /\ \A id : RecordsOfCall(id)' = RecordsOfCall(id)
      /\ \A type, id : Said(type, id)' <=> Said(type, id)
  BY <1>1, NoRecordMarks, NoEventMarks
<1>3. \A s : s \in snapshots' /\ s \notin snapshots => s = [call |-> w.id, agg |-> w.agg]
  BY DEF CommitEvidence
<1>4. snapshots \subseteq snapshots'
  BY DEF CommitEvidence
<1>5. \A id \in CallIds \ {w.id} : Kept(id)' <=> Kept(id)
  BY <1>3, <1>4 DEF Kept
<1> QED
  BY <1>2, <1>5, NoSnapshotMarks DEF SameMarks

LEMMA DeliverMarks ==
  ASSUME TypeInv, NEW c \in Callers, Deliver(c), NEW w, w = call[c],
         NEW e, e = Head(w.outbox), e.call = w.id
  PROVE  /\ HistoryGrows
         /\ \A id \in CallIds \ {w.id} : SameMarks(id)
         /\ \A id : RecordsOfCall(id)' = RecordsOfCall(id) /\ (Kept(id)' <=> Kept(id))
         /\ \A type : Said(type, w.id)' <=> Said(type, w.id) \/ type = e.type
         /\ \A a \in Aggregates : \A i \in DOMAIN events'[a] :
              \/ i \in DOMAIN events[a] /\ events'[a][i] = events[a][i]
              \/ a = w.agg /\ events'[a][i] = e
<1>1. CallShape("emit", w)
  BY DEF TypeInv, Deliver
<1>2. PICK b \in Aggregates : b = w.agg
  BY <1>1 DEF CallShape, Call
<1>3. e \in Event
  BY <1>1, HeadTailProperties DEF CallShape, Call
<1>4. /\ events \in [Aggregates -> Seq(Event)]
      /\ events' = [events EXCEPT ![b] = Append(@, e)]
      /\ UNCHANGED <<history, snapshots>>
  BY <1>2 DEF TypeInv, TypeOK, Deliver, store
<1>5. PICK n : n = Len(events[b]) + 1
  OBVIOUS
<1>6. /\ DOMAIN events'[b] = DOMAIN events[b] \cup {n}
      /\ n \notin DOMAIN events[b]
      /\ events'[b][n] = e
      /\ \A i \in DOMAIN events[b] : events'[b][i] = events[b][i]
      /\ \A a \in Aggregates \ {b} : events'[a] = events[a]
  BY <1>2, <1>3, <1>4, <1>5, Appended1
<1>7. ASSUME NEW type, NEW id
      PROVE  Said(type, id)' <=> Said(type, id) \/ (id = w.id /\ type = e.type)
  <2>1. ASSUME Said(type, id)
        PROVE  Said(type, id)'
    BY <2>1, <1>6 DEF Said, Saw
  <2>2. ASSUME id = w.id, type = e.type
        PROVE  Said(type, id)'
    BY <2>2, <1>6 DEF Said, Saw
  <2>3. ASSUME Said(type, id)'
        PROVE  Said(type, id) \/ (id = w.id /\ type = e.type)
    BY <2>3, <1>6 DEF Said, Saw
  <2> QED
    BY <2>1, <2>2, <2>3
<1>8. HistoryGrows /\ \A id : RecordsOfCall(id)' = RecordsOfCall(id) /\ (Kept(id)' <=> Kept(id))
  BY <1>4, NoRecordMarks, NoSnapshotMarks
<1>9. \A a \in Aggregates : \A i \in DOMAIN events'[a] :
        \/ i \in DOMAIN events[a] /\ events'[a][i] = events[a][i]
        \/ a = w.agg /\ events'[a][i] = e
  BY <1>2, <1>6
<1> QED
  BY <1>7, <1>8, <1>9 DEF SameMarks

-----------------------------------------------------------------------------
(* The invariant, id by id and event by event.                             *)

IsHonest(id) ==
  /\ outcome[id] = "executed" => RecordsOfCall(id) # {}
  /\ outcome[id] \in Refusals => MovedNothing(id) /\ ~ Kept(id)
  /\ \A p, q \in RecordsOfCall(id) : p = q

LEMMA AnswersById == AnswersAreHonest <=> \A id \in CallIds : IsHonest(id)
<1>1. ASSUME NEW id
      PROVE  (\A p, q \in RecordsOfCall(id) : p = q) =>
               (RecordsOfCall(id) # {} <=>
                  \E p \in RecordsOfCall(id) : RecordsOfCall(id) = {p})
  <2>1. ASSUME \A p, q \in RecordsOfCall(id) : p = q, NEW p \in RecordsOfCall(id)
        PROVE  RecordsOfCall(id) = {p}
    BY <2>1
  <2> QED
    BY <2>1
<1>2. ASSUME NEW id
      PROVE  ((\A a \in Aggregates : ~ Saw(a, "executed", id) /\ ~ Saw(a, "completed", id))
                <=> ~ Said("executed", id) /\ ~ Said("completed", id))
             /\ (Kept(id) <=> \E s \in snapshots : s.call = id)
  BY DEF Said, Kept
<1> QED
  BY <1>1, <1>2 DEF AnswersAreHonest, IsHonest, MovedNothing

EventHolds(a, e) ==
  /\ e.type \in {"executed", "completed"} =>
       \E j \in Positions(a) :
         /\ history[a][j].call = e.call /\ history[a][j].to = e.state
         /\ e.type = "completed" => IsTerminal(history[a][j].loop, e.state)
  /\ e.type = "blocked" => RecordsOfCall(e.call) = {}

LEMMA EventsOneByOne ==
  EventsAreHonest <=> \A a \in Aggregates : \A i \in DOMAIN events[a] :
                        EventHolds(a, events[a][i])
<1>1. ASSUME NEW a \in Aggregates, NEW i \in DOMAIN events[a], NEW e, e = events[a][i],
             NEW moves, moves = {j \in Positions(a) :
                history[a][j].call = e.call /\ history[a][j].to = e.state}
      PROVE  EventHolds(a, e) <=>
               /\ e.type = "executed" => moves # {}
               /\ e.type = "completed" =>
                    \E j \in moves : IsTerminal(history[a][j].loop, e.state)
               /\ e.type = "blocked" => RecordsOfCall(e.call) = {}
  BY <1>1 DEF EventHolds
<1> QED
  BY <1>1 DEF EventsAreHonest

(* A new record takes nothing from an event, unless it is of a blocked call.*)
LEMMA EventsStillHold ==
  ASSUME EventsAreHonest, HistoryGrows, UNCHANGED events, events \in [Aggregates -> Seq(Event)],
         \A id \in CallIds : RecordsOfCall(id)' = RecordsOfCall(id) \/ ~ Said("blocked", id)
  PROVE  EventsAreHonest'
<1>1. ASSUME NEW a \in Aggregates, NEW i \in DOMAIN events[a],
             NEW e, e = events[a][i]
      PROVE  EventHolds(a, e)'
  <2>1. EventHolds(a, e) /\ e.call \in CallIds
    <3>1. e \in Event
      BY <1>1
    <3> QED
      BY <1>1, <3>1, EventsOneByOne DEF Event
  <2>2. e.type = "blocked" => Said("blocked", e.call)
    BY <1>1 DEF Said, Saw
  <2>3. e.type = "blocked" => RecordsOfCall(e.call)' = {}
    BY <2>1, <2>2 DEF EventHolds
  <2>4. ASSUME e.type \in {"executed", "completed"}
        PROVE  \E j \in Positions(a)' :
                 /\ history'[a][j].call = e.call /\ history'[a][j].to = e.state
                 /\ e.type = "completed" => IsTerminal(history'[a][j].loop, e.state)
    <3>1. PICK j \in Positions(a) :
            /\ history[a][j].call = e.call /\ history[a][j].to = e.state
            /\ e.type = "completed" => IsTerminal(history[a][j].loop, e.state)
      BY <2>1, <2>4 DEF EventHolds
    <3> QED
      BY <3>1 DEF HistoryGrows
  <2> QED
    BY <2>3, <2>4 DEF EventHolds
<1>2. (\A a \in Aggregates : \A i \in DOMAIN events[a] : EventHolds(a, events[a][i]))'
  BY <1>1
<1> QED
  BY <1>2, EventsOneByOne, PTL

(* The marks of a call that took no step say the same of it.               *)
LEMMA SameMarksSameHonesty ==
  ASSUME NEW id, SameMarks(id), outcome'[id] = outcome[id]
  PROVE  /\ IsHonest(id) => IsHonest(id)'
         /\ Undrawn(id) => Undrawn(id)'
         /\ MovedNothing(id)' <=> MovedNothing(id)
         /\ Kept(id)' <=> Kept(id)
         /\ Said("blocked", id)' <=> Said("blocked", id)
<1>1. /\ Said("executed", id)' <=> Said("executed", id)
      /\ Said("completed", id)' <=> Said("completed", id)
      /\ Said("blocked", id)' <=> Said("blocked", id)
      /\ RecordsOfCall(id)' = RecordsOfCall(id)
      /\ Kept(id)' <=> Kept(id)
  BY DEF SameMarks, EventTypes
<1> QED
  BY <1>1 DEF IsHonest, Undrawn, MovedNothing

LEMMA SameCallStaysHonest ==
  ASSUME NEW at, NEW w, CallIsHonest(at, w), SameMarks(w.id), HistoryGrows,
         outcome'[w.id] = outcome[w.id], w.agg \in Aggregates,
         calls \in Nat, calls' \in Nat, calls <= calls', w.id \in Nat
  PROVE  CallIsHonest(at, w)'
<1>1. /\ MovedNothing(w.id)' <=> MovedNothing(w.id)
      /\ Kept(w.id)' <=> Kept(w.id)
      /\ Said("blocked", w.id)' <=> Said("blocked", w.id)
  BY SameMarksSameHonesty
<1>2. w.id <= calls'
  BY DEF CallIsHonest
<1>3. (\E i \in Positions(w.agg) : history[w.agg][i] = RecordOf(w))
        => \E i \in Positions(w.agg)' : history'[w.agg][i] = RecordOf(w)
  BY DEF HistoryGrows
<1> QED
  BY <1>1, <1>2, <1>3 DEF CallIsHonest

LEMMA CallFields ==
  ASSUME AnswersInv, NEW c \in Callers, pc[c] # "idle"
  PROVE  /\ CallShape(pc[c], call[c]) /\ call[c] \in Call
         /\ call[c].id \in CallIds /\ call[c].id \in Nat /\ call[c].agg \in Aggregates
         /\ CallIsHonest(pc[c], call[c])
         /\ calls \in Nat /\ outcome \in [CallIds -> Outcomes]
         /\ TypeInv /\ TypeOK /\ LiveInv
BY DEF AnswersInv, LiveInv, TypeInv, TypeOK, CallShape, Call, CallIds

(* What is left to show of a step of a call in flight.                     *)
LEMMA HonestStep ==
  ASSUME AnswersInv, LiveInv', NEW c \in Callers, pc[c] # "idle", Others(c),
         UNCHANGED calls, NEW w, w = call[c],
         HistoryGrows, \A id \in CallIds \ {w.id} : SameMarks(id),
         \/ outcome' = outcome
         \/ pc'[c] = "idle" /\ \E r : outcome' = [outcome EXCEPT ![w.id] = r],
         IsHonest(w.id)', EventsAreHonest',
         pc'[c] # "idle" => call'[c].id = w.id /\ CallIsHonest(pc[c], call[c])'
  PROVE  AnswersInv'
<1>1. /\ w.id \in CallIds /\ outcome \in [CallIds -> Outcomes] /\ calls \in Nat
      /\ w.id <= calls
  BY CallFields DEF CallIsHonest
<1>2. \A id \in CallIds \ {w.id} : outcome'[id] = outcome[id]
  BY <1>1
<1>3. \A id \in CallIds : IsHonest(id)'
  BY <1>2, AnswersById, SameMarksSameHonesty DEF AnswersInv
<1>4. AnswersAreHonest'
  <2>1. (\A id \in CallIds : IsHonest(id))'
    BY <1>3
  <2> QED
    BY <2>1, AnswersById, PTL
<1>5. ASSUME NEW d \in Callers \ {c}, pc'[d] # "idle"
      PROVE  /\ CallIsHonest(pc[d], call[d])' /\ call'[d].id # w.id
             /\ pc[d] # "idle" /\ call'[d] = call[d]
  <2>1. pc'[d] = pc[d] /\ call'[d] = call[d]
    BY DEF Others
  <2>2. CallIsHonest(pc[d], call[d]) /\ call[d].id # w.id
    BY <1>5, <2>1 DEF AnswersInv, CallsAreApart
  <2>3. call[d].id \in CallIds \ {w.id} /\ call[d].id \in Nat /\ call[d].agg \in Aggregates
    BY <1>5, <2>1, <2>2, CallFields
  <2>4. PICK at, v : at = pc[d] /\ v = call[d]
    OBVIOUS
  <2>5. CallIsHonest(at, v)'
    BY <1>1, <1>2, <2>2, <2>3, <2>4, SameCallStaysHonest
  <2> QED
    BY <1>5, <2>1, <2>2, <2>4, <2>5 DEF CallIsHonest, Heads
<1>6. CallsAreApart'
  BY <1>5 DEF CallsAreApart, AnswersInv
<1>7. \A id \in CallIds : id > calls' => Undrawn(id)'
  <2>1. \A id \in CallIds : id > calls' => id # w.id /\ Undrawn(id)
    BY <1>1 DEF AnswersInv, CallIds
  <2> QED
    BY <2>1, <1>2, SameMarksSameHonesty
<1> QED
  BY <1>4, <1>5, <1>6, <1>7 DEF AnswersInv

-----------------------------------------------------------------------------
(* A call begins.                                                          *)

LEMMA ReturnsAtOnceIsHonest ==
  ASSUME AnswersInv, LiveInv', NEW c \in Callers, NEW a, Begin(c, a),
         NEW result \in Outcomes \ {"executed"}, ReturnsAtOnce(c, result)
  PROVE  AnswersInv'
<1>1. PICK n : n = calls + 1
  OBVIOUS
<1>2. /\ n \in CallIds /\ calls \in Nat /\ calls' = n /\ n > calls
      /\ outcome \in [CallIds -> Outcomes] /\ events \in [Aggregates -> Seq(Event)]
  BY <1>1 DEF Begin, AnswersInv, LiveInv, TypeInv, TypeOK, CallIds
<1>3. /\ outcome' = [outcome EXCEPT ![n] = result]
      /\ UNCHANGED <<history, snapshots, events, pc, call>>
  BY <1>1 DEF ReturnsAtOnce, store
<1>4. HistoryGrows /\ \A id : SameMarks(id)
  BY <1>3, NoMarks
<1>5. \A id \in CallIds \ {n} : outcome'[id] = outcome[id]
  BY <1>2, <1>3
<1>6. IsHonest(n)'
  <2>1. Undrawn(n)
    BY <1>2 DEF AnswersInv
  <2>2. RecordsOfCall(n)' = {} /\ MovedNothing(n)' /\ ~ Kept(n)'
    BY <2>1, <1>4 DEF Undrawn, MovedNothing, SameMarks, EventTypes
  <2>3. outcome'[n] = result
    BY <1>2, <1>3
  <2> QED
    BY <2>2, <2>3 DEF IsHonest
<1>7. AnswersAreHonest'
  <2>1. \A id \in CallIds : IsHonest(id)
    BY AnswersById DEF AnswersInv
  <2>2. (\A id \in CallIds : IsHonest(id))'
    BY <2>1, <1>4, <1>5, <1>6, SameMarksSameHonesty
  <2> QED
    BY <2>2, AnswersById, PTL
<1>8. EventsAreHonest'
  <2>1. \A id \in CallIds : RecordsOfCall(id)' = RecordsOfCall(id)
    BY <1>4 DEF SameMarks
  <2> QED
    BY <2>1, <1>2, <1>3, <1>4, EventsStillHold DEF AnswersInv
<1>9. ASSUME NEW d \in Callers, pc'[d] # "idle"
      PROVE  CallIsHonest(pc[d], call[d])' 
  <2>1. PICK at, v : at = pc[d] /\ v = call[d]
    OBVIOUS
  <2>2. pc'[d] = at /\ call'[d] = v
    BY <1>3, <2>1
  <2>3. /\ CallIsHonest(at, v) /\ v.id \in CallIds /\ v.id \in Nat /\ v.agg \in Aggregates
        /\ v.id <= calls
    BY <1>9, <2>1, <2>2, CallFields DEF CallIsHonest
  <2>4. v.id # n /\ calls' \in Nat /\ calls <= calls'
    BY <1>1, <1>2, <2>3
  <2>5. CallIsHonest(at, v)'
    BY <1>2, <1>4, <1>5, <2>3, <2>4, SameCallStaysHonest
  <2> QED
    BY <2>2, <2>5 DEF CallIsHonest, Heads
<1>10. CallsAreApart'
  BY <1>3 DEF AnswersInv, CallsAreApart
<1>11. \A id \in CallIds : id > calls' => Undrawn(id)'
  <2>1. \A id \in CallIds : id > calls' => id # n /\ Undrawn(id)
    BY <1>2 DEF AnswersInv, CallIds
  <2> QED
    BY <2>1, <1>4, <1>5, SameMarksSameHonesty
<1> QED
  BY <1>7, <1>8, <1>9, <1>10, <1>11 DEF AnswersInv

LEMMA BeginIsHonest ==
  ASSUME AnswersInv, LiveInv', NEW c \in Callers, NEW a, Begin(c, a),
         NEW k \in {"save", "emit"}, NEW w, Enters(c, k, w),
         UNCHANGED <<store, events, outcome>>,
         w.id = calls + 1, w.result = "none",
         w.op = "transition" => w.write.state = w.tr.to,
         \A i \in DOMAIN w.outbox : EventIsBacked(w.outbox[i], w)
  PROVE  AnswersInv'
<1>1. /\ w.id \in CallIds /\ calls \in Nat /\ calls' = w.id /\ w.id > calls
      /\ w.id \in Nat
      /\ outcome \in [CallIds -> Outcomes] /\ events \in [Aggregates -> Seq(Event)]
      /\ TypeInv /\ pc[c] = "idle"
  BY DEF Begin, AnswersInv, LiveInv, TypeInv, TypeOK, CallIds
<1>2. Others(c) /\ pc'[c] = k /\ call'[c] = w
  BY <1>1, EntersOthers
<1>3. /\ HistoryGrows /\ \A id : SameMarks(id)
  BY NoMarks DEF store
<1>4. /\ Undrawn(w.id)' /\ outcome'[w.id] = "none" /\ MovedNothing(w.id)'
      /\ ~ Kept(w.id)' /\ ~ Said("blocked", w.id)'
  <2>1. Undrawn(w.id)
    BY <1>1 DEF AnswersInv
  <2>2. Undrawn(w.id)'
    BY <1>3, <2>1, SameMarksSameHonesty
  <2> QED
    BY <2>2 DEF Undrawn
<1>5. CallIsHonest(pc[c], call[c])'
  <2>1. CallIsHonest(k, w)'
    BY <1>1, <1>4 DEF CallIsHonest, Refusals
  <2> QED
    BY <1>2, <2>1 DEF CallIsHonest, Heads
<1>6. AnswersAreHonest'
  <2>1. \A id \in CallIds : IsHonest(id)
    BY AnswersById DEF AnswersInv
  <2>2. (\A id \in CallIds : IsHonest(id))'
    BY <2>1, <1>3, SameMarksSameHonesty
  <2> QED
    BY <2>2, AnswersById, PTL
<1>7. EventsAreHonest'
  <2>1. \A id \in CallIds : RecordsOfCall(id)' = RecordsOfCall(id)
    BY <1>3 DEF SameMarks
  <2> QED
    BY <2>1, <1>1, <1>3, EventsStillHold DEF AnswersInv
<1>8. ASSUME NEW d \in Callers \ {c}, pc'[d] # "idle"
      PROVE  /\ CallIsHonest(pc[d], call[d])' /\ call'[d].id # w.id
             /\ pc[d] # "idle" /\ call'[d] = call[d]
  <2>1. PICK at, v : at = pc[d] /\ v = call[d]
    OBVIOUS
  <2>2. pc'[d] = at /\ call'[d] = v
    BY <1>2, <2>1 DEF Others
  <2>3. /\ CallIsHonest(at, v) /\ v.id \in CallIds /\ v.id \in Nat /\ v.agg \in Aggregates
        /\ v.id <= calls
    BY <1>8, <2>1, <2>2, CallFields DEF CallIsHonest
  <2>4. v.id # w.id /\ calls' \in Nat /\ calls <= calls'
    BY <1>1, <2>3
  <2>5. CallIsHonest(at, v)'
    BY <1>1, <1>3, <2>3, <2>4, SameCallStaysHonest
  <2> QED
    BY <1>8, <2>1, <2>2, <2>4, <2>5 DEF CallIsHonest, Heads
<1>9. CallsAreApart'
  BY <1>2, <1>8 DEF AnswersInv, CallsAreApart
<1>10. \A id \in CallIds : id > calls' => Undrawn(id)'
  <2>1. \A id \in CallIds : id > calls' => Undrawn(id)
    BY <1>1 DEF AnswersInv, CallIds
  <2> QED
    BY <2>1, <1>3, SameMarksSameHonesty
<1> QED
  BY <1>5, <1>6, <1>7, <1>8, <1>9, <1>10 DEF AnswersInv

(* A start, a cancel or a fail.                                            *)
LEMMA NewCallIsHonest ==
  ASSUME AnswersInv, LiveInv', NEW c \in Callers, NEW a, Begin(c, a),
         NEW op \in Operations \ {"transition"}, NEW from, NEW write,
         Enters(c, "save", NewCall(op, a, from, write)),
         UNCHANGED <<store, events, outcome>>
  PROVE  AnswersInv'
<1>1. PICK w : w = NewCall(op, a, from, write)
  OBVIOUS
<1>2. w.id = calls + 1 /\ w.result = "none" /\ w.op = op /\ w.outbox = <<>>
  BY <1>1 DEF NewCall
<1>3. \A i \in DOMAIN w.outbox : EventIsBacked(w.outbox[i], w)
  BY <1>2
<1> QED
  BY <1>1, <1>2, <1>3, BeginIsHonest

LEMMA RequestedCallFields ==
  ASSUME TypeOK, calls < MaxCalls, NEW a \in Aggregates, instances[a] # NoInstance,
         NEW tr \in TransitionSpecs, NEW actor \in ActorTypes,
         NEW w, w = RequestedCall(a, tr, actor)
  PROVE  /\ w.id = calls + 1 /\ w.result = "none" /\ w.op = "transition"
         /\ w.agg = a /\ w.write.state = w.tr.to
         /\ w.outbox = <<Ev("requested", calls + 1, tr.to)>>
<1>1. instances[a] \in LoopInstance
  BY DEF TypeOK
<1>2. instances[a].state \in StateIds /\ Moved(instances[a], tr) \in LoopInstance
  BY <1>1, MovedType DEF LoopInstance
<1>3. PICK n : n = NewCall("transition", a, instances[a].state, Moved(instances[a], tr))
  OBVIOUS
<1>4. n \in Call
  BY <1>2, <1>3, NewCallType DEF Operations
<1>5. /\ n.id = calls + 1 /\ n.result = "none" /\ n.op = "transition"
      /\ n.agg = a /\ n.write = Moved(instances[a], tr)
  BY <1>3 DEF NewCall
<1>6. PICK o : o = <<Ev("requested", calls + 1, tr.to)>>
  OBVIOUS
<1>7. w = [n EXCEPT !.tr = tr, !.actor = actor, !.after = "guards", !.outbox = o]
  BY <1>3, <1>6 DEF RequestedCall
<1>8. /\ w.id = n.id /\ w.result = n.result /\ w.op = n.op /\ w.agg = n.agg
      /\ w.write = n.write /\ w.outbox = o /\ w.tr = tr
  BY <1>4, <1>7 DEF Call
<1>9. Moved(instances[a], tr).state = tr.to
  BY <1>1 DEF Moved, LoopInstance
<1> QED
  BY <1>5, <1>6, <1>8, <1>9

LEMMA TransitionRequestedIsHonest ==
  ASSUME AnswersInv, LiveInv', NEW c \in Callers, NEW a, NEW t,
         NEW actor \in ActorTypes, NEW constrained,
         TransitionRequested(c, a, t, actor, constrained)
  PROVE  AnswersInv'
<1>1. /\ Begin(c, a) /\ a \in Aggregates /\ calls < MaxCalls /\ instances[a] # NoInstance
      /\ TypeOK /\ instances[a] \in LoopInstance
      /\ UNCHANGED <<store, events, outcome>>
  <2>1. /\ Begin(c, a) /\ instances[a] # NoInstance
        /\ UNCHANGED <<store, events, outcome>>
    BY DEF TransitionRequested
  <2>2. a \in Aggregates /\ calls < MaxCalls /\ TypeOK
    BY <2>1, EngineAssumption DEF Begin, AnswersInv, LiveInv, TypeInv
  <2>3. instances[a] \in LoopInstance
    BY <2>1, <2>2 DEF TypeOK
  <2> QED
    BY <2>1, <2>2, <2>3
<1>2. PICK i \in DOMAIN Transitions(instances[a].loop) :
        Enters(c, "emit", RequestedCall(a, Transitions(instances[a].loop)[i], actor))
  BY DEF TransitionRequested
<1>3. PICK tr \in TransitionSpecs : tr = Transitions(instances[a].loop)[i]
  BY <1>1, TransitionType DEF LoopInstance
<1>4. PICK w : w = RequestedCall(a, tr, actor)
  OBVIOUS
<1>5. /\ w.id = calls + 1 /\ w.result = "none" /\ w.write.state = w.tr.to
      /\ w.outbox = <<Ev("requested", calls + 1, tr.to)>>
  BY <1>1, <1>4, RequestedCallFields
<1>6. \A j \in DOMAIN w.outbox : EventIsBacked(w.outbox[j], w)
  <2>1. EventIsBacked(Ev("requested", calls + 1, tr.to), w)
    BY <1>5 DEF EventIsBacked, Ev
  <2> QED
    BY <2>1, <1>5
<1> QED
  BY <1>1, <1>2, <1>3, <1>4, <1>5, <1>6, BeginIsHonest

-----------------------------------------------------------------------------
(* A call goes on.                                                         *)

LEMMA EmitsFields ==
  ASSUME TypeInv, NEW c \in Callers, NEW w \in Call, NEW evs, NEW k, Emits(c, w, evs, k),
         NEW v, v = call'[c]
  PROVE  /\ Others(c) /\ pc'[c] = IF evs = <<>> THEN k ELSE "emit"
         /\ SameCall(v, w) /\ v.warnings = w.warnings /\ v.snapshot = w.snapshot
         /\ v.result = w.result /\ v.outbox = evs /\ v.after = k
<1>1. PICK u : u = [w EXCEPT !.outbox = evs, !.after = k]
  OBVIOUS
<1>2. /\ SameCall(u, w) /\ u.warnings = w.warnings /\ u.snapshot = w.snapshot
      /\ u.result = w.result /\ u.outbox = evs /\ u.after = k
  BY <1>1 DEF Call, SameCall
<1>3. Enters(c, IF evs = <<>> THEN k ELSE "emit", u)
  BY <1>1 DEF Emits
<1> QED
  BY <1>2, <1>3, EntersOthers

(* A step of a call that leaves no mark.                                   *)
LEMMA QuietStep ==
  ASSUME AnswersInv, LiveInv', NEW c \in Callers, pc[c] # "idle", Others(c),
         NEW w, w = call[c],
         UNCHANGED <<calls, history, snapshots, events>>,
         \/ UNCHANGED outcome
         \/ pc'[c] = "idle" /\ \E r \in Outcomes \ {"executed"} :
              /\ outcome' = [outcome EXCEPT ![w.id] = r]
              /\ r \in Refusals => MovedNothing(w.id) /\ ~ Kept(w.id),
         pc'[c] # "idle" => call'[c].id = w.id /\ CallIsHonest(pc[c], call[c])'
  PROVE  AnswersInv'
<1>1. HistoryGrows /\ \A id : SameMarks(id)
  BY NoMarks
<1>2. /\ w.id \in CallIds /\ outcome \in [CallIds -> Outcomes]
      /\ events \in [Aggregates -> Seq(Event)]
      /\ IsHonest(w.id)
  BY CallFields, AnswersById DEF AnswersInv, TypeOK
<1>3. IsHonest(w.id)'
  <2>1. CASE UNCHANGED outcome
    BY <1>1, <1>2, <2>1, SameMarksSameHonesty
  <2>2. ASSUME NEW r \in Outcomes \ {"executed"}, outcome' = [outcome EXCEPT ![w.id] = r],
               r \in Refusals => MovedNothing(w.id) /\ ~ Kept(w.id)
        PROVE  IsHonest(w.id)'
    <3>1. outcome'[w.id] = r
      BY <1>2, <2>2
    <3>2. /\ RecordsOfCall(w.id)' = RecordsOfCall(w.id)
          /\ MovedNothing(w.id)' <=> MovedNothing(w.id)
          /\ Kept(w.id)' <=> Kept(w.id)
      BY <1>1 DEF SameMarks, MovedNothing, EventTypes
    <3> QED
      BY <1>2, <2>2, <3>1, <3>2 DEF IsHonest
  <2> QED
    BY <2>1, <2>2
<1>4. EventsAreHonest'
  <2>1. \A id \in CallIds : RecordsOfCall(id)' = RecordsOfCall(id)
    BY <1>1 DEF SameMarks
  <2> QED
    BY <2>1, <1>1, <1>2, EventsStillHold DEF AnswersInv
<1> QED
  BY <1>1, <1>3, <1>4, HonestStep

(* A call that has no result yet.                                          *)
LEMMA WaitingIsHonest ==
  ASSUME AnswersInv, NEW c \in Callers, pc[c] \notin {"idle", "emit"},
         NEW w, w = call[c]
  PROVE  /\ w.result = "none" /\ w.id <= calls /\ outcome[w.id] = "none"
         /\ MovedNothing(w.id) /\ ~ Said("blocked", w.id)
         /\ pc[c] \in {"guards", "evidence"} => ~ Kept(w.id)
         /\ w.op = "transition" => w.write.state = w.tr.to
<1>1. CallIsHonest(pc[c], w)
  BY CallFields
<1>2. w.result = "none" /\ "none" \notin Refusals
  BY <1>1 DEF CallIsHonest, Refusals
<1> QED
  BY <1>1, <1>2 DEF CallIsHonest, Heads

(* No failed hard guard: the call announces the soft ones and goes on.     *)
LEMMA SoftGuardsAreHonest ==
  ASSUME AnswersInv, LiveInv', NEW c \in Callers, pc[c] = "guards", NEW w, w = call[c],
         UNCHANGED <<calls, history, snapshots, events, outcome>>,
         NEW soft \in SUBSET w.tr.soft, NEW k \in {"evidence", "save"},
         NEW evs \in {<<>>, <<Ev("guard_soft", w.id, w.from)>>},
         Emits(c, [w EXCEPT !.warnings = soft], evs, k)
  PROVE  AnswersInv'
<1>1. /\ CallShape("guards", w) /\ w \in Call /\ w.tr \in TransitionSpecs
      /\ TypeInv
  BY CallFields DEF CallShape, Heads
<1>2. PICK u : u = [w EXCEPT !.warnings = soft]
  OBVIOUS
<1>3. u \in Call /\ SameCall(u, w) /\ u.result = w.result
  BY <1>1, <1>2 DEF Call, SameCall, TransitionSpecs
<1>4. PICK v : v = call'[c]
  OBVIOUS
<1>5. PICK at : at = pc'[c]
  OBVIOUS
<1>6. /\ Others(c) /\ at \in {k, "emit"}
      /\ SameCall(v, w) /\ v.result = w.result /\ v.outbox = evs /\ v.after = k
  <2>1. Emits(c, u, evs, k)
    BY <1>2
  <2> QED
    BY <1>1, <1>3, <1>4, <1>5, <2>1, EmitsFields DEF SameCall
<1>7. /\ w.result = "none" /\ w.id <= calls /\ outcome[w.id] = "none"
      /\ MovedNothing(w.id) /\ ~ Said("blocked", w.id) /\ ~ Kept(w.id)
      /\ w.op = "transition" => w.write.state = w.tr.to
  BY WaitingIsHonest
<1>8. /\ MovedNothing(w.id)' /\ ~ Said("blocked", w.id)' /\ ~ Kept(w.id)'
  BY <1>7, NoMarks DEF SameMarks, MovedNothing, EventTypes
<1>9. \A i \in DOMAIN evs : EventIsBacked(evs[i], v)
  BY <1>6 DEF EventIsBacked, Ev, SameCall
<1>10. CallIsHonest(at, v)'
  BY <1>6, <1>7, <1>8, <1>9 DEF CallIsHonest, SameCall, Refusals
<1>11. call'[c].id = w.id /\ CallIsHonest(pc[c], call[c])'
  BY <1>4, <1>5, <1>6, <1>10 DEF CallIsHonest, Heads, SameCall
<1> QED
  BY <1>6, <1>11, QuietStep

(* A failed hard guard: the call announces the block and will answer.      *)
LEMMA HardGuardsAreHonest ==
  ASSUME AnswersInv, LiveInv', NEW c \in Callers, pc[c] = "guards", NEW w, w = call[c],
         UNCHANGED <<calls, history, snapshots, events, outcome>>,
         NEW first \in {<<>>, <<Ev("guard_soft", w.id, w.from)>>},
         Emits(c, [w EXCEPT !.result = "guard_failed"],
               first \o <<Ev("guard_hard", w.id, w.from),
                          Ev("blocked", w.id, w.tr.to)>>, "idle")
  PROVE  AnswersInv'
<1>1. CallShape("guards", w) /\ w \in Call /\ TypeInv
  BY CallFields
<1>2. PICK u : u = [w EXCEPT !.result = "guard_failed"]
  OBVIOUS
<1>3. u \in Call /\ SameCall(u, w) /\ u.result = "guard_failed"
  BY <1>1, <1>2 DEF Call, SameCall, Outcomes, Refusals
<1>4. PICK g, h, b : /\ g = Ev("guard_soft", w.id, w.from)
                     /\ h = Ev("guard_hard", w.id, w.from)
                     /\ b = Ev("blocked", w.id, w.tr.to)
  OBVIOUS
<1>5. PICK evs : evs = first \o <<h, b>>
  OBVIOUS
<1>6. evs \in Seq({g, h, b}) /\ evs # <<>>
  <2>1. first \in Seq({g, h, b})
    BY <1>4, SoftEvents
  <2> QED
    BY <2>1, <1>5, ThenTwo
<1>7. PICK v : v = call'[c]
  OBVIOUS
<1>8. /\ Others(c) /\ pc'[c] = "emit"
      /\ SameCall(v, w) /\ v.result = "guard_failed" /\ v.outbox = evs /\ v.after = "idle"
  <2>1. Emits(c, u, evs, "idle")
    BY <1>2, <1>4, <1>5
  <2> QED
    BY <1>1, <1>3, <1>6, <1>7, <2>1, EmitsFields DEF SameCall
<1>9. /\ w.id <= calls /\ outcome[w.id] = "none"
      /\ MovedNothing(w.id) /\ ~ Kept(w.id)
      /\ w.op = "transition" => w.write.state = w.tr.to
  BY WaitingIsHonest
<1>10. MovedNothing(w.id)' /\ ~ Kept(w.id)'
  BY <1>9, NoMarks DEF SameMarks, MovedNothing, EventTypes
<1>11. \A i \in DOMAIN evs : EventIsBacked(evs[i], v)
  <2>1. \A e \in {g, h, b} : EventIsBacked(e, v)
    BY <1>4, <1>8 DEF EventIsBacked, Ev, SameCall, Refusals
  <2>2. \A i \in DOMAIN evs : evs[i] \in {g, h, b}
    BY <1>6
  <2> QED
    BY <2>1, <2>2
<1>12. CallIsHonest("emit", v)'
  BY <1>8, <1>9, <1>10, <1>11 DEF CallIsHonest, SameCall, Refusals
<1>13. call'[c].id = w.id /\ CallIsHonest(pc[c], call[c])'
  BY <1>7, <1>8, <1>12 DEF CallIsHonest, Heads, SameCall
<1> QED
  BY <1>8, <1>13, QuietStep

(* A call that ends without having moved.                                  *)
LEMMA ReturnsIsHonest ==
  ASSUME AnswersInv, LiveInv', NEW c \in Callers, pc[c] # "idle",
         NEW r \in Outcomes \ {"executed"}, Returns(c, r),
         r \in Refusals => MovedNothing(call[c].id) /\ ~ Kept(call[c].id),
         UNCHANGED <<calls, history, snapshots, events>>
  PROVE  AnswersInv'
<1>1. /\ Others(c) /\ pc'[c] = "idle"
      /\ outcome' = [outcome EXCEPT ![call[c].id] = r]
  BY CallFields, EntersOthers DEF Returns
<1> QED
  BY <1>1, QuietStep

LEMMA EvaluateGuardsIsHonest ==
  ASSUME AnswersInv, LiveInv', NEW c \in Callers, EvaluateGuards(c)
  PROVE  AnswersInv'
<1>1. pc[c] = "guards" /\ UNCHANGED <<calls, history, snapshots, events>>
  BY DEF EvaluateGuards, store
<1>2. CASE Returns(c, "threw")
  BY <1>1, <1>2, ReturnsIsHonest DEF Outcomes, Refusals
<1>3. PICK w : w = call[c]
  OBVIOUS
<1>4. ASSUME NEW soft \in SUBSET w.tr.soft, NEW k \in {"evidence", "save"},
             NEW evs \in {<<>>, <<Ev("guard_soft", w.id, w.from)>>},
             Emits(c, [w EXCEPT !.warnings = soft], evs, k), UNCHANGED outcome
      PROVE  AnswersInv'
  BY <1>1, <1>3, <1>4, SoftGuardsAreHonest
<1>5. ASSUME NEW first \in {<<>>, <<Ev("guard_soft", w.id, w.from)>>},
             Emits(c, [w EXCEPT !.result = "guard_failed"],
                   first \o <<Ev("guard_hard", w.id, w.from),
                              Ev("blocked", w.id, w.tr.to)>>, "idle"),
             UNCHANGED outcome
      PROVE  AnswersInv'
  BY <1>1, <1>3, <1>5, HardGuardsAreHonest
<1> QED
  BY <1>2, <1>3, <1>4, <1>5 DEF EvaluateGuards

(* The batch is in the snapshot store; the call goes on to its save.       *)
LEMMA InsertionIsHonest ==
  ASSUME AnswersInv, LiveInv', NEW c \in Callers, CommitEvidence(c), NEW w, w = call[c],
         Enters(c, "save", [w EXCEPT !.snapshot = TRUE]), UNCHANGED outcome
  PROVE  AnswersInv'
<1>1. /\ CallShape("evidence", w) /\ w \in Call /\ TypeInv /\ w.id \in CallIds
      /\ events \in [Aggregates -> Seq(Event)] /\ pc[c] = "evidence"
      /\ UNCHANGED <<calls, events, history>>
  BY CallFields DEF CommitEvidence, TypeOK
<1>2. PICK v : v = [w EXCEPT !.snapshot = TRUE]
  OBVIOUS
<1>3. SameCall(v, w) /\ v.result = w.result /\ v.after = w.after
  BY <1>1, <1>2 DEF Call, SameCall
<1>4. Others(c) /\ pc'[c] = "save" /\ call'[c] = v
  BY <1>1, <1>2, EntersOthers
<1>5. /\ w.result = "none" /\ w.id <= calls /\ outcome[w.id] = "none"
      /\ MovedNothing(w.id) /\ ~ Said("blocked", w.id)
      /\ w.op = "transition" => w.write.state = w.tr.to
  BY <1>1, WaitingIsHonest
<1>6. /\ HistoryGrows /\ \A id \in CallIds \ {w.id} : SameMarks(id)
      /\ \A id : RecordsOfCall(id)' = RecordsOfCall(id)
      /\ \A type, id : Said(type, id)' <=> Said(type, id)
  BY <1>1, CommitEvidenceMarks
<1>7. MovedNothing(w.id)' /\ ~ Said("blocked", w.id)'
  BY <1>5, <1>6 DEF MovedNothing
<1>8. IsHonest(w.id)'
  BY <1>5, <1>7 DEF IsHonest, MovedNothing, Refusals
<1>9. EventsAreHonest'
  BY <1>1, <1>6, EventsStillHold DEF AnswersInv
<1>10. CallIsHonest("save", v)'
  BY <1>1, <1>3, <1>5, <1>7 DEF CallIsHonest, Heads, SameCall, Refusals
<1>11. call'[c].id = w.id /\ CallIsHonest(pc[c], call[c])'
  BY <1>3, <1>4, <1>10 DEF CallIsHonest, Heads, SameCall
<1> QED
  BY <1>1, <1>4, <1>6, <1>8, <1>9, <1>11, HonestStep

LEMMA CommitEvidenceIsHonest ==
  ASSUME AnswersInv, LiveInv', NEW c \in Callers, CommitEvidence(c)
  PROVE  AnswersInv'
<1>1. pc[c] = "evidence" /\ UNCHANGED <<calls, history, events>>
  BY DEF CommitEvidence
<1>2. MovedNothing(call[c].id) /\ ~ Kept(call[c].id)
  BY <1>1, WaitingIsHonest
<1>3. ASSUME UNCHANGED snapshots, NEW r \in Refusals, Returns(c, r)
      PROVE  AnswersInv'
  <2>1. r \in Outcomes \ {"executed"}
    BY DEF Outcomes, Refusals
  <2> QED
    BY <1>1, <1>2, <1>3, <2>1, ReturnsIsHonest
<1>4. CASE Enters(c, "save", [call[c] EXCEPT !.snapshot = TRUE]) /\ UNCHANGED outcome
  BY <1>4, InsertionIsHonest
<1> QED
  BY <1>3, <1>4 DEF CommitEvidence, Refusals

(* The row is saved: a transition has its record to write, another call    *)
(* its event to announce.                                                  *)
LEMMA SaveInstanceIsHonest ==
  ASSUME AnswersInv, LiveInv', NEW c \in Callers, SaveInstance(c)
  PROVE  AnswersInv'
<1>1. PICK w : w = call[c]
  OBVIOUS
<1>2. /\ CallShape("save", w) /\ w \in Call /\ TypeInv /\ pc[c] = "save"
      /\ UNCHANGED <<calls, history, snapshots, events, outcome>>
  BY <1>1, CallFields DEF SaveInstance
<1>3. /\ w.result = "none" /\ w.id <= calls /\ outcome[w.id] = "none"
      /\ MovedNothing(w.id) /\ ~ Said("blocked", w.id)
      /\ w.op = "transition" => w.write.state = w.tr.to
  BY <1>1, <1>2, WaitingIsHonest
<1>4. MovedNothing(w.id)' /\ ~ Said("blocked", w.id)'
  BY <1>2, <1>3, NoMarks DEF SameMarks, MovedNothing, EventTypes
<1>5. CASE w.op = "transition"
  <2>1. Others(c) /\ pc'[c] = "record" /\ call'[c] = w
    BY <1>1, <1>2, <1>5, EntersOthers DEF SaveInstance
  <2>2. CallIsHonest("record", w)'
    BY <1>2, <1>3, <1>4 DEF CallIsHonest, Heads, Refusals
  <2>3. call'[c].id = w.id /\ CallIsHonest(pc[c], call[c])'
    BY <2>1, <2>2 DEF CallIsHonest, Heads
  <2> QED
    BY <1>1, <1>2, <2>1, <2>3, QuietStep
<1>6. CASE w.op # "transition"
  <2>1. PICK r : r = Announced(w.op)
    OBVIOUS
  <2>2. r \in {"started", "cancelled", "failed"}
    BY <2>1 DEF Announced
  <2>3. PICK u : u = [w EXCEPT !.result = r]
    OBVIOUS
  <2>4. u \in Call /\ SameCall(u, w) /\ u.result = r
    BY <1>2, <2>2, <2>3 DEF Call, SameCall, Outcomes
  <2>5. PICK e : e = Ev(r, w.id, w.from)
    OBVIOUS
  <2>6. PICK evs : evs = <<e>>
    OBVIOUS
  <2>7. PICK v : v = call'[c]
    OBVIOUS
  <2>8. evs # <<>> /\ Emits(c, u, evs, "idle")
    BY <1>1, <1>6, <2>1, <2>3, <2>5, <2>6 DEF SaveInstance
  <2>9. /\ Others(c) /\ pc'[c] = "emit"
        /\ SameCall(v, w) /\ v.result = r /\ v.outbox = evs /\ v.after = "idle"
    BY <1>2, <2>4, <2>7, <2>8, EmitsFields DEF SameCall
  <2>10. \A i \in DOMAIN evs : EventIsBacked(evs[i], v)
    <3>1. EventIsBacked(e, v)
      BY <2>2, <2>5, <2>9 DEF EventIsBacked, Ev, SameCall
    <3> QED
      BY <2>6, <3>1
  <2>11. CallIsHonest("emit", v)'
    BY <1>2, <1>3, <1>4, <1>6, <2>2, <2>9, <2>10
       DEF CallIsHonest, Heads, SameCall, Refusals
  <2>12. call'[c].id = w.id /\ CallIsHonest(pc[c], call[c])'
    BY <2>7, <2>9, <2>11 DEF CallIsHonest, Heads, SameCall
  <2> QED
    BY <1>1, <1>2, <2>9, <2>12, QuietStep
<1> QED
  BY <1>5, <1>6

(* The record is written: the move, and the completion, may be announced.  *)
LEMMA SaveRecordIsHonest ==
  ASSUME AnswersInv, LiveInv', NEW c \in Callers, SaveRecord(c)
  PROVE  AnswersInv'
<1>1. PICK w : w = call[c]
  OBVIOUS
<1>2. /\ CallShape("record", w) /\ w \in Call /\ TypeInv /\ pc[c] = "record"
      /\ w.op = "transition" /\ w.agg \in Aggregates /\ w.id \in CallIds
      /\ w.write \in LoopInstance
      /\ events \in [Aggregates -> Seq(Event)] /\ IsLive(w.write)
      /\ UNCHANGED <<calls, snapshots, events, outcome>>
  BY <1>1, CallFields DEF SaveRecord, TypeOK, CallShape, Call, LiveInv
<1>3. /\ w.result = "none" /\ w.id <= calls /\ outcome[w.id] = "none"
      /\ MovedNothing(w.id) /\ ~ Said("blocked", w.id)
      /\ w.write.state = w.tr.to
  BY <1>1, <1>2, WaitingIsHonest
<1>4. PICK n : n = Len(history[w.agg]) + 1
  OBVIOUS
<1>5. /\ HistoryGrows
      /\ RecordsOfCall(w.id)' = RecordsOfCall(w.id) \cup {<<w.agg, n>>}
      /\ n \in Positions(w.agg)' /\ history'[w.agg][n] = RecordOf(w)
      /\ \A id \in CallIds \ {w.id} : SameMarks(id)
      /\ \A id : (Kept(id)' <=> Kept(id)) /\ \A type : Said(type, id)' <=> Said(type, id)
  BY <1>1, <1>2, <1>4, SaveRecordMarks
<1>6. IsHonest(w.id)'
  <2>1. RecordsOfCall(w.id)' = {<<w.agg, n>>}
    BY <1>3, <1>5 DEF MovedNothing
  <2> QED
    BY <1>2, <1>3, <2>1 DEF IsHonest, Refusals
<1>7. EventsAreHonest'
  <2>1. \A id \in CallIds : RecordsOfCall(id)' = RecordsOfCall(id) \/ ~ Said("blocked", id)
    BY <1>3, <1>5 DEF SameMarks
  <2> QED
    BY <1>2, <1>5, <2>1, EventsStillHold DEF AnswersInv
<1>8. PICK e, d : /\ e = Ev("executed", w.id, w.tr.to)
                  /\ d = Ev("completed", w.id, w.write.state)
  OBVIOUS
<1>9. PICK done : done = IF w.write.status = "completed" THEN <<d>> ELSE <<>>
  OBVIOUS
<1>10. PICK u : u = [w EXCEPT !.result = "executed"]
  OBVIOUS
<1>11. /\ u \in Call /\ SameCall(u, w) /\ u.result = "executed"
       /\ u.warnings = w.warnings /\ u.snapshot = w.snapshot
  BY <1>2, <1>10 DEF Call, SameCall, Outcomes
<1>12. PICK evs : evs = <<e>> \o done
  OBVIOUS
<1>13. PICK v : v = call'[c]
  OBVIOUS
<1>14. PICK E : E = {e} \cup (IF w.write.status = "completed" THEN {d} ELSE {})
  OBVIOUS
<1>15. evs \in Seq(E) /\ evs # <<>>
  <2>1. CASE w.write.status = "completed"
    <3>1. e \in E /\ done \in Seq(E)
      BY <1>9, <1>14, <2>1
    <3> QED
      BY <3>1, <1>12, OneThen
  <2>2. CASE w.write.status # "completed"
    <3>1. done \in Seq(E)
      BY <1>9, <2>2, EmptySeq
    <3>2. e \in E
      BY <1>14
    <3> QED
      BY <3>1, <3>2, <1>12, OneThen
  <2> QED
    BY <2>1, <2>2
<1>16. /\ Others(c) /\ pc'[c] = "emit"
       /\ SameCall(v, w) /\ v.result = "executed" /\ v.outbox = evs /\ v.after = "idle"
       /\ v.warnings = w.warnings /\ v.snapshot = w.snapshot
  <2>1. Emits(c, u, evs, "idle")
    BY <1>1, <1>8, <1>9, <1>10, <1>12 DEF SaveRecord
  <2> QED
    BY <1>2, <1>11, <1>13, <1>15, <2>1, EmitsFields DEF SameCall
<1>17. RecordOf(v) = RecordOf(w)
  BY <1>16 DEF RecordOf, SameCall
<1>18. \A i \in DOMAIN evs : EventIsBacked(evs[i], v)
  <2>1. EventIsBacked(e, v)
    BY <1>8, <1>16 DEF EventIsBacked, Ev, SameCall
  <2>2. w.write.status = "completed" => EventIsBacked(d, v)
    BY <1>2, <1>3, <1>8, <1>16 DEF EventIsBacked, Ev, SameCall, IsLive
  <2>3. \A i \in DOMAIN evs : evs[i] \in E
    BY <1>15
  <2> QED
    BY <1>14, <2>1, <2>2, <2>3
<1>19. CallIsHonest("emit", v)'
  <2>1. ~ Said("blocked", w.id)'
    BY <1>3, <1>5
  <2>2. \E i \in Positions(w.agg)' : history'[w.agg][i] = RecordOf(v)
    BY <1>5, <1>17
  <2> QED
    BY <1>2, <1>3, <1>16, <1>18, <2>1, <2>2 DEF CallIsHonest, Heads, SameCall, Refusals
<1>20. call'[c].id = w.id /\ CallIsHonest(pc[c], call[c])'
  BY <1>13, <1>16, <1>19 DEF CallIsHonest, Heads, SameCall
<1> QED
  BY <1>1, <1>2, <1>5, <1>6, <1>7, <1>16, <1>20, HonestStep

(* The first event of the outbox of a call is true of it.                  *)
LEMMA HeadIsBacked ==
  ASSUME AnswersInv, NEW c \in Callers, pc[c] = "emit", NEW w, w = call[c]
  PROVE  /\ w.outbox \in Seq(Event) /\ w.outbox # <<>>
         /\ EventIsBacked(Head(w.outbox), w)
<1>1. CallShape("emit", w) /\ w \in Call /\ CallIsHonest("emit", w)
  BY CallFields
<1>2. w.outbox \in Seq(Event) /\ w.outbox # <<>>
  BY <1>1 DEF CallShape, Call
<1>3. 1 \in DOMAIN w.outbox /\ Head(w.outbox) = w.outbox[1]
  BY <1>2
<1> QED
  BY <1>1, <1>2, <1>3 DEF CallIsHonest

(* The rest of the outbox too, with the same call.                         *)
LEMMA TailIsBacked ==
  ASSUME NEW w, NEW v, w.outbox \in Seq(Event), w.outbox # <<>>,
         \A i \in DOMAIN w.outbox : EventIsBacked(w.outbox[i], w),
         v.outbox = Tail(w.outbox), SameCall(v, w), v.result = w.result
  PROVE  \A i \in DOMAIN v.outbox : EventIsBacked(v.outbox[i], v)
<1>1. ASSUME NEW i \in DOMAIN v.outbox
      PROVE  i + 1 \in DOMAIN w.outbox /\ v.outbox[i] = w.outbox[i + 1]
  BY HeadTailProperties
<1>2. ASSUME NEW e, EventIsBacked(e, w)
      PROVE  EventIsBacked(e, v)
  BY <1>2 DEF EventIsBacked, SameCall
<1> QED
  BY <1>1, <1>2

LEMMA EmitSettlesIsHonest ==
  ASSUME AnswersInv, LiveInv', NEW c \in Callers, pc[c] = "emit", EmitSettles(c),
         NEW w, w = call[c], UNCHANGED calls, HistoryGrows,
         \A id \in CallIds \ {w.id} : SameMarks(id),
         RecordsOfCall(w.id)' = RecordsOfCall(w.id), Kept(w.id)' <=> Kept(w.id),
         \A type : Said(type, w.id)' => Said(type, w.id) \/ type = Head(w.outbox).type,
         EventsAreHonest'
  PROVE  AnswersInv'
<1>1. /\ CallShape("emit", w) /\ w \in Call /\ CallIsHonest("emit", w) /\ TypeInv
      /\ w.id \in CallIds /\ w.agg \in Aggregates /\ outcome \in [CallIds -> Outcomes]
      /\ w.outbox \in Seq(Event) /\ w.outbox # <<>> /\ EventIsBacked(Head(w.outbox), w)
      /\ w.after \in {"idle", "guards", "evidence", "save"}
  BY CallFields, HeadIsBacked DEF CallShape
<1>2. /\ w.id <= calls /\ outcome[w.id] = "none"
      /\ w.result # "none" => w.after = "idle"
      /\ (Heads("emit", w, "guards") \/ Heads("emit", w, "evidence") \/ w.result \in Refusals)
           => ~ Kept(w.id)'
      /\ w.op = "transition" => w.write.state = w.tr.to
  BY <1>1 DEF CallIsHonest
<1>3. w.result = "executed" =>
        \E i \in Positions(w.agg)' : history'[w.agg][i] = RecordOf(w)
  BY <1>1 DEF CallIsHonest, HistoryGrows
<1>4. w.result # "executed" => MovedNothing(w.id)'
  BY <1>1 DEF CallIsHonest, EventIsBacked, MovedNothing
<1>5. Said("blocked", w.id)' => w.result \in Refusals
  BY <1>1 DEF CallIsHonest, EventIsBacked
<1>6. ASSUME outcome'[w.id] \in {"none", w.result}
      PROVE  IsHonest(w.id)'
  <2>1. \A p, q \in RecordsOfCall(w.id)' : p = q
    BY <1>1, AnswersById DEF AnswersInv, IsHonest
  <2>2. w.result = "executed" => RecordsOfCall(w.id)' # {}
    <3>1. ASSUME NEW i \in Positions(w.agg)', history'[w.agg][i] = RecordOf(w)
          PROVE  <<w.agg, i>> \in RecordsOfCall(w.id)'
      <4>1. history'[w.agg][i].call = w.id
        BY <3>1 DEF RecordOf
      <4> QED
        BY <1>1, <3>1, <4>1 DEF RecordsOfCall
    <3> QED
      BY <1>3, <3>1
  <2> QED
    BY <1>2, <1>4, <1>6, <2>1, <2>2 DEF IsHonest, Refusals
<1>7. CASE Tail(w.outbox) # <<>>
  <2>1. PICK v : v = [w EXCEPT !.outbox = Tail(@)]
    OBVIOUS
  <2>2. /\ SameCall(v, w) /\ v.result = w.result /\ v.after = w.after
        /\ v.warnings = w.warnings /\ v.snapshot = w.snapshot /\ v.outbox = Tail(w.outbox)
    BY <1>1, <2>1 DEF Call, SameCall
  <2>3. Others(c) /\ pc'[c] = "emit" /\ call'[c] = v /\ UNCHANGED outcome
    BY <1>1, <1>7, <2>1, EntersOthers DEF EmitSettles
  <2>4. RecordOf(v) = RecordOf(w)
    BY <2>2 DEF RecordOf, SameCall
  <2>5. \A i \in DOMAIN v.outbox : EventIsBacked(v.outbox[i], v)
    BY <1>1, <2>2, TailIsBacked DEF CallIsHonest
  <2>6. CallIsHonest("emit", v)'
    BY <1>2, <1>3, <1>4, <1>5, <2>2, <2>3, <2>4, <2>5 DEF CallIsHonest, Heads, SameCall
  <2>7. call'[c].id = w.id /\ CallIsHonest(pc[c], call[c])'
    BY <2>2, <2>3, <2>6 DEF CallIsHonest, Heads, SameCall
  <2> QED
    BY <1>2, <1>6, <2>3, <2>7, HonestStep
<1>8. CASE Tail(w.outbox) = <<>> /\ w.after = "idle"
  <2>1. Returns(c, w.result)
    BY <1>8 DEF EmitSettles
  <2>2. Others(c) /\ pc'[c] = "idle" /\ outcome' = [outcome EXCEPT ![w.id] = w.result]
    BY <1>1, <2>1, EntersOthers DEF Returns
  <2>3. outcome'[w.id] = w.result
    BY <1>1, <2>2
  <2> QED
    BY <1>6, <2>2, <2>3, HonestStep
<1>9. CASE Tail(w.outbox) = <<>> /\ w.after # "idle"
  <2>1. PICK v : v = [w EXCEPT !.outbox = <<>>]
    OBVIOUS
  <2>2. /\ SameCall(v, w) /\ v.result = w.result /\ v.after = w.after
    BY <1>1, <2>1 DEF Call, SameCall
  <2>3. Others(c) /\ pc'[c] = w.after /\ call'[c] = v /\ UNCHANGED outcome
    BY <1>1, <1>9, <2>1, EntersOthers DEF EmitSettles
  <2>4. w.result = "none"
    BY <1>2, <1>9
  <2>5. CallIsHonest(w.after, v)'
    BY <1>1, <1>2, <1>4, <1>5, <1>9, <2>2, <2>3, <2>4
       DEF CallIsHonest, Heads, SameCall, Refusals
  <2>6. call'[c].id = w.id /\ CallIsHonest(pc[c], call[c])'
    BY <2>2, <2>3, <2>5 DEF CallIsHonest, Heads, SameCall
  <2> QED
    BY <1>2, <1>6, <2>3, <2>6, HonestStep
<1> QED
  BY <1>7, <1>8, <1>9

(* The event delivered is true of the call that emitted it.                *)
LEMMA DeliverIsHonest ==
  ASSUME AnswersInv, LiveInv', NEW c \in Callers, Deliver(c)
  PROVE  AnswersInv'
<1>1. PICK w : w = call[c]
  OBVIOUS
<1>2. PICK e : e = Head(w.outbox)
  OBVIOUS
<1>3. /\ pc[c] = "emit" /\ EmitSettles(c) /\ UNCHANGED <<calls, history, snapshots>>
  BY DEF Deliver, store
<1>4. /\ CallIsHonest("emit", w) /\ EventIsBacked(e, w) /\ TypeInv
      /\ w.agg \in Aggregates /\ e.call = w.id
  BY <1>1, <1>2, <1>3, CallFields, HeadIsBacked DEF EventIsBacked
<1>5. HistoryGrows
  BY <1>1, <1>2, <1>4, DeliverMarks
<1>6. \A id \in CallIds \ {w.id} : SameMarks(id)
  BY <1>1, <1>2, <1>4, DeliverMarks
<1>7. \A id : RecordsOfCall(id)' = RecordsOfCall(id) /\ (Kept(id)' <=> Kept(id))
  BY <1>1, <1>2, <1>4, DeliverMarks
<1>8. \A type : Said(type, w.id)' <=> Said(type, w.id) \/ type = e.type
  BY <1>1, <1>2, <1>4, DeliverMarks
<1>9. \A a \in Aggregates : \A i \in DOMAIN events'[a] :
           \/ i \in DOMAIN events[a] /\ events'[a][i] = events[a][i]
           \/ a = w.agg /\ events'[a][i] = e
  BY <1>1, <1>2, <1>4, DeliverMarks
<1>10. EventHolds(w.agg, e)
  <2>1. e.type \in {"executed", "completed"} =>
          \E j \in Positions(w.agg) :
            /\ history[w.agg][j].call = e.call /\ history[w.agg][j].to = e.state
            /\ e.type = "completed" => IsTerminal(history[w.agg][j].loop, e.state)
    BY <1>4 DEF CallIsHonest, EventIsBacked, RecordOf
  <2>2. e.type = "blocked" => RecordsOfCall(e.call) = {}
    BY <1>4 DEF CallIsHonest, EventIsBacked, MovedNothing, Refusals
  <2> QED
    BY <2>1, <2>2 DEF EventHolds
<1>11. EventsAreHonest'
  <2>1. ASSUME NEW a, NEW f, EventHolds(a, f)
        PROVE  EventHolds(a, f)'
    BY <1>3, <1>7, <2>1 DEF EventHolds, Positions
  <2>2. \A a \in Aggregates : \A i \in DOMAIN events[a] : EventHolds(a, events[a][i])
    BY EventsOneByOne DEF AnswersInv
  <2>3. ASSUME NEW a \in Aggregates, NEW i \in DOMAIN events'[a]
        PROVE  EventHolds(a, events[a][i])'
    <3>1. PICK f : f = events'[a][i]
      OBVIOUS
    <3>2. EventHolds(a, f)'
      BY <1>9, <1>10, <2>1, <2>2, <3>1
    <3> QED
      BY <3>1, <3>2 DEF EventHolds
  <2>4. (\A a \in Aggregates : \A i \in DOMAIN events[a] : EventHolds(a, events[a][i]))'
    BY <2>3
  <2> QED
    BY <2>4, EventsOneByOne, PTL
<1> QED
  BY <1>1, <1>2, <1>3, <1>5, <1>6, <1>7, <1>8, <1>11, EmitSettlesIsHonest

(* An event that is lost leaves no mark.                                   *)
LEMMA LoseEventIsHonest ==
  ASSUME AnswersInv, LiveInv', NEW c \in Callers, LoseEvent(c)
  PROVE  AnswersInv'
<1>1. PICK w : w = call[c]
  OBVIOUS
<1>2. /\ pc[c] = "emit" /\ EmitSettles(c)
      /\ UNCHANGED <<calls, history, snapshots, events>>
  BY DEF LoseEvent, store
<1>3. HistoryGrows /\ \A id : SameMarks(id)
  BY <1>2, NoMarks
<1>4. \A type : Said(type, w.id)' <=> Said(type, w.id)
  BY <1>2, NoEventMarks
<1>5. \A id : RecordsOfCall(id)' = RecordsOfCall(id) /\ (Kept(id)' <=> Kept(id))
  BY <1>3 DEF SameMarks
<1>6. EventsAreHonest'
  BY <1>2, <1>3, <1>5, CallFields, EventsStillHold DEF AnswersInv, TypeOK
<1> QED
  BY <1>1, <1>2, <1>3, <1>4, <1>5, <1>6, EmitSettlesIsHonest

LEMMA AbortIsHonest ==
  ASSUME AnswersInv, LiveInv', NEW c \in Callers, Abort(c)
  PROVE  AnswersInv'
BY ReturnsIsHonest DEF Abort, store, Outcomes, Refusals

LEMMA StutterIsHonest ==
  ASSUME AnswersInv, LiveInv', UNCHANGED vars
  PROVE  AnswersInv'
<1>1. UNCHANGED <<history, snapshots, events, pc, call, calls, outcome>>
  BY DEF vars
<1>2. /\ AnswersAreHonest /\ EventsAreHonest /\ CallsAreApart
      /\ \A d \in Callers : pc[d] # "idle" => CallIsHonest(pc[d], call[d])
      /\ \A id \in CallIds : id > calls => Undrawn(id)
      /\ TypeInv /\ events \in [Aggregates -> Seq(Event)]
  BY DEF AnswersInv, LiveInv, TypeInv, TypeOK
<1>3. HistoryGrows /\ \A id : SameMarks(id)
  BY <1>1, NoMarks
<1>4. AnswersAreHonest'
  <2>1. (\A id \in CallIds : IsHonest(id))'
    BY <1>1, <1>2, <1>3, AnswersById, SameMarksSameHonesty
  <2> QED
    BY <2>1, AnswersById, PTL
<1>5. EventsAreHonest'
  BY <1>1, <1>2, <1>3, EventsStillHold DEF SameMarks
<1>6. ASSUME NEW d \in Callers, pc'[d] # "idle"
      PROVE  CallIsHonest(pc[d], call[d])'
  <2>1. PICK at, v : at = pc[d] /\ v = call[d]
    OBVIOUS
  <2>2. /\ CallIsHonest(at, v) /\ v.id \in Nat /\ v.agg \in Aggregates /\ calls \in Nat
    BY <1>1, <1>6, <2>1, CallFields
  <2>3. CallIsHonest(at, v)'
    BY <1>1, <1>3, <2>2, SameCallStaysHonest
  <2> QED
    BY <1>1, <2>1, <2>3 DEF CallIsHonest, Heads
<1>7. CallsAreApart'
  BY <1>1, <1>2 DEF CallsAreApart
<1>8. \A id \in CallIds : id > calls' => Undrawn(id)'
  BY <1>1, <1>2, <1>3, SameMarksSameHonesty
<1> QED
  BY <1>4, <1>5, <1>6, <1>7, <1>8 DEF AnswersInv

-----------------------------------------------------------------------------
(* Every step.                                                             *)

LEMMA NextIsHonest ==
  ASSUME AnswersInv, [Next]_vars
  PROVE  AnswersInv'
<1>t. LiveInv'
  BY NextIsLive DEF AnswersInv
<1>1. ASSUME NEW c \in Callers, NEW a \in Aggregates, NEW l \in LoopIds,
             StartCall(c, a, l)
      PROVE  AnswersInv'
  <2>1. CASE ReturnsAtOnce(c, "threw")
    BY <1>t, <1>1, <2>1, ReturnsAtOnceIsHonest DEF StartCall, Outcomes
  <2>2. CASE /\ Enters(c, "save",
                  NewCall("start", a, Definitions[l].initial, NewInstance(l)))
             /\ UNCHANGED <<store, events, faults, outcome>>
    BY <1>t, <1>1, <2>2, NewCallIsHonest DEF StartCall, Operations
  <2> QED
    BY <1>1, <2>1, <2>2 DEF StartCall
<1>2. ASSUME NEW c \in Callers, NEW a \in Aggregates, NEW t \in TransitionIds,
             NEW actor \in ActorTypes, NEW constrained \in BOOLEAN,
             TransitionRefused(c, a, t, actor, constrained)
      PROVE  AnswersInv'
  <2>1. \E result \in Outcomes \ {"executed"} : ReturnsAtOnce(c, result)
    BY <1>2 DEF TransitionRefused, Outcomes, Refusals
  <2> QED
    BY <1>t, <1>2, <2>1, ReturnsAtOnceIsHonest DEF TransitionRefused
<1>3. ASSUME NEW c \in Callers, NEW a \in Aggregates, NEW t \in TransitionIds,
             NEW actor \in ActorTypes, NEW constrained \in BOOLEAN,
             TransitionRequested(c, a, t, actor, constrained)
      PROVE  AnswersInv'
  BY <1>t, <1>3, TransitionRequestedIsHonest
<1>4. ASSUME NEW c \in Callers, NEW a \in Aggregates, NEW op \in {"cancel", "fail"},
             NEW status, CloseCall(c, a, op, status)
      PROVE  AnswersInv'
  <2>1. CASE ReturnsAtOnce(c, "threw")
    BY <1>t, <1>4, <2>1, ReturnsAtOnceIsHonest DEF CloseCall, Outcomes
  <2>2. CASE /\ Enters(c, "save", NewCall(op, a, instances[a].state,
                                          Closed(instances[a], status)))
             /\ UNCHANGED <<store, events, faults, outcome>>
    BY <1>t, <1>4, <2>2, NewCallIsHonest DEF CloseCall, Operations
  <2> QED
    BY <1>4, <2>1, <2>2 DEF CloseCall
<1>5. ASSUME NEW c \in Callers,
             \/ EvaluateGuards(c) \/ CommitEvidence(c) \/ SaveInstance(c)
             \/ SaveRecord(c) \/ Deliver(c) \/ LoseEvent(c) \/ Abort(c)
      PROVE  AnswersInv'
  BY <1>t, <1>5, EvaluateGuardsIsHonest, CommitEvidenceIsHonest, SaveInstanceIsHonest,
     SaveRecordIsHonest, DeliverIsHonest, LoseEventIsHonest, AbortIsHonest
<1>6. CASE UNCHANGED vars
  BY <1>t, <1>6, StutterIsHonest
<1> QED
  BY <1>1, <1>2, <1>3, <1>4, <1>5, <1>6 DEF Next, CancelCall, FailCall

LEMMA InitIsHonest == Init => AnswersInv
<1> SUFFICES ASSUME Init PROVE AnswersInv
  OBVIOUS
<1>1. /\ \A a \in Aggregates : history[a] = <<>> /\ events[a] = <<>>
      /\ snapshots = {} /\ \A c \in Callers : pc[c] = "idle"
      /\ \A id \in CallIds : outcome[id] = "none"
  BY DEF Init
<1>2. LiveInv
  BY InitTypes DEF Init, LiveInv
<1>3. \A id : RecordsOfCall(id) = {} /\ ~ Kept(id) /\ \A type : ~ Said(type, id)
  BY <1>1 DEF RecordsOfCall, Positions, Kept, Said, Saw
<1>4. AnswersAreHonest
  <2>1. \A id \in CallIds : IsHonest(id)
    BY <1>1, <1>3 DEF IsHonest, Refusals
  <2> QED
    BY <2>1, AnswersById
<1>5. EventsAreHonest
  BY <1>1 DEF EventsAreHonest
<1>6. \A id \in CallIds : Undrawn(id)
  BY <1>1, <1>3 DEF Undrawn, MovedNothing
<1> QED
  BY <1>1, <1>2, <1>4, <1>5, <1>6 DEF AnswersInv, CallsAreApart

LEMMA AnswersAlways == Spec => []AnswersInv
BY InitIsHonest, NextIsHonest, PTL DEF Spec

(* A call that answered `executed` left exactly one record, and one that   *)
(* was refused left no record, no snapshot and no announcement of a move,  *)
(* whatever other calls did meanwhile and wherever calls were cut short.   *)
THEOREM AnswersHonest == Spec => []AnswersAreHonest
<1>1. AnswersInv => AnswersAreHonest
  BY DEF AnswersInv
<1> QED
  BY <1>1, AnswersAlways, PTL

(* An executed event has its record in the history, a completed one a      *)
(* record into a terminal state, and a blocked call has none.              *)
THEOREM EventsHonest == Spec => []EventsAreHonest
<1>1. AnswersInv => EventsAreHonest
  BY DEF AnswersInv
<1> QED
  BY <1>1, AnswersAlways, PTL

-----------------------------------------------------------------------------
(* What the caller of the engine may be told: how a call in flight goes on *)
(* and ends.                                                               *)

(* What the operation answers if nothing refuses it.                       *)
Intended(op) == IF op = "transition" THEN "executed" ELSE Announced(op)

(* The results a call may come to, and those it may leave.                 *)
Resulting(v, w) == v.result \in {w.result, "guard_failed", Intended(w.op)}

Leaving(w) == {"threw", "none", w.result} \cup Refusals

LEMMA EmitSettlesResults ==
  ASSUME AnswersInv, NEW c \in Callers, NEW w, w = call[c], pc[c] = "emit", EmitSettles(c)
  PROVE  /\ outcome'[w.id] \in Leaving(w)
         /\ \A id \in CallIds \ {w.id} : outcome'[id] = outcome[id]
         /\ pc'[c] # "idle" => Resulting(call'[c], w)
<1>1. /\ w \in Call /\ TypeInv /\ w.id \in CallIds /\ outcome[w.id] = "none"
      /\ outcome \in [CallIds -> Outcomes]
  BY CallFields DEF CallIsHonest
<1>2. ASSUME NEW k, NEW tail, NEW v, v = [w EXCEPT !.outbox = tail], Enters(c, k, v),
             UNCHANGED outcome
      PROVE  outcome'[w.id] \in Leaving(w) /\ Resulting(call'[c], w)
  <2>1. v.result = w.result /\ call'[c] = v
    BY <1>1, <1>2, EntersOthers DEF Call
  <2> QED
    BY <1>1, <1>2, <2>1 DEF Leaving, Resulting
<1>3. CASE Enters(c, "emit", [w EXCEPT !.outbox = Tail(@)]) /\ UNCHANGED outcome
  <2>1. PICK v : v = [w EXCEPT !.outbox = Tail(w.outbox)]
    OBVIOUS
  <2>2. Enters(c, "emit", v)
    BY <1>3, <2>1
  <2> QED
    BY <1>2, <1>3, <2>1, <2>2
<1>4. CASE Returns(c, w.result)
  <2>1. pc'[c] = "idle" /\ outcome' = [outcome EXCEPT ![w.id] = w.result]
    BY <1>1, <1>4, EntersOthers DEF Returns
  <2> QED
    BY <1>1, <2>1 DEF Leaving
<1>5. CASE Enters(c, w.after, [w EXCEPT !.outbox = <<>>]) /\ UNCHANGED outcome
  <2>1. PICK v : v = [w EXCEPT !.outbox = <<>>]
    OBVIOUS
  <2> QED
    BY <1>2, <1>5, <2>1
<1> QED
  BY <1>3, <1>4, <1>5 DEF EmitSettles

LEMMA EvaluateGuardsResults ==
  ASSUME AnswersInv, NEW c \in Callers, NEW w, w = call[c], EvaluateGuards(c)
  PROVE  /\ outcome'[w.id] \in Leaving(w)
         /\ \A id \in CallIds \ {w.id} : outcome'[id] = outcome[id]
         /\ pc'[c] # "idle" => Resulting(call'[c], w)
<1>1. /\ w \in Call /\ TypeInv /\ w.id \in CallIds /\ outcome[w.id] = "none"
      /\ outcome \in [CallIds -> Outcomes] /\ pc[c] = "guards" /\ w.tr.soft \subseteq GuardIds
  <2>1. pc[c] = "guards"
    BY DEF EvaluateGuards
  <2>2. CallShape("guards", w)
    BY <2>1, CallFields
  <2>3. w.tr.soft \subseteq GuardIds
    BY <2>2 DEF CallShape, Heads, TransitionSpecs
  <2> QED
    BY <2>1, <2>3, CallFields DEF CallIsHonest
<1>2. CASE Returns(c, "threw")
  <2>1. pc'[c] = "idle" /\ outcome' = [outcome EXCEPT ![w.id] = "threw"]
    BY <1>1, <1>2, EntersOthers DEF Returns
  <2> QED
    BY <1>1, <2>1 DEF Leaving
<1>3. ASSUME NEW u \in Call, u.result \in {w.result, "guard_failed"}, NEW evs, NEW k,
             Emits(c, u, evs, k), UNCHANGED outcome
      PROVE  outcome'[w.id] \in Leaving(w) /\ Resulting(call'[c], w)
  <2>1. call'[c].result = u.result
    BY <1>1, <1>3, EmitsFields
  <2> QED
    BY <1>1, <1>3, <2>1 DEF Leaving, Resulting
<1>4. ASSUME NEW soft \in SUBSET w.tr.soft, NEW evs, NEW k,
             Emits(c, [w EXCEPT !.warnings = soft], evs, k), UNCHANGED outcome
      PROVE  outcome'[w.id] \in Leaving(w) /\ Resulting(call'[c], w)
  <2>1. PICK u : u = [w EXCEPT !.warnings = soft]
    OBVIOUS
  <2>2. u \in Call /\ u.result = w.result
    BY <1>1, <2>1 DEF Call
  <2> QED
    BY <1>3, <1>4, <2>1, <2>2
<1>5. ASSUME NEW evs, NEW k, Emits(c, [w EXCEPT !.result = "guard_failed"], evs, k),
             UNCHANGED outcome
      PROVE  outcome'[w.id] \in Leaving(w) /\ Resulting(call'[c], w)
  <2>1. PICK u : u = [w EXCEPT !.result = "guard_failed"]
    OBVIOUS
  <2>2. u \in Call /\ u.result = "guard_failed"
    BY <1>1, <2>1 DEF Call, Outcomes, Refusals
  <2> QED
    BY <1>3, <1>5, <2>1, <2>2
<1>6. CASE UNCHANGED outcome
  BY <1>1, <1>2, <1>4, <1>5, <1>6 DEF EvaluateGuards
<1> QED
  BY <1>2, <1>6 DEF EvaluateGuards

LEMMA SavesResults ==
  ASSUME AnswersInv, NEW c \in Callers, NEW w, w = call[c],
         SaveInstance(c) \/ SaveRecord(c)
  PROVE  UNCHANGED outcome /\ Resulting(call'[c], w)
<1>1. w \in Call /\ TypeInv /\ UNCHANGED outcome /\ pc[c] # "idle"
  BY CallFields DEF SaveInstance, SaveRecord
<1>2. ASSUME NEW r \in {"started", "cancelled", "failed", "executed"}, r = Intended(w.op),
             NEW evs, Emits(c, [w EXCEPT !.result = r], evs, "idle")
      PROVE  Resulting(call'[c], w)
  <2>1. PICK u : u = [w EXCEPT !.result = r]
    OBVIOUS
  <2>2. u \in Call /\ u.result = r
    BY <1>1, <2>1 DEF Call, Outcomes
  <2>3. Emits(c, u, evs, "idle")
    BY <1>2, <2>1
  <2>4. call'[c].result = u.result
    BY <1>1, <2>2, <2>3, EmitsFields
  <2> QED
    BY <1>2, <2>2, <2>4 DEF Resulting
<1>3. CASE SaveInstance(c) /\ w.op = "transition"
  <2>1. call'[c] = w
    BY <1>1, <1>3, EntersOthers DEF SaveInstance
  <2> QED
    BY <1>1, <2>1 DEF Resulting
<1>4. CASE SaveInstance(c) /\ w.op # "transition"
  <2>1. Announced(w.op) \in {"started", "cancelled", "failed", "executed"}
        /\ Announced(w.op) = Intended(w.op)
    BY <1>4 DEF Announced, Intended
  <2>2. Emits(c, [w EXCEPT !.result = Announced(w.op)],
              <<Ev(Announced(w.op), w.id, w.from)>>, "idle")
    BY <1>4 DEF SaveInstance
  <2> QED
    BY <1>1, <1>2, <2>1, <2>2
<1>5. CASE SaveRecord(c)
  <2>1. Intended(w.op) = "executed"
    <3>1. CallShape("record", w)
      BY <1>5, CallFields DEF SaveRecord
    <3> QED
      BY <3>1 DEF CallShape, Intended
  <2>2. \E evs : Emits(c, [w EXCEPT !.result = "executed"], evs, "idle")
    BY <1>5 DEF SaveRecord
  <2> QED
    BY <1>1, <1>2, <2>1, <2>2
<1> QED
  BY <1>1, <1>3, <1>4, <1>5

(* Any step of a call in flight.                                           *)
LEMMA ContinueResults ==
  ASSUME AnswersInv, NEW c \in Callers, NEW w, w = call[c],
         \/ EvaluateGuards(c) \/ CommitEvidence(c) \/ SaveInstance(c)
         \/ SaveRecord(c) \/ Deliver(c) \/ LoseEvent(c) \/ Abort(c)
  PROVE  /\ HistoryGrows /\ calls' = calls
         /\ outcome'[w.id] \in Leaving(w)
         /\ \A id \in CallIds \ {w.id} : outcome'[id] = outcome[id]
         /\ pc'[c] # "idle" => Resulting(call'[c], w)
<1>1. pc[c] # "idle" /\ TypeInv
  BY ContinueKeepsCall DEF AnswersInv, LiveInv
<1>2. /\ w \in Call /\ w.id \in CallIds /\ outcome[w.id] = "none"
      /\ outcome \in [CallIds -> Outcomes]
  BY <1>1, CallFields DEF CallIsHonest
<1>3. UNCHANGED outcome => /\ outcome'[w.id] \in Leaving(w)
                           /\ \A id \in CallIds \ {w.id} : outcome'[id] = outcome[id]
  BY <1>2 DEF Leaving
<1>4. ASSUME NEW r \in {"threw"} \cup Refusals, Returns(c, r)
      PROVE  /\ outcome'[w.id] \in Leaving(w) /\ pc'[c] = "idle"
             /\ \A id \in CallIds \ {w.id} : outcome'[id] = outcome[id]
  <2>1. pc'[c] = "idle" /\ outcome' = [outcome EXCEPT ![w.id] = r]
    BY <1>1, <1>4, EntersOthers DEF Returns
  <2> QED
    BY <1>2, <1>4, <2>1 DEF Leaving
<1>5. CASE EvaluateGuards(c)
  BY <1>5, EvaluateGuardsResults, NoRecordMarks DEF EvaluateGuards, store
<1>6. CASE CommitEvidence(c)
  <2>1. HistoryGrows /\ calls' = calls
    BY <1>6, NoRecordMarks DEF CommitEvidence
  <2>2. CASE \E r \in Refusals : Returns(c, r)
    BY <1>4, <2>1, <2>2
  <2>3. CASE Enters(c, "save", [w EXCEPT !.snapshot = TRUE]) /\ UNCHANGED outcome
    <3>1. PICK v : v = [w EXCEPT !.snapshot = TRUE]
      OBVIOUS
    <3>2. v.result = w.result /\ call'[c] = v
      BY <1>1, <1>2, <2>3, <3>1, EntersOthers DEF Call
    <3> QED
      BY <1>3, <2>1, <2>3, <3>2 DEF Resulting
  <2> QED
    BY <1>6, <2>2, <2>3 DEF CommitEvidence, Refusals
<1>7. CASE SaveInstance(c)
  <2>1. UNCHANGED <<history, calls>>
    BY <1>7 DEF SaveInstance
  <2> QED
    BY <1>3, <1>7, <2>1, SavesResults, NoRecordMarks
<1>8. CASE SaveRecord(c)
  <2>1. HistoryGrows
    BY <1>1, <1>8, SaveRecordMarks
  <2>2. UNCHANGED calls
    BY <1>8 DEF SaveRecord
  <2> QED
    BY <1>3, <1>8, <2>1, <2>2, SavesResults
<1>9. CASE Deliver(c) \/ LoseEvent(c)
  <2>1. UNCHANGED <<history, calls>> /\ pc[c] = "emit" /\ EmitSettles(c)
    BY <1>9 DEF Deliver, LoseEvent, store
  <2> QED
    BY <2>1, EmitSettlesResults, NoRecordMarks
<1>10. CASE Abort(c)
  <2>1. UNCHANGED <<history, calls>> /\ Returns(c, "threw")
    BY <1>10 DEF Abort, store
  <2> QED
    BY <1>4, <2>1, NoRecordMarks
<1> QED
  BY <1>5, <1>6, <1>7, <1>8, <1>9, <1>10
=============================================================================
