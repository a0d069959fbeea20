-------------------------- MODULE LoopRuntimeProofs --------------------------
(***************************************************************************)
(* Proofs about LoopRuntime for every set of callers, aggregates, keys and *)
(* definitions, overlapping requests and any number of faults included.    *)
(* The last two theorems, on the row and its events, are for clients that  *)
(* wait for their answer (Isolated) and no fault (MaxFaults = 0).          *)
(***************************************************************************)
EXTENDS LoopRuntime, LifecycleProofs

USE RuntimeAssumption

-----------------------------------------------------------------------------
(* The inductive invariant.                                                *)

Awaits == {"create", "refetch", "engine", "update", "append"}

(* Two callers never serve one request.                                    *)
ServeApart ==
  \A c, d \in Callers :
    (rpc[c] # "idle" /\ rpc[d] # "idle" /\ serving[c] = serving[d]) => c = d

(* The request r may be at the await k.                                    *)
AtAwait(k, r) ==
  /\ r.answer = "none"
  /\ k \in {"create", "refetch"} => r.op = "provision" /\ rows[r.agg] = NoRow
  /\ k = "create" => r.loop \in DOMAIN Definitions
  /\ k = "refetch" => r.key \in Keys /\ Holders(r.key) # {}
  /\ k \in {"engine", "update", "append"} =>
       /\ r.op \in {"start", "transition", "cancel"}
       /\ rows[r.agg] # NoRow /\ r.read # NoRow
       /\ r.op = "transition" => r.tid \in TransitionIds

(* Two provisions in flight drew different ids.                            *)
DrawApart ==
  \A c, d \in Callers :
    (/\ rpc[c] \in {"create", "refetch"} /\ rpc[d] \in {"create", "refetch"}
     /\ Req(c).agg = Req(d).agg) => c = d

(* The id of a row was drawn.                                              *)
RowsAreDrawn == \A a \in Aggregates : rows[a] # NoRow => ~ IsFresh(a)

KeysAreUnique == \A k \in Keys : \A a, b \in Holders(k) : a = b

AnswerHolds(r) ==
  (r.op = "provision" /\ r.key \in Keys) =>
    /\ r.answer \in {"created", "idempotent_replay"} => r.agg \in Holders(r.key)
    /\ r.answer = "error" => failures > 0

IsCreation(r, k) == r.op = "provision" /\ r.key = k /\ r.answer = "created"

CreatedOnce ==
  \A k \in Keys : \A i, j \in DOMAIN requests :
    IsCreation(requests[i], k) /\ IsCreation(requests[j], k) => i = j

RuntimeInv ==
  /\ RuntimeTypeOK
  /\ ServeApart
  /\ \A c \in Callers : rpc[c] # "idle" => AtAwait(rpc[c], Req(c))
  /\ DrawApart
  /\ RowsAreDrawn
  /\ KeysAreUnique
  /\ \A i \in DOMAIN requests : AnswerHolds(requests[i])
  /\ CreatedOnce

LEMMA InvIsIdempotent == RuntimeInv => ProvisionIsIdempotent
BY DEF RuntimeInv, ProvisionIsIdempotent, KeysAreUnique, AnswerHolds, CreatedOnce,
       Provisions, IsCreation

-----------------------------------------------------------------------------
(* The request that a caller serves.                                       *)

LEMMA ReqType ==
  ASSUME RuntimeTypeOK, NEW c \in Callers, rpc[c] # "idle"
  PROVE  /\ serving[c] \in DOMAIN requests /\ serving[c] \in Nat
         /\ Req(c) \in Request
BY DEF RuntimeTypeOK, Req

LEMMA EngineMayBeCalled ==
  ASSUME RuntimeInv, NEW c \in Callers, rpc[c] \in {"engine", "update", "append"}
  PROVE  /\ Req(c).agg \in Aggregates /\ Req(c).read \in Row
         /\ Req(c).read.loop \in LoopIds
         /\ Req(c).op = "transition" => Req(c).tid \in TransitionIds
<1>1. Req(c) \in Request /\ AtAwait(rpc[c], Req(c))
  BY ReqType DEF RuntimeInv
<1> QED
  BY <1>1, DefinitionsAssumption DEF AtAwait, Request, Row

-----------------------------------------------------------------------------
(* A step of the runtime is a step of the engine, or none.                 *)

LEMMA CallsEngineIsEngineStep ==
  ASSUME RuntimeInv, NEW c \in Callers, CallsEngine(c)
  PROVE  Next
<1>1. /\ Req(c).agg \in Aggregates /\ Req(c).read.loop \in LoopIds
      /\ Req(c).op = "transition" => Req(c).tid \in TransitionIds
  BY EngineMayBeCalled DEF CallsEngine
<1>2. CASE StartCall(c, Req(c).agg, Req(c).read.loop)
  BY <1>1, <1>2 DEF Next
<1>3. ASSUME Req(c).op = "transition", NEW actor \in ActorTypes,
             \/ TransitionRefused(c, Req(c).agg, Req(c).tid, actor, FALSE)
             \/ TransitionRequested(c, Req(c).agg, Req(c).tid, actor, FALSE)
      PROVE  Next
  BY <1>1, <1>3 DEF Next
<1> QED
  BY <1>2, <1>3 DEF CallsEngine

LEMMA RuntimeStepIsEngineStep ==
  ASSUME RuntimeInv, [RuntimeNext]_allVars
  PROVE  [Next]_vars
<1>1. ASSUME NEW c \in Callers, CallsEngine(c)
      PROVE  [Next]_vars
  BY <1>1, CallsEngineIsEngineStep
<1>2. ASSUME NEW c \in Callers, EngineContinues(c) \/ EngineFails(c)
      PROVE  [Next]_vars
  BY <1>2 DEF EngineContinues, EngineFails, Continue, Next
<1>3. ASSUME NEW c \in Callers,
             \/ Create(c) \/ KeyIsTaken(c) \/ Refetch(c) \/ EngineReturns(c)
             \/ Update(c) \/ AppendEvent(c) \/ RequestFails(c) \/ Unconfirmed(c)
      PROVE  [Next]_vars
  BY <1>3 DEF Create, KeyIsTaken, Refetch, EngineReturns, Update, AppendEvent,
              RequestFails, Unconfirmed, engineVars
<1>4. ASSUME NEW c \in Callers, NEW a \in Aggregates, NEW l, NEW k,
             ProvisionLooksUp(c, a, l, k)
      PROVE  [Next]_vars
  BY <1>4 DEF ProvisionLooksUp, engineVars
<1>5. ASSUME NEW c \in Callers, NEW a \in Aggregates, NEW r, FindRow(c, a, r)
      PROVE  [Next]_vars
  BY <1>5 DEF FindRow, engineVars
<1>6. CASE UNCHANGED allVars
  BY <1>6 DEF allVars, engineVars
<1> QED
  BY <1>1, <1>2, <1>3, <1>4, <1>5, <1>6 DEF RuntimeNext, Serve

-----------------------------------------------------------------------------
(* What a step does to the requests.                                       *)

(* Caller c's request becomes r, at k.                                     *)
Serving(c, k, r) ==
  /\ requests' = [requests EXCEPT ![serving[c]] = r]
  /\ rpc' = [rpc EXCEPT ![c] = k]
  /\ serving' = [serving EXCEPT ![c] = IF k = "idle" THEN 0 ELSE @]

LEMMA AnswerServes ==
  ASSUME RuntimeTypeOK, NEW c \in Callers, rpc[c] # "idle", NEW x \in Answers,
         Answer(c, x)
  PROVE  /\ Serving(c, "idle", [Req(c) EXCEPT !.answer = x])
         /\ [Req(c) EXCEPT !.answer = x] \in Request
<1>1. serving[c] \in DOMAIN requests /\ Req(c) \in Request
  BY ReqType
<1>2. [Req(c) EXCEPT !.answer = x] \in Request
  BY <1>1 DEF Request
<1> QED
  BY <1>1, <1>2 DEF Answer, Serving, Req, RuntimeTypeOK

LEMMA GoesToServes ==
  ASSUME RuntimeTypeOK, NEW c \in Callers, rpc[c] # "idle", NEW k \in Awaits,
         GoesTo(c, k)
  PROVE  Serving(c, k, Req(c))
<1>1. serving[c] \in DOMAIN requests /\ requests \in Seq(Request)
  BY ReqType DEF RuntimeTypeOK
<1>2. requests = [requests EXCEPT ![serving[c]] = requests[serving[c]]]
  BY <1>1
<1>3. serving = [serving EXCEPT ![c] = IF k = "idle" THEN 0 ELSE @]
  BY DEF RuntimeTypeOK, Awaits
<1> QED
  BY <1>2, <1>3 DEF GoesTo, Serving, Req

LEMMA ServingRequests ==
  ASSUME RuntimeTypeOK, ServeApart, NEW c \in Callers, rpc[c] # "idle",
         NEW k \in Awaits \cup {"idle"}, NEW r \in Request, Serving(c, k, r)
  PROVE  /\ requests' \in Seq(Request) /\ Len(requests') = Len(requests)
         /\ DOMAIN requests' = DOMAIN requests
         /\ rpc' \in [Callers -> Awaits \cup {"idle"}]
         /\ serving' \in [Callers -> 0 .. MaxRequests]
         /\ rpc'[c] = k /\ requests'[serving[c]] = r
         /\ k # "idle" => serving'[c] = serving[c]
         /\ \A d \in Callers \ {c} :
              /\ rpc'[d] = rpc[d] /\ serving'[d] = serving[d]
              /\ rpc[d] # "idle" => serving[d] # serving[c]
         /\ \A i \in DOMAIN requests : i # serving[c] => requests'[i] = requests[i]
<1>1. serving[c] \in DOMAIN requests /\ requests \in Seq(Request)
  BY ReqType DEF RuntimeTypeOK
<1>2. /\ requests' \in Seq(Request) /\ Len(requests') = Len(requests)
      /\ DOMAIN requests' = DOMAIN requests
  BY <1>1, ExceptSeq DEF Serving
<1>3. /\ rpc' \in [Callers -> Awaits \cup {"idle"}]
      /\ serving' \in [Callers -> 0 .. MaxRequests]
  BY DEF Serving, RuntimeTypeOK, Awaits
<1> QED
  BY <1>1, <1>2, <1>3 DEF Serving, RuntimeTypeOK, ServeApart

LEMMA ArrivesRequests ==
  ASSUME RuntimeTypeOK, NEW c \in Callers, NEW k \in Awaits \cup {"idle"},
         NEW r \in Request, Arrives(c, r, k)
  PROVE  /\ requests' \in Seq(Request) /\ Len(requests') = Len(requests) + 1
         /\ Len(requests') <= MaxRequests
         /\ DOMAIN requests' = DOMAIN requests \cup {Len(requests) + 1}
         /\ Len(requests) + 1 \notin DOMAIN requests
         /\ rpc' \in [Callers -> Awaits \cup {"idle"}]
         /\ serving' \in [Callers -> 0 .. MaxRequests]
         /\ rpc'[c] = k /\ requests'[Len(requests) + 1] = r
         /\ k # "idle" => serving'[c] = Len(requests) + 1
         /\ \A d \in Callers \ {c} : rpc'[d] = rpc[d] /\ serving'[d] = serving[d]
         /\ \A i \in DOMAIN requests : requests'[i] = requests[i]
<1>1. requests \in Seq(Request) /\ Len(requests) \in Nat
  BY DEF RuntimeTypeOK
<1>2. Len(requests) + 1 \in 0 .. MaxRequests
  BY <1>1 DEF Arrives
<1>3. /\ requests' \in Seq(Request) /\ Len(requests') = Len(requests) + 1
      /\ requests'[Len(requests) + 1] = r
      /\ \A i \in 1 .. Len(requests) : requests'[i] = requests[i]
  BY <1>1 DEF Arrives
<1>4. /\ rpc' \in [Callers -> Awaits \cup {"idle"}] /\ rpc'[c] = k
      /\ \A d \in Callers \ {c} : rpc'[d] = rpc[d]
  BY DEF Arrives, RuntimeTypeOK, Awaits
<1>5. /\ serving' \in [Callers -> 0 .. MaxRequests]
      /\ k # "idle" => serving'[c] = Len(requests) + 1
      /\ \A d \in Callers \ {c} : serving'[d] = serving[d]
  BY <1>2 DEF Arrives, RuntimeTypeOK
<1>6. DOMAIN requests' = 1 .. (Len(requests) + 1) /\ DOMAIN requests = 1 .. Len(requests)
  BY <1>1, <1>3
<1>7. Len(requests') <= MaxRequests
  BY <1>2, <1>3
<1> QED
  BY <1>1, <1>3, <1>4, <1>5, <1>6, <1>7

(* No row comes, goes or changes its key.                                  *)
SameKeys ==
  \A a \in Aggregates :
    /\ rows'[a] = NoRow <=> rows[a] = NoRow
    /\ rows[a] # NoRow => rows'[a].key = rows[a].key

LEMMA SameHolders ==
  ASSUME SameKeys
  PROVE  \A k : Holders(k)' = Holders(k)
BY DEF SameKeys, Holders

LEMMA SameAwaits ==
  ASSUME SameKeys, NEW k, NEW r \in Request, AtAwait(k, r)
  PROVE  AtAwait(k, r)'
BY SameHolders DEF SameKeys, AtAwait, Request

(* A request that goes on, or is answered, without a new row.              *)
LEMMA ServingKeepsInv ==
  ASSUME RuntimeInv, NEW c \in Callers, rpc[c] # "idle",
         NEW k \in Awaits \cup {"idle"}, NEW r \in Request, Serving(c, k, r),
         SameKeys, rows' \in [Aggregates -> Row \cup {NoRow}],
         loopEvents' \in [Aggregates -> Seq(LoopEvent)],
         failures' \in 0 .. MaxFaults, failures' >= failures,
         k # "idle" => AtAwait(k, r),
         k \in {"create", "refetch"} => rpc[c] \in {"create", "refetch"},
         r.agg = Req(c).agg \/ (k = "idle" /\ rows[Req(c).agg] = NoRow),
         r.answer # "created",
         (r.op = "provision" /\ r.key \in Keys) =>
           /\ r.answer = "idempotent_replay" => r.agg \in Holders(r.key)
           /\ r.answer = "error" => failures' > 0
  PROVE  RuntimeInv'
<1>s. /\ requests' \in Seq(Request) /\ Len(requests') = Len(requests)
      /\ DOMAIN requests' = DOMAIN requests
      /\ rpc' \in [Callers -> Awaits \cup {"idle"}]
      /\ serving' \in [Callers -> 0 .. MaxRequests]
      /\ rpc'[c] = k /\ requests'[serving[c]] = r
      /\ k # "idle" => serving'[c] = serving[c]
      /\ \A d \in Callers \ {c} :
           /\ rpc'[d] = rpc[d] /\ serving'[d] = serving[d]
           /\ rpc[d] # "idle" => serving[d] # serving[c]
      /\ \A i \in DOMAIN requests : i # serving[c] => requests'[i] = requests[i]
  BY ServingRequests DEF RuntimeInv
<1>t. /\ RuntimeTypeOK /\ serving[c] \in DOMAIN requests
      /\ \A d \in Callers : rpc[d] # "idle" =>
           serving[d] \in DOMAIN requests /\ Req(d) \in Request
  BY ReqType DEF RuntimeInv
<1>o. \A d \in Callers \ {c} : rpc'[d] # "idle" => (Req(d))' = Req(d)
  BY <1>s, <1>t DEF Req
<1>c. k # "idle" => (Req(c))' = r
  BY <1>s DEF Req
<1>1. RuntimeTypeOK'
  <2>1. \A d \in Callers : rpc'[d] # "idle" => serving'[d] \in DOMAIN requests'
    BY <1>s, <1>t
  <2> QED
    BY <1>s, <1>t, <2>1 DEF RuntimeTypeOK, Awaits
<1>2. ServeApart'
  <2>1. \A d \in Callers : rpc'[d] # "idle" =>
          rpc[d] # "idle" /\ serving'[d] = serving[d]
    BY <1>s
  <2> QED
    BY <2>1 DEF RuntimeInv, ServeApart
<1>3. ASSUME NEW d \in Callers, rpc'[d] # "idle"
      PROVE  AtAwait(rpc[d], Req(d))'
  <2>1. CASE d = c
    BY <1>s, <1>c, <1>3, <2>1, SameAwaits
  <2>2. CASE d # c
    <3>1. AtAwait(rpc[d], Req(d)) /\ Req(d) \in Request
      BY <1>s, <1>t, <1>3, <2>2 DEF RuntimeInv
    <3> QED
      BY <1>s, <1>o, <1>3, <2>2, <3>1, SameAwaits
  <2> QED
    BY <2>1, <2>2
<1>4. DrawApart'
  <2>1. \A d \in Callers : rpc'[d] \in {"create", "refetch"} =>
          rpc[d] \in {"create", "refetch"} /\ (Req(d).agg)' = Req(d).agg
    BY <1>s, <1>o, <1>c
  <2> QED
    BY <2>1 DEF RuntimeInv, DrawApart
<1>5. RowsAreDrawn'
  <2> SUFFICES ASSUME NEW a \in Aggregates, rows'[a] # NoRow
               PROVE  \E i \in DOMAIN requests' : requests'[i].agg = a
    BY DEF RowsAreDrawn, IsFresh
  <2>1. PICK i \in DOMAIN requests : requests[i].agg = a
    BY DEF RuntimeInv, RowsAreDrawn, IsFresh, SameKeys
  <2>2. i = serving[c] => r.agg = a
    BY <2>1 DEF Req, SameKeys
  <2> QED
    BY <1>s, <2>1, <2>2
<1>6. KeysAreUnique'
  BY SameHolders DEF RuntimeInv, KeysAreUnique
<1>7. ASSUME NEW i \in DOMAIN requests'
      PROVE  AnswerHolds(requests[i])'
  <2>1. CASE i = serving[c]
    BY <1>s, <2>1, SameHolders DEF AnswerHolds
  <2>2. CASE i # serving[c]
    <3>1. requests'[i] = requests[i] /\ AnswerHolds(requests[i])
      BY <1>s, <1>7, <2>2 DEF RuntimeInv
    <3>2. failures \in Nat /\ failures' \in Nat
      BY <1>t DEF RuntimeTypeOK
    <3> QED
      BY <3>1, <3>2, SameHolders DEF AnswerHolds
  <2> QED
    BY <2>1, <2>2
<1>8. CreatedOnce'
  <2>1. \A i \in DOMAIN requests', q \in Keys :
          IsCreation(requests'[i], q) => IsCreation(requests[i], q)
    BY <1>s DEF IsCreation
  <2> QED
    BY <1>s, <2>1 DEF RuntimeInv, CreatedOnce, IsCreation
<1> QED
  BY <1>1, <1>2, <1>3, <1>4, <1>5, <1>6, <1>7, <1>8 DEF RuntimeInv

(* A request that arrives.                                                 *)
LEMMA ArrivingKeepsInv ==
  ASSUME RuntimeInv, NEW c \in Callers, NEW k \in {"create", "engine", "update", "idle"},
         NEW r \in Request, Arrives(c, r, k), UNCHANGED <<database, failures>>,
         k # "idle" => AtAwait(k, r),
         k = "create" => IsFresh(r.agg),
         r.answer \notin {"created", "error"},
         r.op = "provision" /\ r.key \in Keys /\ r.answer = "idempotent_replay"
           => r.agg \in Holders(r.key)
  PROVE  RuntimeInv'
<1> DEFINE n == Len(requests) + 1
<1>s. /\ requests' \in Seq(Request) /\ Len(requests') <= MaxRequests
      /\ DOMAIN requests' = DOMAIN requests \cup {n}
      /\ n \notin DOMAIN requests
      /\ rpc' \in [Callers -> Awaits \cup {"idle"}]
      /\ serving' \in [Callers -> 0 .. MaxRequests]
      /\ rpc'[c] = k /\ requests'[n] = r
      /\ k # "idle" => serving'[c] = n
      /\ \A d \in Callers \ {c} : rpc'[d] = rpc[d] /\ serving'[d] = serving[d]
      /\ \A i \in DOMAIN requests : requests'[i] = requests[i]
  BY ArrivesRequests DEF RuntimeInv, Awaits
<1>t. /\ RuntimeTypeOK
      /\ \A d \in Callers : rpc[d] # "idle" =>
           serving[d] \in DOMAIN requests /\ Req(d) \in Request
  BY ReqType DEF RuntimeInv
<1>k. SameKeys /\ rows' = rows /\ loopEvents' = loopEvents /\ failures' = failures
  BY DEF SameKeys, database
<1> HIDE DEF n
<1>o. \A d \in Callers \ {c} : rpc'[d] # "idle" => (Req(d))' = Req(d)
  BY <1>s, <1>t DEF Req
<1>c. k # "idle" => (Req(c))' = r
  BY <1>s DEF Req
<1>1. RuntimeTypeOK'
  <2>1. \A d \in Callers : rpc'[d] # "idle" => serving'[d] \in DOMAIN requests'
    BY <1>s, <1>t
  <2> QED
    BY <1>s, <1>t, <1>k, <2>1 DEF RuntimeTypeOK, Awaits
<1>2. ServeApart'
  BY <1>s, <1>t DEF RuntimeInv, ServeApart
<1>3. ASSUME NEW d \in Callers, rpc'[d] # "idle"
      PROVE  AtAwait(rpc[d], Req(d))'
  <2>1. CASE d = c
    BY <1>s, <1>c, <1>k, <1>3, <2>1, SameAwaits
  <2>2. CASE d # c
    <3>1. AtAwait(rpc[d], Req(d)) /\ Req(d) \in Request
      BY <1>s, <1>t, <1>3, <2>2 DEF RuntimeInv
    <3> QED
      BY <1>s, <1>o, <1>k, <1>3, <2>2, <3>1, SameAwaits
  <2> QED
    BY <2>1, <2>2
<1>4. DrawApart'
  <2>1. ASSUME NEW d \in Callers \ {c}, rpc'[c] = "create",
               rpc'[d] \in {"create", "refetch"}
        PROVE  (Req(d).agg)' # (Req(c).agg)'
    <3>1. rpc[d] # "idle" /\ (Req(d))' = Req(d)
      BY <1>s, <1>o, <2>1
    <3>2. Req(d).agg # r.agg
      BY <1>s, <1>t, <2>1, <3>1 DEF IsFresh, Req
    <3> QED
      BY <1>s, <1>c, <2>1, <3>1, <3>2
  <2>2. rpc'[c] # "refetch"
    BY <1>s
  <2>3. \A d \in Callers \ {c} : rpc'[d] \in {"create", "refetch"} =>
          rpc[d] \in {"create", "refetch"} /\ (Req(d).agg)' = Req(d).agg
    BY <1>s, <1>o
  <2> QED
    BY <2>1, <2>2, <2>3 DEF RuntimeInv, DrawApart
<1>5. RowsAreDrawn'
  BY <1>s, <1>k DEF RuntimeInv, RowsAreDrawn, IsFresh
<1>6. KeysAreUnique'
  BY <1>k, SameHolders DEF RuntimeInv, KeysAreUnique
<1>7. ASSUME NEW i \in DOMAIN requests'
      PROVE  AnswerHolds(requests[i])'
  <2>1. CASE i = n
    BY <1>s, <1>k, <2>1, SameHolders DEF AnswerHolds
  <2>2. CASE i # n
    <3>1. requests'[i] = requests[i] /\ AnswerHolds(requests[i])
      BY <1>s, <1>7, <2>2 DEF RuntimeInv
    <3> QED
      BY <3>1, <1>k, SameHolders DEF AnswerHolds
  <2> QED
    BY <2>1, <2>2
<1>8. CreatedOnce'
  <2>1. \A i \in DOMAIN requests', q \in Keys :
          IsCreation(requests'[i], q) =>
            i \in DOMAIN requests /\ IsCreation(requests[i], q)
    BY <1>s DEF IsCreation
  <2> QED
    BY <1>s, <2>1 DEF RuntimeInv, CreatedOnce, IsCreation
<1> QED
  BY <1>1, <1>2, <1>3, <1>4, <1>5, <1>6, <1>7, <1>8 DEF RuntimeInv

(* A provision that inserts its row and hears of it, or not.               *)
LEMMA InsertingKeepsInv ==
  ASSUME RuntimeInv, NEW c \in Callers, Inserted(c),
         NEW x \in {"created", "error"}, Answer(c, x),
         failures' \in 0 .. MaxFaults, failures' >= failures,
         x = "error" => failures' > 0
  PROVE  RuntimeInv'
<1> DEFINE q == Req(c)
           r == [q EXCEPT !.answer = x]
<1>a. rpc[c] = "create"
  BY DEF Inserted
<1>q. /\ q \in Request /\ q.op = "provision" /\ rows[q.agg] = NoRow
      /\ serving[c] \in DOMAIN requests /\ requests[serving[c]] = q
      /\ q.answer = "none" /\ q.agg \in Aggregates /\ q.loop \in DOMAIN Definitions
  <2>1. AtAwait("create", q)
    BY <1>a DEF RuntimeInv
  <2> QED
    BY <1>a, <2>1, ReqType DEF RuntimeInv, AtAwait, Request, Req
<1>r. /\ r \in Request /\ Serving(c, "idle", r)
      /\ r.agg = q.agg /\ r.op = q.op /\ r.key = q.key /\ r.answer = x
  <2>1. x \in Answers
    BY DEF Answers
  <2> QED
    BY <1>a, <1>q, <2>1, AnswerServes DEF RuntimeInv, Request
<1>n. q.key = NoKey \/ Holders(q.key) = {}
  BY DEF Inserted
<1>w. /\ rows' \in [Aggregates -> Row \cup {NoRow}]
      /\ rows'[q.agg] \in Row /\ rows'[q.agg] # NoRow /\ rows'[q.agg].key = q.key
      /\ \A a \in Aggregates : a # q.agg => rows'[a] = rows[a]
      /\ loopEvents' = loopEvents
  <2>1. Definitions[q.loop].initial \in StateIds /\ q.key \in Keys \cup {NoKey}
    BY <1>q, DefinitionsAssumption DEF LoopDefinition, Request
  <2>2. [loop |-> q.loop, key |-> q.key, state |-> Definitions[q.loop].initial,
         status |-> "CREATED"] \in Row
    BY <1>q, <2>1 DEF Row, RowStates
  <2> QED
    BY <1>q, <2>2 DEF Inserted, RuntimeInv, RuntimeTypeOK
<1> HIDE DEF q, r
<1>s. /\ requests' \in Seq(Request) /\ Len(requests') = Len(requests)
      /\ DOMAIN requests' = DOMAIN requests
      /\ rpc' \in [Callers -> Awaits \cup {"idle"}]
      /\ serving' \in [Callers -> 0 .. MaxRequests]
      /\ rpc'[c] = "idle" /\ requests'[serving[c]] = r
      /\ \A d \in Callers \ {c} :
           /\ rpc'[d] = rpc[d] /\ serving'[d] = serving[d]
           /\ rpc[d] # "idle" => serving[d] # serving[c]
      /\ \A i \in DOMAIN requests : i # serving[c] => requests'[i] = requests[i]
  BY <1>a, <1>r, ServingRequests DEF RuntimeInv
<1>t. /\ RuntimeTypeOK
      /\ \A d \in Callers : rpc[d] # "idle" =>
           serving[d] \in DOMAIN requests /\ Req(d) \in Request
  BY ReqType DEF RuntimeInv
<1>o. \A d \in Callers \ {c} : rpc'[d] # "idle" => (Req(d))' = Req(d)
  BY <1>s, <1>t DEF Req
<1>h. \A k \in Keys : Holders(k)' = IF k = q.key THEN {q.agg} ELSE Holders(k)
  BY <1>n, <1>q, <1>w DEF Holders
<1>1. RuntimeTypeOK'
  <2>1. \A d \in Callers : rpc'[d] # "idle" => serving'[d] \in DOMAIN requests'
    BY <1>s, <1>t
  <2> QED
    BY <1>s, <1>t, <1>w, <2>1 DEF RuntimeTypeOK, Awaits
<1>2. ServeApart'
  <2>1. \A d \in Callers : rpc'[d] # "idle" =>
          rpc[d] # "idle" /\ serving'[d] = serving[d]
    BY <1>s
  <2> QED
    BY <2>1 DEF RuntimeInv, ServeApart
<1>3. ASSUME NEW d \in Callers, rpc'[d] # "idle"
      PROVE  AtAwait(rpc[d], Req(d))'
  <2>1. d # c
    BY <1>s, <1>3
  <2>2. rpc'[d] = rpc[d] /\ (Req(d))' = Req(d)
    BY <1>s, <1>o, <1>3, <2>1
  <2>3. AtAwait(rpc[d], Req(d)) /\ Req(d).agg \in Aggregates
    BY <1>t, <1>3, <2>2 DEF RuntimeInv, Request
  <2>4. rpc[d] \in {"create", "refetch"} => Req(d).agg # q.agg
    BY <1>a, <2>1 DEF RuntimeInv, DrawApart, q
  <2>5. rpc[d] = "refetch" => \A k \in Keys : k = Req(d).key => Holders(k)' # {}
    BY <1>h, <2>3 DEF AtAwait
  <2>6. rows[Req(d).agg] # NoRow => rows'[Req(d).agg] # NoRow
    BY <1>w, <2>3
  <2>7. rpc[d] \in {"create", "refetch"} => rows'[Req(d).agg] = NoRow
    BY <1>w, <2>3, <2>4 DEF AtAwait
  <2> QED
    BY <2>2, <2>3, <2>5, <2>6, <2>7 DEF AtAwait
<1>4. DrawApart'
  <2>1. \A d \in Callers : rpc'[d] \in {"create", "refetch"} =>
          rpc[d] \in {"create", "refetch"} /\ (Req(d).agg)' = Req(d).agg
    BY <1>s, <1>o
  <2> QED
    BY <2>1 DEF RuntimeInv, DrawApart
<1>5. RowsAreDrawn'
  <2> SUFFICES ASSUME NEW a \in Aggregates, rows'[a] # NoRow
               PROVE  \E i \in DOMAIN requests' : requests'[i].agg = a
    BY DEF RowsAreDrawn, IsFresh
  <2>1. CASE a = q.agg
    BY <1>q, <1>r, <1>s, <2>1
  <2>2. CASE a # q.agg
    <3>1. PICK i \in DOMAIN requests : requests[i].agg = a
      BY <1>w, <2>2 DEF RuntimeInv, RowsAreDrawn, IsFresh
    <3> QED
      BY <1>q, <1>s, <2>2, <3>1
  <2> QED
    BY <2>1, <2>2
<1>6. KeysAreUnique'
  BY <1>h DEF RuntimeInv, KeysAreUnique
<1>7. ASSUME NEW i \in DOMAIN requests'
      PROVE  AnswerHolds(requests[i])'
  <2>1. CASE i = serving[c]
    BY <1>h, <1>q, <1>r, <1>s, <2>1 DEF AnswerHolds
  <2>2. CASE i # serving[c]
    <3>1. requests'[i] = requests[i] /\ AnswerHolds(requests[i])
      BY <1>s, <1>7, <2>2 DEF RuntimeInv
    <3>2. failures \in Nat /\ failures' \in Nat
      BY <1>t DEF RuntimeTypeOK
    <3>3. \A k \in Keys : Holders(k) \subseteq Holders(k)'
      BY <1>h, <1>n
    <3> QED
      BY <3>1, <3>2, <3>3 DEF AnswerHolds
  <2> QED
    BY <2>1, <2>2
<1>8. CreatedOnce'
  <2>1. \A i \in DOMAIN requests', k \in Keys :
          IsCreation(requests'[i], k) =>
            i = serving[c] \/ IsCreation(requests[i], k)
    BY <1>s DEF IsCreation
  <2>2. ASSUME NEW k \in Keys, NEW i \in DOMAIN requests, IsCreation(requests[i], k)
        PROVE  q.key # k
    BY <1>n, <2>2 DEF IsCreation, RuntimeInv, AnswerHolds
  <2>3. \A k \in Keys : IsCreation(requests'[serving[c]], k) => q.key = k
    BY <1>r, <1>s DEF IsCreation
  <2> QED
    BY <1>s, <2>1, <2>2, <2>3 DEF RuntimeInv, CreatedOnce
<1> QED
  BY <1>1, <1>2, <1>3, <1>4, <1>5, <1>6, <1>7, <1>8 DEF RuntimeInv

-----------------------------------------------------------------------------
(* One lemma per action.                                                   *)

LEMMA NewRequestType ==
  ASSUME RuntimeTypeOK, NEW op \in {"provision", "start", "transition", "cancel"},
         NEW a \in Aggregates
  PROVE  /\ NewRequest(op, a) \in Request
         /\ NewRequest(op, a).op = op /\ NewRequest(op, a).agg = a
         /\ NewRequest(op, a).answer = "none" /\ NewRequest(op, a).read = rows[a]
BY DEF NewRequest, Request, RowStates, Answers, RuntimeTypeOK

LEMMA ProvisionLooksUpKeepsInv ==
  ASSUME RuntimeInv, NEW c \in Callers, NEW a \in Aggregates,
         NEW l \in DOMAIN Definitions, NEW k \in Keys \cup {NoKey},
         ProvisionLooksUp(c, a, l, k)
  PROVE  RuntimeInv'
<1> DEFINE q == NewRequest("provision", a)
           r == [q EXCEPT !.loop = l, !.key = k]
           s == [r EXCEPT !.answer = "idempotent_replay"]
<1>q. q \in Request /\ q.op = "provision" /\ q.agg = a /\ q.answer = "none"
  BY NewRequestType DEF RuntimeInv
<1>1. /\ r \in Request /\ r.op = "provision" /\ r.agg = a /\ r.key = k
      /\ r.answer = "none" /\ r.loop = l
  <2> HIDE DEF q
  <2> QED
    BY <1>q DEF Request
<1>2. /\ s \in Request /\ s.op = "provision" /\ s.agg = a /\ s.key = k
      /\ s.answer = "idempotent_replay"
  <2> HIDE DEF r
  <2> QED
    BY <1>1 DEF Request, Answers
<1>3. CASE a \in Holders(k) /\ Arrives(c, s, "idle")
  <2> HIDE DEF r, s
  <2> QED
    BY <1>2, <1>3, ArrivingKeepsInv DEF ProvisionLooksUp
<1>4. CASE IsFresh(a) /\ Arrives(c, r, "create")
  <2>1. rows[a] = NoRow
    BY <1>4 DEF RuntimeInv, RowsAreDrawn
  <2> HIDE DEF r, s
  <2>2. AtAwait("create", r)
    BY <1>1, <2>1 DEF AtAwait
  <2> QED
    BY <1>1, <1>4, <2>2, ArrivingKeepsInv DEF ProvisionLooksUp
<1> QED
  BY <1>3, <1>4 DEF ProvisionLooksUp, AnsweredAtOnce

LEMMA FindRowKeepsInv ==
  ASSUME RuntimeInv, NEW c \in Callers, NEW a \in Aggregates, NEW r \in Request,
         r.op \in {"start", "transition", "cancel"}, r.agg = a, r.read = rows[a],
         r.op = "transition" => r.tid \in TransitionIds, r.answer = "none",
         FindRow(c, a, r)
  PROVE  RuntimeInv'
<1>1. ASSUME NEW x \in {"not_found", "already_started", "already_terminal"},
             AnsweredAtOnce(c, r, x)
      PROVE  RuntimeInv'
  <2> DEFINE s == [r EXCEPT !.answer = x]
  <2>1. s \in Request /\ s.answer = x /\ s.op = r.op
    BY DEF Request, Answers
  <2>2. Arrives(c, s, "idle")
    BY <1>1 DEF AnsweredAtOnce
  <2> HIDE DEF s
  <2> QED
    BY <2>1, <2>2, ArrivingKeepsInv DEF FindRow
<1>2. ASSUME NEW k \in {"engine", "update"}, Arrives(c, r, k), rows[a] # NoRow
      PROVE  RuntimeInv'
  <2>1. AtAwait(k, r)
    BY <1>2 DEF AtAwait
  <2> QED
    BY <1>2, <2>1, ArrivingKeepsInv DEF FindRow
<1> QED
  BY <1>1, <1>2 DEF FindRow

(* An answer, with no new row.                                             *)
LEMMA AnsweringKeepsInv ==
  ASSUME RuntimeInv, NEW c \in Callers, rpc[c] # "idle", NEW x \in Answers, Answer(c, x),
         x # "created", x = "error" => failures' > 0 \/ Req(c).op # "provision",
         x = "idempotent_replay" => Req(c).op # "provision",
         SameKeys, rows' \in [Aggregates -> Row \cup {NoRow}],
         loopEvents' \in [Aggregates -> Seq(LoopEvent)],
         failures' \in 0 .. MaxFaults, failures' >= failures
  PROVE  RuntimeInv'
<1> DEFINE r == [Req(c) EXCEPT !.answer = x]
<1>1. r \in Request /\ Serving(c, "idle", r)
  BY AnswerServes DEF RuntimeInv
<1>2. r.agg = Req(c).agg /\ r.op = Req(c).op /\ r.answer = x
  BY ReqType DEF RuntimeInv, Request
<1> HIDE DEF r
<1> QED
  BY <1>1, <1>2, ServingKeepsInv

(* The next await, with no new row.                                        *)
LEMMA GoingOnKeepsInv ==
  ASSUME RuntimeInv, NEW c \in Callers, rpc[c] # "idle", NEW k \in Awaits, GoesTo(c, k),
         AtAwait(k, Req(c)),
         k \in {"create", "refetch"} => rpc[c] \in {"create", "refetch"},
         SameKeys, rows' \in [Aggregates -> Row \cup {NoRow}],
         loopEvents' \in [Aggregates -> Seq(LoopEvent)], failures' = failures
  PROVE  RuntimeInv'
<1>1. Req(c) \in Request /\ Serving(c, k, Req(c))
  BY ReqType, GoesToServes DEF RuntimeInv
<1>2. Req(c).answer = "none" /\ k # "idle"
  BY DEF AtAwait, Awaits
<1>3. failures' \in 0 .. MaxFaults /\ failures' >= failures
  BY DEF RuntimeInv, RuntimeTypeOK
<1> QED
  BY <1>1, <1>2, <1>3, ServingKeepsInv

LEMMA CreateKeepsInv ==
  ASSUME RuntimeInv, NEW c \in Callers, Create(c)
  PROVE  RuntimeInv'
<1>1. failures' = failures /\ failures \in 0 .. MaxFaults
  BY DEF Create, RuntimeInv, RuntimeTypeOK
<1> QED
  BY <1>1, InsertingKeepsInv DEF Create

LEMMA KeyIsTakenKeepsInv ==
  ASSUME RuntimeInv, NEW c \in Callers, KeyIsTaken(c)
  PROVE  RuntimeInv'
<1>1. rpc[c] = "create" /\ AtAwait("create", Req(c)) /\ Req(c) \in Request
  BY ReqType DEF KeyIsTaken, RuntimeInv
<1>2. AtAwait("refetch", Req(c))
  BY <1>1 DEF KeyIsTaken, AtAwait, Request
<1>3. /\ SameKeys /\ rows' \in [Aggregates -> Row \cup {NoRow}]
      /\ loopEvents' \in [Aggregates -> Seq(LoopEvent)] /\ failures' = failures
  BY DEF KeyIsTaken, database, SameKeys, RuntimeInv, RuntimeTypeOK
<1> QED
  BY <1>1, <1>2, <1>3, GoingOnKeepsInv DEF KeyIsTaken, Awaits

LEMMA RefetchKeepsInv ==
  ASSUME RuntimeInv, NEW c \in Callers, Refetch(c)
  PROVE  RuntimeInv'
<1>1. PICK a \in Holders(Req(c).key) :
        requests' = [requests EXCEPT ![serving[c]].agg = a,
                                     ![serving[c]].answer = "idempotent_replay"]
  BY DEF Refetch
<1> DEFINE q == Req(c)
           r == [q EXCEPT !.agg = a, !.answer = "idempotent_replay"]
<1>2. /\ rpc[c] = "refetch" /\ AtAwait("refetch", q) /\ q \in Request
      /\ serving[c] \in DOMAIN requests
  BY ReqType DEF Refetch, RuntimeInv
<1>3. a \in Aggregates
  BY DEF Holders
<1>4. /\ r \in Request /\ r.agg = a /\ r.answer = "idempotent_replay"
      /\ r.key = q.key
  <2> HIDE DEF q
  <2> QED
    BY <1>2, <1>3 DEF Request, Answers
<1>5. Serving(c, "idle", r)
  BY <1>1, <1>2 DEF Serving, Refetch, Req, RuntimeInv, RuntimeTypeOK
<1>6. rows[q.agg] = NoRow /\ r.agg \in Holders(r.key)
  BY <1>1, <1>2, <1>4 DEF AtAwait
<1>7. /\ SameKeys /\ rows' \in [Aggregates -> Row \cup {NoRow}]
      /\ loopEvents' \in [Aggregates -> Seq(LoopEvent)]
      /\ failures' \in 0 .. MaxFaults /\ failures' >= failures
  BY DEF Refetch, database, SameKeys, RuntimeInv, RuntimeTypeOK
<1> HIDE DEF r
<1> QED
  BY <1>2, <1>4, <1>5, <1>6, <1>7, ServingKeepsInv

LEMMA CallsEngineKeepsInv ==
  ASSUME RuntimeInv, TypeInv', NEW c \in Callers, CallsEngine(c)
  PROVE  RuntimeInv'
<1> DEFINE q == Req(c)
           to == IF pc'[c] = "idle" THEN q.to ELSE call'[c].write.state
           r == [q EXCEPT !.call = calls + 1, !.to = to]
<1>1. /\ rpc[c] = "engine" /\ AtAwait("engine", q) /\ q \in Request
      /\ serving[c] \in DOMAIN requests
  BY ReqType DEF CallsEngine, RuntimeInv
<1>2. to \in RowStates
  <2>1. pc'[c] # "idle" => call'[c].write \in LoopInstance
    BY DEF TypeInv, CallShape, Call
  <2> QED
    BY <1>1, <2>1 DEF LoopInstance, RowStates, Request
<1>3. calls + 1 \in Nat
  <2>1. Begin(c, q.agg)
    BY DEF CallsEngine, StartCall, TransitionRefused, TransitionRequested
  <2>2. calls' = calls + 1 /\ calls' \in 0 .. MaxCalls
    BY <2>1 DEF Begin, TypeInv, TypeOK
  <2> QED
    BY <2>2
<1>4. /\ r \in Request /\ r.agg = q.agg /\ r.answer = q.answer /\ r.op = q.op
      /\ r.read = q.read /\ r.tid = q.tid
  <2> HIDE DEF q, to
  <2> QED
    BY <1>1, <1>2, <1>3 DEF Request
<1>5. Serving(c, "engine", r)
  BY <1>1 DEF Serving, CallsEngine, Req, RuntimeInv, RuntimeTypeOK
<1>6. /\ SameKeys /\ rows' \in [Aggregates -> Row \cup {NoRow}]
      /\ loopEvents' \in [Aggregates -> Seq(LoopEvent)]
      /\ failures' \in 0 .. MaxFaults /\ failures' >= failures
  BY DEF CallsEngine, database, SameKeys, RuntimeInv, RuntimeTypeOK
<1> HIDE DEF r
<1>7. AtAwait("engine", r) /\ r.op # "provision" /\ r.answer = "none"
  BY <1>1, <1>4 DEF AtAwait
<1> QED
  BY <1>1, <1>4, <1>5, <1>6, <1>7, ServingKeepsInv DEF Awaits

LEMMA EngineReturnsKeepsInv ==
  ASSUME RuntimeInv, NEW c \in Callers, EngineReturns(c)
  PROVE  RuntimeInv'
<1>1. rpc[c] = "engine" /\ AtAwait("engine", Req(c))
  BY DEF EngineReturns, RuntimeInv
<1>2. /\ SameKeys /\ rows' \in [Aggregates -> Row \cup {NoRow}]
      /\ loopEvents' \in [Aggregates -> Seq(LoopEvent)]
      /\ failures' = failures /\ failures' \in 0 .. MaxFaults /\ failures' >= failures
  BY DEF EngineReturns, database, SameKeys, RuntimeInv, RuntimeTypeOK
<1>3. ASSUME NEW x \in {"error", "rejected"}, Answer(c, x)
      PROVE  RuntimeInv'
  <2>1. x \in Answers /\ Req(c).op # "provision"
    BY <1>1 DEF Answers, AtAwait
  <2> QED
    BY <1>1, <1>2, <1>3, <2>1, AnsweringKeepsInv
<1>4. CASE GoesTo(c, "update")
  <2>1. AtAwait("update", Req(c))
    BY <1>1 DEF AtAwait
  <2> QED
    BY <1>1, <1>2, <1>4, <2>1, GoingOnKeepsInv DEF Awaits
<1> QED
  BY <1>3, <1>4 DEF EngineReturns

LEMMA EventOfType ==
  ASSUME RuntimeTypeOK, NEW c \in Callers, rpc[c] = "append", AtAwait("append", Req(c))
  PROVE  EventOf(serving[c]) \in LoopEvent
<1> DEFINE q == Req(c)
<1>1. q \in Request /\ serving[c] \in Nat /\ q = requests[serving[c]]
  BY ReqType DEF Req
<1>2. q.read \in Row /\ (q.op = "transition" => q.tid \in TransitionIds)
      /\ q.op \in {"start", "transition", "cancel"}
  BY <1>1 DEF AtAwait, Request
<1> HIDE DEF q
<1>3. EventType(q) \in {"start", "CANCELLED"} \cup TransitionIds
  BY <1>2 DEF EventType
<1>4. q.read.state \in RowStates /\ q.to \in RowStates
  BY <1>1, <1>2 DEF Row, Request
<1> QED
  BY <1>1, <1>3, <1>4 DEF EventOf, LoopEvent

(* The update of a row, and the event after it, leave the keys alone.      *)
LEMMA WritesTypes ==
  ASSUME RuntimeInv, NEW c \in Callers, Updated(c) \/ Appended(c)
  PROVE  /\ SameKeys /\ rows' \in [Aggregates -> Row \cup {NoRow}]
         /\ loopEvents' \in [Aggregates -> Seq(LoopEvent)]
<1> DEFINE q == Req(c)
<1>1. CASE Updated(c)
  <2>1. rpc[c] = "update" /\ AtAwait("update", q) /\ q \in Request
    BY <1>1, ReqType DEF Updated, RuntimeInv
  <2>2. /\ q.agg \in Aggregates /\ rows[q.agg] \in Row /\ q.to \in RowStates
        /\ q.read \in Row
    BY <2>1 DEF AtAwait, Request, RuntimeInv, RuntimeTypeOK
  <2>3. ToStatus(q) \in {"CREATED", "active", "OPEN", "TERMINAL"}
    BY <2>1, <2>2 DEF ToStatus, Row, AtAwait
  <2>4. rows' = [rows EXCEPT ![q.agg] =
                   [rows[q.agg] EXCEPT !.state = q.to, !.status = ToStatus(q)]]
    BY <1>1, <2>2 DEF Updated, RuntimeInv, RuntimeTypeOK
  <2> DEFINE w == [rows[q.agg] EXCEPT !.state = q.to, !.status = ToStatus(q)]
  <2>5. w \in Row /\ w.key = rows[q.agg].key /\ w # NoRow
    BY <2>2, <2>3 DEF Row
  <2> HIDE DEF q, w
  <2>6. rows' = [rows EXCEPT ![q.agg] = w]
    BY <2>4 DEF w
  <2> QED
    BY <1>1, <2>2, <2>5, <2>6, ZenonT(60)
       DEF Updated, SameKeys, RuntimeInv, RuntimeTypeOK
<1>2. CASE Appended(c)
  <2>1. rpc[c] = "append" /\ AtAwait("append", q) /\ q \in Request
    BY <1>2, ReqType DEF Appended, RuntimeInv
  <2>2. EventOf(serving[c]) \in LoopEvent /\ q.agg \in Aggregates
    BY <2>1, EventOfType DEF RuntimeInv, Request
  <2> HIDE DEF q
  <2>3. loopEvents[q.agg] \in Seq(LoopEvent)
    BY <2>2 DEF RuntimeInv, RuntimeTypeOK
  <2>4. loopEvents' = [loopEvents EXCEPT ![q.agg] =
                         Append(loopEvents[q.agg], EventOf(serving[c]))]
    BY <1>2, <2>2 DEF Appended, RuntimeInv, RuntimeTypeOK, q
  <2>5. Append(loopEvents[q.agg], EventOf(serving[c])) \in Seq(LoopEvent)
    BY <2>2, <2>3
  <2> QED
    BY <1>2, <2>2, <2>4, <2>5 DEF Appended, SameKeys, RuntimeInv, RuntimeTypeOK
<1> QED
  BY <1>1, <1>2

LEMMA WritesKeepInv ==
  ASSUME RuntimeInv, NEW c \in Callers, Update(c) \/ AppendEvent(c)
  PROVE  RuntimeInv'
<1>1. /\ SameKeys /\ rows' \in [Aggregates -> Row \cup {NoRow}]
      /\ loopEvents' \in [Aggregates -> Seq(LoopEvent)]
  BY WritesTypes DEF Update, AppendEvent
<1>2. failures' = failures /\ failures' \in 0 .. MaxFaults /\ failures' >= failures
  BY DEF Update, AppendEvent, RuntimeInv, RuntimeTypeOK
<1>3. CASE Update(c)
  <2>1. rpc[c] = "update" /\ AtAwait("update", Req(c))
    BY <1>3 DEF Update, Updated, RuntimeInv
  <2>2. AtAwait("append", Req(c))
    BY <2>1 DEF AtAwait
  <2> QED
    BY <1>1, <1>2, <1>3, <2>1, <2>2, GoingOnKeepsInv DEF Update, Awaits
<1>4. CASE AppendEvent(c)
  <2>1. rpc[c] = "append" /\ Req(c).op \in {"start", "transition", "cancel"}
    BY <1>4 DEF AppendEvent, Appended, RuntimeInv, AtAwait
  <2>2. Success(Req(c).op) \in {"started", "executed", "cancelled"}
    BY <2>1 DEF Success
  <2>3. Success(Req(c).op) \in Answers
    BY <2>2 DEF Answers
  <2> QED
    BY <1>1, <1>2, <1>4, <2>1, <2>2, <2>3, AnsweringKeepsInv DEF AppendEvent
<1> QED
  BY <1>3, <1>4

LEMMA FailuresKeepInv ==
  ASSUME RuntimeInv, TypeInv, NEW c \in Callers, RequestFails(c) \/ Unconfirmed(c)
  PROVE  RuntimeInv'
<1>1. /\ failures' \in 0 .. MaxFaults /\ failures' >= failures /\ failures' > 0
      /\ Answer(c, "error") /\ "error" \in Answers /\ rpc[c] # "idle"
  <2>1. MayFail /\ failures' = failures + 1 /\ Answer(c, "error")
    BY DEF RequestFails, Unconfirmed
  <2>2. failures \in 0 .. MaxFaults /\ faults \in 0 .. MaxFaults /\ MaxFaults \in Nat
    BY EngineAssumption DEF RuntimeInv, RuntimeTypeOK, TypeInv, TypeOK
  <2>3. failures' \in 0 .. MaxFaults /\ failures' >= failures /\ failures' > 0
    BY <2>1, <2>2 DEF MayFail
  <2>4. rpc[c] # "idle"
    BY DEF RequestFails, Unconfirmed, Inserted, Updated, Appended
  <2> QED
    BY <2>1, <2>3, <2>4 DEF Answers
<1>2. CASE RequestFails(c)
  <2>1. /\ SameKeys /\ rows' \in [Aggregates -> Row \cup {NoRow}]
        /\ loopEvents' \in [Aggregates -> Seq(LoopEvent)]
    BY <1>2 DEF RequestFails, database, SameKeys, RuntimeInv, RuntimeTypeOK
  <2> QED
    BY <1>1, <2>1, AnsweringKeepsInv
<1>3. CASE Inserted(c)
  BY <1>1, <1>3, InsertingKeepsInv
<1>4. CASE Updated(c) \/ Appended(c)
  BY <1>1, <1>4, WritesTypes, AnsweringKeepsInv
<1> QED
  BY <1>2, <1>3, <1>4 DEF Unconfirmed

LEMMA RuntimeStutterKeepsInv ==
  ASSUME RuntimeInv, UNCHANGED runtimeVars
  PROVE  RuntimeInv'
<1>1. /\ rows' = rows /\ loopEvents' = loopEvents /\ requests' = requests
      /\ rpc' = rpc /\ serving' = serving /\ failures' = failures
  BY DEF runtimeVars, database
<1> QED
  BY <1>1 DEF RuntimeInv, RuntimeTypeOK, ServeApart, AtAwait, DrawApart, RowsAreDrawn,
     KeysAreUnique, AnswerHolds, CreatedOnce, Req, Holders, IsFresh

-----------------------------------------------------------------------------
LEMMA RuntimeInitInv ==
  ASSUME RuntimeInit
  PROVE  RuntimeInv
<1>1. requests = <<>> /\ DOMAIN requests = {} /\ Len(requests) = 0
  BY DEF RuntimeInit
<1>2. requests \in Seq(Request) /\ loopEvents \in [Aggregates -> Seq(LoopEvent)]
  BY EmptySeq DEF RuntimeInit
<1>3. RuntimeTypeOK
  BY <1>1, <1>2, EngineAssumption, RuntimeAssumption DEF RuntimeInit, RuntimeTypeOK
<1> QED
  BY <1>1, <1>3 DEF RuntimeInit, RuntimeInv, ServeApart, DrawApart, RowsAreDrawn,
     KeysAreUnique, CreatedOnce, Holders

LEMMA RuntimeNextInv ==
  ASSUME RuntimeInv, TypeInv, [RuntimeNext]_allVars
  PROVE  RuntimeInv' /\ TypeInv'
<1>t. TypeInv'
  BY RuntimeStepIsEngineStep, NextTypes
<1>1. ASSUME NEW c \in Callers, NEW a \in Aggregates, NEW l \in DOMAIN Definitions,
             NEW k \in Keys \cup {NoKey}, ProvisionLooksUp(c, a, l, k)
      PROVE  RuntimeInv'
  BY <1>1, ProvisionLooksUpKeepsInv
<1>2. ASSUME NEW c \in Callers, NEW a \in Aggregates, NEW op \in {"start", "cancel"},
             FindRow(c, a, NewRequest(op, a))
      PROVE  RuntimeInv'
  <2>1. /\ NewRequest(op, a) \in Request /\ NewRequest(op, a).op = op
        /\ NewRequest(op, a).agg = a /\ NewRequest(op, a).read = rows[a]
        /\ NewRequest(op, a).answer = "none"
    BY NewRequestType DEF RuntimeInv
  <2> QED
    BY <1>2, <2>1, FindRowKeepsInv
<1>3. ASSUME NEW c \in Callers, NEW a \in Aggregates, NEW t \in TransitionIds,
             FindRow(c, a, NewTransition(a, t))
      PROVE  RuntimeInv'
  <2> DEFINE q == NewRequest("transition", a)
             r == [q EXCEPT !.tid = t]
  <2>1. /\ q \in Request /\ q.op = "transition" /\ q.agg = a /\ q.read = rows[a]
        /\ q.answer = "none"
    BY NewRequestType DEF RuntimeInv
  <2>2. /\ r \in Request /\ r.op = "transition" /\ r.agg = a /\ r.read = rows[a]
        /\ r.answer = "none" /\ r.tid = t
    <3> HIDE DEF q
    <3> QED
      BY <2>1 DEF Request
  <2> HIDE DEF r
  <2>3. FindRow(c, a, r)
    BY <1>3 DEF r, NewTransition
  <2> QED
    BY <2>2, <2>3, FindRowKeepsInv
<1>4. ASSUME NEW c \in Callers, Serve(c)
      PROVE  RuntimeInv'
  <2>1. CASE EngineContinues(c)
    BY <2>1, RuntimeStutterKeepsInv DEF EngineContinues
  <2> QED
    BY <1>t, <1>4, <2>1, CreateKeepsInv, KeyIsTakenKeepsInv, RefetchKeepsInv,
       CallsEngineKeepsInv, EngineReturnsKeepsInv, WritesKeepInv DEF Serve
<1>5. ASSUME NEW c \in Callers, EngineFails(c)
      PROVE  RuntimeInv'
  BY <1>5, RuntimeStutterKeepsInv DEF EngineFails
<1>6. ASSUME NEW c \in Callers, RequestFails(c) \/ Unconfirmed(c)
      PROVE  RuntimeInv'
  BY <1>6, FailuresKeepInv
<1>7. CASE UNCHANGED allVars
  BY <1>t, <1>7, RuntimeStutterKeepsInv DEF allVars
<1>8. CASE RuntimeNext
  <2>1. PICK c \in Callers :
          \/ \E a \in Aggregates, l \in DOMAIN Definitions, k \in Keys \cup {NoKey} :
               ProvisionLooksUp(c, a, l, k)
          \/ \E a \in Aggregates, op \in {"start", "cancel"} :
               FindRow(c, a, NewRequest(op, a))
          \/ \E a \in Aggregates, t \in TransitionIds : FindRow(c, a, NewTransition(a, t))
          \/ Serve(c)
          \/ EngineFails(c) \/ RequestFails(c) \/ Unconfirmed(c)
    BY <1>8 DEF RuntimeNext
  <2> QED
    BY <1>t, <1>1, <1>2, <1>3, <1>4, <1>5, <1>6, <2>1
<1> QED
  BY <1>7, <1>8

LEMMA RuntimeInvariance == RuntimeSpec => [](RuntimeInv /\ TypeInv)
<1>1. RuntimeInit => RuntimeInv /\ TypeInv
  BY RuntimeInitInv, InitTypes DEF RuntimeInit
<1> QED
  BY <1>1, RuntimeNextInv, PTL DEF RuntimeSpec

(* Every reachable state of the runtime has the types of RuntimeTypeOK.    *)
THEOREM RuntimeTypesCorrect == RuntimeSpec => []RuntimeTypeOK
<1>1. RuntimeInv => RuntimeTypeOK
  BY DEF RuntimeInv
<1> QED
  BY <1>1, RuntimeInvariance, PTL

(* Provisions with one idempotency key make one row and all name it, for   *)
(* any number of overlapping, repeated and failing requests.               *)
THEOREM ProvisioningIsIdempotent == RuntimeSpec => []ProvisionIsIdempotent
BY InvIsIdempotent, RuntimeInvariance, PTL

(* The runtime, with its rows, its failures and its overlapping requests,  *)
(* is a client of the engine like any other.                               *)
THEOREM RuntimeImplementsEngine == RuntimeSpec => RunsTheEngine
<1>1. RuntimeInit => Init
  BY DEF RuntimeInit
<1> QED
  BY <1>1, RuntimeInvariance, RuntimeStepIsEngineStep, PTL
     DEF RuntimeSpec, RunsTheEngine, Spec

(* So what was proved of the engine holds under the runtime: the history   *)
(* it leaves is lawful.                                                    *)
THEOREM RuntimeHistoryIsLawful == RuntimeSpec => []RecordsAreLawful
BY RuntimeImplementsEngine, HistoryIsLawful, PTL DEF RunsTheEngine

-----------------------------------------------------------------------------
(* The answers and the events of the runtime are true of the engine: a     *)
(* second invariant, on top of RuntimeInv and of the engine's AnswersInv.  *)

(* The engine did what the request asked for.                              *)
Succeeded(r) ==
  /\ r.op = "start" => r.call \in CallIds /\ outcome[r.call] = "started"
  /\ r.op = "transition" => r.call \in CallIds /\ outcome[r.call] = "executed"

Recorded(r) ==
  \E m \in DOMAIN history[r.agg] :
    /\ history[r.agg][m].call = r.call /\ history[r.agg][m].tid = r.tid
    /\ history[r.agg][m].to = r.to

Successes == {"started", "executed", "cancelled"}

(* What its engine call left is what the request says, and its answer is   *)
(* the one of its engine call.                                             *)
RequestIsTrue(r) ==
  /\ r.call # 0 =>
       /\ r.call <= calls /\ r.op \in {"start", "transition"}
       /\ outcome[r.call] = "started" => r.op = "start"
       /\ outcome[r.call] = "executed" => r.op = "transition" /\ Recorded(r)
  /\ r.answer = "rejected" => r.call # 0 /\ outcome[r.call] \in Refusals
  /\ r.answer \in {"already_started", "already_terminal", "not_found"} => r.call = 0
  /\ r.answer \in Successes =>
       r.op # "provision" /\ r.answer = Success(r.op) /\ Succeeded(r)

(* The event e of aggregate a may be one of request r.                     *)
IsEventOf(e, a, r) ==
  /\ r.agg = a /\ r.op # "provision"
  /\ e.type = EventType(r) /\ e.to = r.to
  /\ r.answer \in Successes \cup {"error"}
  /\ Succeeded(r)

(* The engine call with the locals w is the one that caller c's request    *)
(* asked for.                                                              *)
CallIsServed(c, w) ==
  /\ rpc[c] = "engine"
  /\ w.id = Req(c).call /\ w.agg = Req(c).agg /\ w.op = Req(c).op
  /\ w.write.state = Req(c).to
  /\ w.op = "transition" => w.tr.id = Req(c).tid
  /\ w.result \in Refusals \cup {"none", IF w.op = "start" THEN "started" ELSE "executed"}

EventsAreTrue ==
  \A a \in Aggregates : \A n \in DOMAIN loopEvents[a] :
    LET e == loopEvents[a][n] IN
      e.request \in DOMAIN requests /\ IsEventOf(e, a, requests[e.request])

EventsAreOnce ==
  \A a \in Aggregates : \A n, m \in DOMAIN loopEvents[a] :
    loopEvents[a][n].request = loopEvents[a][m].request => n = m

SuccessesAreTold ==
  \A i \in DOMAIN requests : requests[i].answer \in Successes =>
    \E n \in DOMAIN loopEvents[requests[i].agg] :
      loopEvents[requests[i].agg][n].request = i

OneRequestPerCall ==
  \A i, j \in DOMAIN requests :
    (requests[i].call # 0 /\ requests[i].call = requests[j].call) => i = j

TruthInv ==
  /\ \A i \in DOMAIN requests : RequestIsTrue(requests[i])
  /\ OneRequestPerCall
  /\ \A c \in Callers : pc[c] # "idle" => CallIsServed(c, call[c])
  /\ \A c \in Callers : rpc[c] \in {"update", "append"} => Succeeded(Req(c))
  /\ EventsAreTrue /\ EventsAreOnce /\ SuccessesAreTold

AllInv == RuntimeInv /\ AnswersInv /\ TruthInv

(* What is proved of the runtime's own promises follows.                   *)
LEMMA TrueEventsAreBacked == AllInv => EventsAreBacked
<1> SUFFICES ASSUME AllInv, NEW a \in Aggregates, NEW n \in DOMAIN loopEvents[a],
                    NEW e, e = loopEvents[a][n], NEW r, r = requests[e.request]
             PROVE  /\ r.op = "start" => outcome[r.call] = "started"
                    /\ r.op = "transition" =>
                         \E m \in DOMAIN history[a] :
                           history[a][m].call = r.call /\ history[a][m].tid = e.type
                           /\ history[a][m].to = e.to
  BY DEF EventsAreBacked
<1>1. IsEventOf(e, a, r) /\ RequestIsTrue(r)
  BY DEF AllInv, TruthInv, EventsAreTrue
<1>2. ASSUME r.op = "transition"
      PROVE  \E m \in DOMAIN history[a] :
               history[a][m].call = r.call /\ history[a][m].tid = e.type
               /\ history[a][m].to = e.to
  <2>1. r.agg = a /\ e.type = r.tid /\ e.to = r.to
    BY <1>1, <1>2 DEF IsEventOf, EventType
  <2>2. r.call # 0 /\ outcome[r.call] = "executed"
    BY <1>1, <1>2 DEF IsEventOf, Succeeded, CallIds
  <2>3. Recorded(r)
    BY <1>1, <2>2 DEF RequestIsTrue
  <2> QED
    BY <2>1, <2>3 DEF Recorded
<1>3. r.op = "start" => outcome[r.call] = "started"
  BY <1>1 DEF IsEventOf, Succeeded
<1> QED
  BY <1>2, <1>3

LEMMA TrueAnswersAreTrue == AllInv => AnswersAreTrue
<1> SUFFICES ASSUME AllInv, NEW i \in DOMAIN requests, NEW r, r = requests[i]
             PROVE  /\ r.answer \in Successes => \E n \in EventsOf(i) : EventsOf(i) = {n}
                    /\ r.answer = "executed" => RecordsOf(i) # {}
                    /\ r.answer = "started" => outcome[r.call] = "started"
                    /\ r.answer \in {"rejected", "already_started", "already_terminal",
                                     "not_found"} =>
                         RecordsOf(i) = {} /\ EventsOf(i) = {}
  BY DEF AnswersAreTrue, Successes
<1>1. RequestIsTrue(r) /\ r \in Request /\ r.agg \in Aggregates
  <2>1. requests \in Seq(Request) /\ RequestIsTrue(r)
    BY DEF AllInv, TruthInv, RuntimeInv, RuntimeTypeOK
  <2>2. r \in Request
    BY <2>1, ElementOfSeq
  <2> QED
    BY <2>1, <2>2 DEF Request
<1>2. ASSUME r.answer \in Successes
      PROVE  \E n \in EventsOf(i) : EventsOf(i) = {n}
  <2>1. PICK n \in DOMAIN loopEvents[r.agg] : loopEvents[r.agg][n].request = i
    BY <1>2 DEF AllInv, TruthInv, SuccessesAreTold
  <2>2. \A m : m \in EventsOf(i) <=>
          m \in DOMAIN loopEvents[r.agg] /\ loopEvents[r.agg][m].request = i
    BY DEF EventsOf
  <2>3. \A m \in EventsOf(i) : m = n
    BY <1>1, <2>1, <2>2 DEF AllInv, TruthInv, EventsAreOnce
  <2> QED
    BY <2>1, <2>2, <2>3
<1>3. ASSUME r.answer = "executed"
      PROVE  RecordsOf(i) # {}
  <2>1. r.op = "transition" /\ Succeeded(r)
    BY <1>1, <1>3 DEF RequestIsTrue, Successes, Success, Request
  <2>2. Recorded(r)
    BY <1>1, <2>1 DEF Succeeded, RequestIsTrue, CallIds
  <2> QED
    BY <2>2 DEF Recorded, RecordsOf
<1>4. r.answer = "started" => outcome[r.call] = "started"
  BY <1>1 DEF RequestIsTrue, Successes, Success, Succeeded, Request
<1>5. ASSUME r.answer \in {"rejected", "already_started", "already_terminal", "not_found"}
      PROVE  RecordsOf(i) = {} /\ EventsOf(i) = {}
  <2>1. ASSUME NEW m \in DOMAIN history[r.agg], history[r.agg][m].call = r.call
        PROVE  FALSE
    <3>1. r.call \in CallIds
      <4>1. history[r.agg] \in Seq(TransitionRecord)
        BY <1>1 DEF AllInv, AnswersInv, LiveInv, TypeInv, TypeOK
      <4>2. history[r.agg][m] \in TransitionRecord
        BY <4>1, ElementOfSeq
      <4> QED
        BY <2>1, <4>2 DEF TransitionRecord
    <3>2. outcome[r.call] \in Refusals
      BY <1>1, <1>5, <3>1 DEF RequestIsTrue, CallIds
    <3>3. RecordsOfCall(r.call) = {}
      BY <3>1, <3>2 DEF AllInv, AnswersInv, AnswersAreHonest
    <3>4. <<r.agg, m>> \in RecordsOfCall(r.call)
      BY <1>1, <2>1, RecordsMember DEF Positions
    <3> QED
      BY <3>3, <3>4
  <2>2. ASSUME NEW n \in DOMAIN loopEvents[r.agg], loopEvents[r.agg][n].request = i
        PROVE  FALSE
    BY <1>1, <1>5, <2>2 DEF AllInv, TruthInv, EventsAreTrue, IsEventOf, Successes
  <2> QED
    BY <2>1, <2>2 DEF RecordsOf, EventsOf
<1> QED
  BY <1>2, <1>3, <1>4, <1>5

-----------------------------------------------------------------------------
(* What stays true of a request and of the events.                         *)

(* The engine keeps its records and its results.                           *)
EngineKeeps ==
  /\ HistoryGrows
  /\ calls' \in Nat /\ calls <= calls'
  /\ \A id \in CallIds : outcome[id] # "none" => outcome'[id] = outcome[id]

LEMMA IdleEngineKeeps ==
  ASSUME UNCHANGED vars, TypeOK
  PROVE  EngineKeeps
<1>1. UNCHANGED <<history, calls, outcome>>
  BY DEF vars
<1>2. calls \in Nat
  BY DEF TypeOK
<1> QED
  BY <1>1, <1>2, NoRecordMarks DEF EngineKeeps

LEMMA SucceededStays ==
  ASSUME NEW r, Succeeded(r), EngineKeeps
  PROVE  Succeeded(r)'
BY DEF Succeeded, EngineKeeps

LEMMA RequestStaysTrue ==
  ASSUME NEW r \in Request, RequestIsTrue(r), EngineKeeps, TypeOK,
         (r.call # 0 /\ outcome[r.call] = "none")
           => outcome'[r.call] \in {"none", "threw"} \cup Refusals
  PROVE  RequestIsTrue(r)'
<1>1. r.call \in Nat /\ r.agg \in Aggregates /\ calls \in Nat /\ calls' \in Nat
      /\ calls <= MaxCalls
  BY DEF Request, TypeOK, EngineKeeps
<1>2. r.call # 0 => r.call \in CallIds /\ r.call <= calls /\ r.call <= calls'
  BY <1>1, DefinitionsAssumption DEF RequestIsTrue, CallIds, EngineKeeps
<1>3. Recorded(r) => Recorded(r)'
  BY <1>1 DEF Recorded, EngineKeeps, HistoryGrows, Positions
<1>4. r.call # 0 => (outcome'[r.call] = outcome[r.call]
                      \/ outcome'[r.call] \in {"none", "threw"} \cup Refusals)
  BY <1>2 DEF EngineKeeps
<1>5. Succeeded(r) => Succeeded(r)'
  BY SucceededStays
<1>6. r.answer = "rejected" => outcome'[r.call] \in Refusals
  BY <1>2 DEF RequestIsTrue, EngineKeeps, Refusals
<1> QED
  BY <1>2, <1>3, <1>4, <1>5, <1>6 DEF RequestIsTrue, Refusals

(* A request that was answered is not touched again.                       *)
AnsweredStay ==
  \A i \in DOMAIN requests :
    /\ i \in DOMAIN requests'
    /\ requests[i].answer # "none" => requests'[i] = requests[i]

LEMMA EventsStayTrue ==
  ASSUME AllInv, AnsweredStay, EngineKeeps, NEW a \in Aggregates,
         NEW n \in DOMAIN loopEvents[a], NEW e, e = loopEvents[a][n]
  PROVE  /\ e.request \in DOMAIN requests' /\ IsEventOf(e, a, requests[e.request])'
         /\ requests[e.request].answer # "none"
<1>1. e.request \in DOMAIN requests /\ IsEventOf(e, a, requests[e.request])
  BY DEF AllInv, TruthInv, EventsAreTrue
<1>2. PICK r : r = requests[e.request]
  OBVIOUS
<1>3. r.answer # "none" /\ requests'[e.request] = r
  BY <1>1, <1>2 DEF IsEventOf, Successes, AnsweredStay
<1>4. IsEventOf(e, a, r)'
  BY <1>1, <1>2, SucceededStays DEF IsEventOf
<1> QED
  BY <1>1, <1>2, <1>3, <1>4 DEF AnsweredStay, IsEventOf, Succeeded

LEMMA SameEventsStayTrue ==
  ASSUME AllInv, AnsweredStay, EngineKeeps, UNCHANGED loopEvents
  PROVE  EventsAreTrue' /\ EventsAreOnce'
<1>1. ASSUME NEW a \in Aggregates, NEW n \in DOMAIN loopEvents'[a],
             NEW e, e = loopEvents'[a][n]
      PROVE  e.request \in DOMAIN requests' /\ IsEventOf(e, a, requests[e.request])'
  BY <1>1, EventsStayTrue
<1>2. EventsAreTrue'
  BY <1>1 DEF EventsAreTrue
<1> QED
  BY <1>2 DEF AllInv, TruthInv, EventsAreOnce

LEMMA SuccessesStayTold ==
  ASSUME AllInv, UNCHANGED loopEvents,
         \A i \in DOMAIN requests' : requests'[i].answer \in Successes =>
           i \in DOMAIN requests /\ requests'[i] = requests[i]
  PROVE  SuccessesAreTold'
BY DEF AllInv, TruthInv, SuccessesAreTold

(* The locals of a call that takes no step.                                *)
LEMMA CallStaysServed ==
  ASSUME NEW c \in Callers, NEW w, CallIsServed(c, w), rpc'[c] = rpc[c], Req(c)' = Req(c)
  PROVE  CallIsServed(c, w)'
BY DEF CallIsServed

-----------------------------------------------------------------------------
(* A request arrives.                                                      *)

LEMMA ArrivingIsTrue ==
  ASSUME AllInv, NEW c \in Callers, NEW k \in {"create", "engine", "update", "idle"},
         NEW r \in Request, Arrives(c, r, k), UNCHANGED <<engineVars, database>>,
         r.call = 0, k = "update" => r.op = "cancel",
         r.answer \notin Successes \cup {"rejected"}
  PROVE  TruthInv'
<1>0. RuntimeTypeOK /\ k \in Awaits \cup {"idle"} /\ rpc[c] = "idle"
  BY DEF AllInv, RuntimeInv, Awaits, Arrives
<1>1. PICK n : n = Len(requests) + 1
  OBVIOUS
<1>2. /\ DOMAIN requests' = DOMAIN requests \cup {n} /\ n \notin DOMAIN requests
      /\ rpc'[c] = k /\ requests'[n] = r /\ (k # "idle" => serving'[c] = n)
      /\ \A d \in Callers \ {c} : rpc'[d] = rpc[d] /\ serving'[d] = serving[d]
      /\ \A i \in DOMAIN requests : requests'[i] = requests[i]
      /\ rpc[c] = "idle"
  <2>1. /\ DOMAIN requests' = DOMAIN requests \cup {Len(requests) + 1}
        /\ Len(requests) + 1 \notin DOMAIN requests
        /\ rpc'[c] = k /\ requests'[Len(requests) + 1] = r
        /\ k # "idle" => serving'[c] = Len(requests) + 1
        /\ \A d \in Callers \ {c} : rpc'[d] = rpc[d] /\ serving'[d] = serving[d]
        /\ \A i \in DOMAIN requests : requests'[i] = requests[i]
    BY <1>0, ArrivesRequests
  <2> QED
    BY <1>0, <1>1, <2>1
<1>3. /\ UNCHANGED <<pc, call, loopEvents>> /\ UNCHANGED vars /\ TypeOK
      /\ requests \in Seq(Request)
  BY DEF engineVars, vars, database, AllInv, AnswersInv, LiveInv, TypeInv,
         RuntimeInv, RuntimeTypeOK
<1>4. EngineKeeps
  BY <1>3, IdleEngineKeeps
<1>5. AnsweredStay
  BY <1>2 DEF AnsweredStay
<1>6. ASSUME NEW i \in DOMAIN requests'
      PROVE  RequestIsTrue(requests[i])'
  <2>1. CASE i = n
    BY <1>2, <2>1 DEF RequestIsTrue
  <2>2. CASE i # n
    <3>1. PICK q \in Request : q = requests[i]
      BY <1>2, <1>3, <2>2, ElementOfSeq
    <3>2. RequestIsTrue(q)'
      BY <1>2, <1>3, <1>4, <2>2, <3>1, RequestStaysTrue DEF AllInv, TruthInv, vars
    <3> QED
      BY <1>2, <2>2, <3>1, <3>2 DEF RequestIsTrue, Recorded, Succeeded
  <2> QED
    BY <2>1, <2>2
<1>7. ASSUME NEW d \in Callers, d # c, rpc[d] # "idle"
      PROVE  Req(d)' = Req(d) /\ rpc'[d] = rpc[d]
  BY <1>2, <1>7, ReqType DEF Req, AllInv, RuntimeInv
<1>8. ASSUME NEW d \in Callers, pc'[d] # "idle"
      PROVE  CallIsServed(d, call[d])'
  <2>1. PICK w : w = call[d] /\ w = call'[d]
    BY <1>3
  <2>2. CallIsServed(d, w) /\ d # c
    BY <1>2, <1>3, <1>8, <2>1 DEF AllInv, TruthInv, CallIsServed
  <2>3. CallIsServed(d, w)'
    BY <1>7, <2>2, CallStaysServed DEF CallIsServed
  <2> QED
    BY <2>1, <2>3 DEF CallIsServed
<1>9. ASSUME NEW d \in Callers, rpc'[d] \in {"update", "append"}
      PROVE  Succeeded(Req(d))'
  <2>1. CASE d = c
    BY <1>2, <1>9, <2>1 DEF Req, Succeeded
  <2>2. CASE d # c
    <3>1. PICK q : q = Req(d) /\ q = Req(d)'
      BY <1>2, <1>7, <1>9, <2>2
    <3>2. Succeeded(q)'
      BY <1>2, <1>4, <1>9, <2>2, <3>1, SucceededStays DEF AllInv, TruthInv
    <3> QED
      BY <3>1, <3>2 DEF Succeeded
  <2> QED
    BY <2>1, <2>2
<1>10. EventsAreTrue' /\ EventsAreOnce' /\ SuccessesAreTold'
  BY <1>2, <1>3, <1>4, <1>5, SameEventsStayTrue, SuccessesStayTold
<1>11. OneRequestPerCall'
  BY <1>2 DEF AllInv, TruthInv, OneRequestPerCall
<1> QED
  BY <1>6, <1>8, <1>9, <1>10, <1>11 DEF TruthInv

-----------------------------------------------------------------------------
(* A request goes on, or is answered, while the engine rests.              *)

LEMMA ServingIsTrue ==
  ASSUME AllInv, NEW c \in Callers, rpc[c] # "idle", pc[c] = "idle",
         NEW k \in Awaits \cup {"idle"}, NEW r \in Request, Serving(c, k, r),
         UNCHANGED engineVars,
         RequestIsTrue(r), r.call = Req(c).call, k \in {"update", "append"} => Succeeded(r),
         EventsAreTrue' /\ EventsAreOnce' /\ SuccessesAreTold'
  PROVE  TruthInv'
<1>0. RuntimeTypeOK /\ ServeApart
  BY DEF AllInv, RuntimeInv
<1>1. PICK j : j = serving[c]
  OBVIOUS
<1>2. /\ DOMAIN requests' = DOMAIN requests
      /\ rpc'[c] = k /\ requests'[j] = r /\ (k # "idle" => serving'[c] = j)
      /\ \A d \in Callers \ {c} :
           /\ rpc'[d] = rpc[d] /\ serving'[d] = serving[d]
           /\ rpc[d] # "idle" => serving[d] # j
      /\ \A i \in DOMAIN requests : i # j => requests'[i] = requests[i]
  BY <1>0, <1>1, ServingRequests
<1>3. /\ UNCHANGED <<pc, call>> /\ UNCHANGED vars /\ TypeOK
      /\ requests \in Seq(Request)
  BY DEF engineVars, vars, AllInv, AnswersInv, LiveInv, TypeInv, RuntimeInv, RuntimeTypeOK
<1>4. EngineKeeps
  BY <1>3, IdleEngineKeeps
<1>5. ASSUME NEW q \in Request, RequestIsTrue(q)
      PROVE  RequestIsTrue(q)'
  BY <1>3, <1>4, <1>5, RequestStaysTrue DEF vars
<1>6. ASSUME NEW i \in DOMAIN requests'
      PROVE  RequestIsTrue(requests[i])'
  <2>1. PICK q : q = requests'[i]
    OBVIOUS
  <2>2. q \in Request /\ RequestIsTrue(q)
    <3>1. CASE i = j
      BY <1>2, <2>1, <3>1
    <3>2. CASE i # j
      <4>1. q = requests[i] /\ i \in DOMAIN requests
        BY <1>2, <2>1, <3>2
      <4> QED
        BY <1>3, <4>1, ElementOfSeq DEF AllInv, TruthInv
    <3> QED
      BY <3>1, <3>2
  <2>3. RequestIsTrue(q)'
    BY <1>5, <2>2
  <2> QED
    BY <2>1, <2>3 DEF RequestIsTrue, Recorded, Succeeded
<1>7. ASSUME NEW d \in Callers, d # c, rpc[d] # "idle"
      PROVE  Req(d)' = Req(d) /\ rpc'[d] = rpc[d]
  BY <1>2, <1>7, ReqType DEF Req, AllInv, RuntimeInv
<1>8. ASSUME NEW d \in Callers, pc'[d] # "idle"
      PROVE  CallIsServed(d, call[d])'
  <2>1. PICK w : w = call[d] /\ w = call'[d]
    BY <1>3
  <2>2. CallIsServed(d, w) /\ d # c
    BY <1>3, <1>8, <2>1 DEF AllInv, TruthInv
  <2>3. CallIsServed(d, w)'
    BY <1>7, <2>2, CallStaysServed DEF CallIsServed
  <2> QED
    BY <2>1, <2>3 DEF CallIsServed
<1>9. ASSUME NEW d \in Callers, rpc'[d] \in {"update", "append"}
      PROVE  Succeeded(Req(d))'
  <2>1. PICK q : q = Req(d)'
    OBVIOUS
  <2>2. Succeeded(q)
    <3>1. CASE d = c
      BY <1>2, <1>9, <2>1, <3>1 DEF Req
    <3>2. CASE d # c
      BY <1>2, <1>7, <1>9, <2>1, <3>2 DEF AllInv, TruthInv
    <3> QED
      BY <3>1, <3>2
  <2>3. Succeeded(q)'
    BY <1>4, <2>2, SucceededStays
  <2> QED
    BY <2>1, <2>3 DEF Succeeded
<1>10. OneRequestPerCall'
  <2>1. \A i \in DOMAIN requests : requests'[i].call = requests[i].call
    BY <1>1, <1>2 DEF Req
  <2> QED
    BY <1>2, <2>1 DEF AllInv, TruthInv, OneRequestPerCall
<1> QED
  BY <1>6, <1>8, <1>9, <1>10 DEF TruthInv

(* The request a caller serves has no answer yet.                          *)
LEMMA ServedIsOpen ==
  ASSUME AllInv, NEW c \in Callers, rpc[c] # "idle", NEW q, q = Req(c)
  PROVE  /\ q.answer = "none" /\ q \in Request /\ RequestIsTrue(q)
         /\ serving[c] \in DOMAIN requests /\ requests[serving[c]] = q
         /\ rpc[c] # "engine" => pc[c] = "idle"
         /\ q.op = "provision" <=> rpc[c] \in {"create", "refetch"}
<1>1. AtAwait(rpc[c], q) /\ q \in Request /\ serving[c] \in DOMAIN requests
  BY ReqType DEF AllInv, RuntimeInv
<1>2. rpc[c] \in Awaits
  BY DEF AllInv, RuntimeInv, RuntimeTypeOK, Awaits
<1>3. RequestIsTrue(q) /\ requests[serving[c]] = q
  BY <1>1 DEF Req, AllInv, TruthInv
<1>4. rpc[c] # "engine" => pc[c] = "idle"
  BY DEF AllInv, TruthInv, CallIsServed
<1> QED
  BY <1>1, <1>2, <1>3, <1>4 DEF AtAwait, Awaits

(* Only the served request changes, so what was answered stays.            *)
LEMMA ServingKeepsAnswered ==
  ASSUME AllInv, NEW c \in Callers, rpc[c] # "idle",
         NEW k \in Awaits \cup {"idle"}, NEW r \in Request, Serving(c, k, r)
  PROVE  /\ AnsweredStay /\ DOMAIN requests' = DOMAIN requests
         /\ requests'[serving[c]] = r
         /\ \A i \in DOMAIN requests : i # serving[c] => requests'[i] = requests[i]
<1>0. RuntimeTypeOK /\ ServeApart
  BY DEF AllInv, RuntimeInv
<1>1. /\ DOMAIN requests' = DOMAIN requests
      /\ requests'[serving[c]] = r
      /\ \A i \in DOMAIN requests : i # serving[c] => requests'[i] = requests[i]
  BY <1>0, ServingRequests
<1>2. requests[serving[c]].answer = "none"
  BY ServedIsOpen
<1> QED
  BY <1>1, <1>2 DEF AnsweredStay

(* No event is written.                                                    *)
LEMMA ServingWithoutEvent ==
  ASSUME AllInv, NEW c \in Callers, rpc[c] # "idle", pc[c] = "idle",
         NEW k \in Awaits \cup {"idle"}, NEW r \in Request, Serving(c, k, r),
         UNCHANGED <<engineVars, loopEvents>>,
         RequestIsTrue(r), r.call = Req(c).call, k \in {"update", "append"} => Succeeded(r),
         r.answer \notin Successes
  PROVE  TruthInv'
<1>1. /\ AnsweredStay /\ DOMAIN requests' = DOMAIN requests
      /\ requests'[serving[c]] = r
      /\ \A i \in DOMAIN requests : i # serving[c] => requests'[i] = requests[i]
  BY ServingKeepsAnswered
<1>2. EngineKeeps
  BY IdleEngineKeeps DEF engineVars, AllInv, AnswersInv, LiveInv, TypeInv
<1>3. EventsAreTrue' /\ EventsAreOnce'
  BY <1>1, <1>2, SameEventsStayTrue
<1>4. SuccessesAreTold'
  BY <1>1, SuccessesStayTold
<1> QED
  BY <1>3, <1>4, ServingIsTrue

(* An answer of no success, and the next await.                            *)
LEMMA AnsweringIsTrue ==
  ASSUME AllInv, NEW c \in Callers, rpc[c] # "idle", pc[c] = "idle",
         NEW x \in {"created", "error", "rejected"}, Answer(c, x),
         x = "rejected" => Req(c).call # 0 /\ outcome[Req(c).call] \in Refusals,
         UNCHANGED <<engineVars, loopEvents>>
  PROVE  TruthInv'
<1>1. PICK q : q = Req(c)
  OBVIOUS
<1>2. q \in Request /\ RequestIsTrue(q)
  BY <1>1, ServedIsOpen
<1>3. PICK r : r = [q EXCEPT !.answer = x]
  OBVIOUS
<1>4. /\ r.call = q.call /\ r.op = q.op /\ r.agg = q.agg /\ r.tid = q.tid /\ r.to = q.to
      /\ r.answer = x
  BY <1>2, <1>3 DEF Request
<1>5. Serving(c, "idle", r) /\ r \in Request
  BY <1>1, <1>3, AnswerServes DEF Answers, AllInv, RuntimeInv
<1>6. RequestIsTrue(r)
  BY <1>1, <1>2, <1>4 DEF RequestIsTrue, Recorded, Successes
<1> QED
  BY <1>1, <1>4, <1>5, <1>6, ServingWithoutEvent DEF Successes

LEMMA GoingOnIsTrue ==
  ASSUME AllInv, NEW c \in Callers, rpc[c] # "idle", pc[c] = "idle",
         NEW k \in Awaits, GoesTo(c, k), k \in {"update", "append"} => Succeeded(Req(c)),
         UNCHANGED <<engineVars, loopEvents>>
  PROVE  TruthInv'
<1>1. Req(c) \in Request /\ Req(c).answer = "none" /\ RequestIsTrue(Req(c))
  BY ServedIsOpen
<1>2. Serving(c, k, Req(c))
  BY GoesToServes DEF AllInv, RuntimeInv
<1> QED
  BY <1>1, <1>2, ServingWithoutEvent DEF Successes

(* The event is written; whether or not the client hears of it.            *)
LEMMA AppendingIsTrue ==
  ASSUME AllInv, NEW c \in Callers, Appended(c),
         NEW x \in {Success(Req(c).op), "error"}, Answer(c, x), UNCHANGED engineVars
  PROVE  TruthInv'
<1>1. PICK q : q = Req(c)
  OBVIOUS
<1>2. PICK j : j = serving[c]
  OBVIOUS
<1>3. PICK b : b = q.agg
  OBVIOUS
<1>4. PICK e : e = EventOf(j)
  OBVIOUS
<1>5. PICK r : r = [q EXCEPT !.answer = x]
  OBVIOUS
<1>6. /\ rpc[c] = "append" /\ pc[c] = "idle" /\ q \in Request /\ RequestIsTrue(q)
      /\ j \in DOMAIN requests /\ requests[j] = q /\ q.answer = "none"
      /\ q.op \in {"start", "transition", "cancel"} /\ b \in Aggregates
  BY <1>1, <1>2, <1>3, ServedIsOpen DEF Appended, Request
<1>7. Succeeded(q)
  BY <1>1, <1>6 DEF AllInv, TruthInv
<1>8. x \in Successes \cup {"error"} /\ x \in Answers /\ (x = Success(q.op) \/ x = "error")
  BY <1>1, <1>6 DEF Success, Successes, Answers
<1>9. /\ r.call = q.call /\ r.op = q.op /\ r.agg = q.agg /\ r.tid = q.tid /\ r.to = q.to
      /\ r.answer = x
  BY <1>5, <1>6 DEF Request
<1>10. Serving(c, "idle", r) /\ r \in Request
  BY <1>1, <1>5, <1>6, <1>8, AnswerServes DEF AllInv, RuntimeInv
<1>11. /\ AnsweredStay /\ DOMAIN requests' = DOMAIN requests
       /\ requests'[j] = r
       /\ \A i \in DOMAIN requests : i # j => requests'[i] = requests[i]
  BY <1>2, <1>6, <1>10, ServingKeepsAnswered
<1>12. EngineKeeps
  BY IdleEngineKeeps DEF engineVars, AllInv, AnswersInv, LiveInv, TypeInv
<1>13. Succeeded(r) /\ Succeeded(r)'
  <2>1. Succeeded(r)
    BY <1>7, <1>9 DEF Succeeded
  <2> QED
    BY <1>12, <2>1, SucceededStays
<1>14. RequestIsTrue(r)
  <2>1. Recorded(r) <=> Recorded(q)
    BY <1>9 DEF Recorded
  <2>2. x # "rejected" /\ x \notin {"already_started", "already_terminal", "not_found"}
    BY <1>8 DEF Successes
  <2>3. x \in Successes => x = Success(q.op)
    BY <1>8 DEF Successes
  <2> QED
    BY <1>6, <1>9, <1>13, <2>1, <2>2, <2>3 DEF RequestIsTrue
<1>15. e.request = j /\ e.type = EventType(q) /\ e.to = q.to /\ e \in LoopEvent
  <2>1. AtAwait("append", q)
    BY <1>1, <1>6 DEF AllInv, RuntimeInv
  <2>2. e \in LoopEvent
    BY <1>1, <1>2, <1>4, <1>6, <2>1, EventOfType DEF AllInv, RuntimeInv
  <2> QED
    BY <1>4, <1>6, <2>2 DEF EventOf
<1>16. IsEventOf(e, b, r)'
  <2>1. EventType(r) = EventType(q)
    BY <1>9 DEF EventType
  <2> QED
    BY <1>3, <1>6, <1>8, <1>9, <1>13, <1>15, <2>1 DEF IsEventOf
<1>17. PICK n : n = Len(loopEvents[b]) + 1
  OBVIOUS
<1>18. /\ DOMAIN loopEvents'[b] = DOMAIN loopEvents[b] \cup {n}
       /\ n \notin DOMAIN loopEvents[b]
       /\ loopEvents'[b][n] = e
       /\ \A i \in DOMAIN loopEvents[b] : loopEvents'[b][i] = loopEvents[b][i]
       /\ \A a \in Aggregates \ {b} : loopEvents'[a] = loopEvents[a]
  <2>1. /\ loopEvents \in [Aggregates -> Seq(LoopEvent)]
        /\ loopEvents' = [loopEvents EXCEPT ![b] = Append(@, e)]
    BY <1>1, <1>2, <1>3, <1>4 DEF Appended, AllInv, RuntimeInv, RuntimeTypeOK
  <2> QED
    BY <1>6, <1>15, <1>17, <2>1, Appended1
<1>19. ASSUME NEW a \in Aggregates, NEW m \in DOMAIN loopEvents[a],
              NEW f, f = loopEvents[a][m]
       PROVE  /\ f.request \in DOMAIN requests' /\ IsEventOf(f, a, requests[f.request])'
              /\ f.request # j
  BY <1>6, <1>11, <1>12, <1>19, EventsStayTrue
<1>20. EventsAreTrue'
  <2>1. ASSUME NEW a \in Aggregates, NEW m \in DOMAIN loopEvents'[a],
               NEW f, f = loopEvents'[a][m]
        PROVE  f.request \in DOMAIN requests' /\ IsEventOf(f, a, requests[f.request])'
    <3>1. CASE a = b /\ m = n
      <4>1. f = e /\ requests'[f.request] = r /\ f.request \in DOMAIN requests'
        BY <1>6, <1>11, <1>15, <1>18, <2>1, <3>1
      <4> QED
        BY <1>16, <3>1, <4>1 DEF IsEventOf, Succeeded
    <3>2. CASE ~ (a = b /\ m = n)
      <4>1. m \in DOMAIN loopEvents[a] /\ f = loopEvents[a][m]
        BY <1>18, <2>1, <3>2
      <4> QED
        BY <1>19, <4>1
    <3> QED
      BY <3>1, <3>2
  <2> QED
    BY <2>1 DEF EventsAreTrue
<1>21. EventsAreOnce'
  <2>1. ASSUME NEW a \in Aggregates, NEW m \in DOMAIN loopEvents'[a],
               NEW l \in DOMAIN loopEvents'[a],
               loopEvents'[a][m].request = loopEvents'[a][l].request
        PROVE  m = l
    <3>1. CASE a = b /\ (m = n \/ l = n)
      BY <1>15, <1>18, <1>19, <2>1, <3>1
    <3>2. CASE ~ (a = b /\ (m = n \/ l = n))
      BY <1>18, <2>1, <3>2 DEF AllInv, TruthInv, EventsAreOnce
    <3> QED
      BY <3>1, <3>2
  <2> QED
    BY <2>1 DEF EventsAreOnce
<1>22. SuccessesAreTold'
  <2>1. ASSUME NEW i \in DOMAIN requests', requests'[i].answer \in Successes
        PROVE  \E m \in DOMAIN loopEvents'[requests'[i].agg] :
                 loopEvents'[requests'[i].agg][m].request = i
    <3>1. CASE i = j
      BY <1>3, <1>9, <1>11, <1>15, <1>18, <3>1
    <3>2. CASE i # j
      <4>1. PICK p : p = requests[i]
        OBVIOUS
      <4>2. p \in Request /\ p.agg \in Aggregates /\ requests'[i] = p
        <5>1. requests \in Seq(Request) /\ i \in DOMAIN requests
          BY <1>11, <2>1 DEF AllInv, RuntimeInv, RuntimeTypeOK
        <5>2. p \in Request
          BY <4>1, <5>1, ElementOfSeq
        <5> QED
          BY <1>11, <3>2, <4>1, <5>1, <5>2 DEF Request
      <4>3. PICK m \in DOMAIN loopEvents[p.agg] : loopEvents[p.agg][m].request = i
        BY <1>11, <2>1, <4>1, <4>2 DEF AllInv, TruthInv, SuccessesAreTold
      <4> QED
        BY <1>18, <4>2, <4>3
    <3> QED
      BY <3>1, <3>2
  <2> QED
    BY <2>1 DEF SuccessesAreTold
<1> QED
  BY <1>1, <1>6, <1>9, <1>10, <1>14, <1>20, <1>21, <1>22, ServingIsTrue

-----------------------------------------------------------------------------
(* The actions of a request between its engine calls.                      *)

LEMMA RefetchIsTrue ==
  ASSUME AllInv, NEW c \in Callers, Refetch(c)
  PROVE  TruthInv'
<1>1. PICK q : q = Req(c)
  OBVIOUS
<1>2. PICK j : j = serving[c]
  OBVIOUS
<1>3. PICK a \in Holders(q.key) :
        requests' = [requests EXCEPT ![j].agg = a, ![j].answer = "idempotent_replay"]
  BY <1>1, <1>2 DEF Refetch
<1>4. /\ rpc[c] = "refetch" /\ pc[c] = "idle" /\ q \in Request /\ RequestIsTrue(q)
      /\ j \in DOMAIN requests /\ requests[j] = q /\ q.op = "provision"
  BY <1>1, <1>2, ServedIsOpen DEF Refetch
<1>5. PICK r : r = [q EXCEPT !.agg = a, !.answer = "idempotent_replay"]
  OBVIOUS
<1>6. /\ r \in Request /\ r.call = q.call /\ r.answer = "idempotent_replay"
  BY <1>4, <1>5 DEF Request, Answers, Holders
<1>7. Serving(c, "idle", r)
  BY <1>2, <1>3, <1>4, <1>5 DEF Serving, Refetch, Req, AllInv, RuntimeInv, RuntimeTypeOK
<1>8. q.call = 0
  BY <1>4 DEF RequestIsTrue
<1>9. RequestIsTrue(r)
  BY <1>6, <1>8 DEF RequestIsTrue, Successes
<1> QED
  BY <1>1, <1>4, <1>6, <1>7, <1>9, ServingWithoutEvent DEF Refetch, Successes, database

LEMMA EngineReturnsIsTrue ==
  ASSUME AllInv, NEW c \in Callers, EngineReturns(c)
  PROVE  TruthInv'
<1>1. PICK q : q = Req(c)
  OBVIOUS
<1>2. /\ rpc[c] = "engine" /\ pc[c] = "idle" /\ q.call # 0 /\ q \in Request
      /\ RequestIsTrue(q) /\ UNCHANGED <<engineVars, loopEvents>>
  BY <1>1, ServedIsOpen DEF EngineReturns, database
<1>3. CASE Answer(c, "error")
  BY <1>2, <1>3, AnsweringIsTrue
<1>4. CASE outcome[q.call] \in Refusals /\ Answer(c, "rejected")
  BY <1>1, <1>2, <1>4, AnsweringIsTrue
<1>5. CASE outcome[q.call] \in {"started", "executed"} /\ GoesTo(c, "update")
  <2>1. q.call \in CallIds
    BY <1>2, DefinitionsAssumption
       DEF RequestIsTrue, CallIds, Request, AllInv, AnswersInv, LiveInv, TypeInv, TypeOK
  <2>2. Succeeded(q)
    BY <1>2, <1>5, <2>1 DEF RequestIsTrue, Succeeded
  <2> QED
    BY <1>1, <1>2, <1>5, <2>2, GoingOnIsTrue DEF Awaits
<1> QED
  BY <1>1, <1>3, <1>4, <1>5 DEF EngineReturns, EngineResult

LEMMA WritesAreTrue ==
  ASSUME AllInv, NEW c \in Callers,
         Create(c) \/ KeyIsTaken(c) \/ Update(c) \/ AppendEvent(c)
  PROVE  TruthInv'
<1>1. CASE Create(c)
  <2>1. rpc[c] = "create" /\ UNCHANGED <<engineVars, loopEvents>> /\ Answer(c, "created")
    BY <1>1 DEF Create, Inserted
  <2> QED
    BY <2>1, ServedIsOpen, AnsweringIsTrue
<1>2. CASE KeyIsTaken(c)
  <2>1. rpc[c] = "create" /\ UNCHANGED <<engineVars, loopEvents>> /\ GoesTo(c, "refetch")
    BY <1>2 DEF KeyIsTaken, database
  <2> QED
    BY <2>1, ServedIsOpen, GoingOnIsTrue DEF Awaits
<1>3. CASE Update(c)
  <2>1. rpc[c] = "update" /\ UNCHANGED <<engineVars, loopEvents>> /\ GoesTo(c, "append")
    BY <1>3 DEF Update, Updated
  <2>2. Succeeded(Req(c))
    BY <2>1 DEF AllInv, TruthInv
  <2> QED
    BY <2>1, <2>2, ServedIsOpen, GoingOnIsTrue DEF Awaits
<1>4. CASE AppendEvent(c)
  BY <1>4, AppendingIsTrue DEF AppendEvent
<1> QED
  BY <1>1, <1>2, <1>3, <1>4

LEMMA FailuresAreTrue ==
  ASSUME AllInv, NEW c \in Callers, RequestFails(c) \/ Unconfirmed(c)
  PROVE  TruthInv'
<1>1. CASE RequestFails(c)
  <2>1. /\ rpc[c] # "idle" /\ rpc[c] # "engine" /\ UNCHANGED <<engineVars, loopEvents>>
        /\ Answer(c, "error")
    BY <1>1 DEF RequestFails, database
  <2> QED
    BY <2>1, ServedIsOpen, AnsweringIsTrue
<1>2. CASE (Inserted(c) \/ Updated(c)) /\ Answer(c, "error") /\ UNCHANGED engineVars
  <2>1. rpc[c] # "idle" /\ rpc[c] # "engine" /\ UNCHANGED <<engineVars, loopEvents>>
    BY <1>2 DEF Inserted, Updated
  <2> QED
    BY <1>2, <2>1, ServedIsOpen, AnsweringIsTrue
<1>3. CASE Appended(c) /\ Answer(c, "error") /\ UNCHANGED engineVars
  BY <1>3, AppendingIsTrue
<1> QED
  BY <1>1, <1>2, <1>3 DEF Unconfirmed

LEMMA NewRequestCall ==
  ASSUME NEW op, NEW a
  PROVE  NewRequest(op, a).call = 0
BY DEF NewRequest

LEMMA ProvisionLooksUpIsTrue ==
  ASSUME AllInv, NEW c \in Callers, NEW a \in Aggregates,
         NEW l \in DOMAIN Definitions, NEW k \in Keys \cup {NoKey},
         ProvisionLooksUp(c, a, l, k)
  PROVE  TruthInv'
<1>1. PICK q : q = NewRequest("provision", a)
  OBVIOUS
<1>2. PICK r : r = [q EXCEPT !.loop = l, !.key = k]
  OBVIOUS
<1>3. PICK s : s = [r EXCEPT !.answer = "idempotent_replay"]
  OBVIOUS
<1>4. q \in Request /\ q.call = 0 /\ q.answer = "none"
  BY <1>1, NewRequestType, NewRequestCall DEF AllInv, RuntimeInv
<1>5. r \in Request /\ r.call = 0 /\ r.answer = "none"
  BY <1>2, <1>4 DEF Request
<1>6. s \in Request /\ s.call = 0 /\ s.answer = "idempotent_replay"
  BY <1>3, <1>5 DEF Request, Answers
<1>7. UNCHANGED <<engineVars, database>>
  BY DEF ProvisionLooksUp
<1>8. CASE Arrives(c, s, "idle")
  BY <1>6, <1>7, <1>8, ArrivingIsTrue DEF Successes
<1>9. CASE Arrives(c, r, "create")
  BY <1>5, <1>7, <1>9, ArrivingIsTrue DEF Successes
<1> QED
  BY <1>1, <1>2, <1>3, <1>8, <1>9 DEF ProvisionLooksUp, AnsweredAtOnce

LEMMA FindRowIsTrue ==
  ASSUME AllInv, NEW c \in Callers, NEW a \in Aggregates, NEW r \in Request,
         r.answer = "none", r.call = 0, FindRow(c, a, r)
  PROVE  TruthInv'
<1>1. UNCHANGED <<engineVars, database>>
  BY DEF FindRow
<1>2. ASSUME NEW x \in {"not_found", "already_started", "already_terminal"},
             AnsweredAtOnce(c, r, x)
      PROVE  TruthInv'
  <2>1. PICK s : s = [r EXCEPT !.answer = x]
    OBVIOUS
  <2>2. s \in Request /\ s.call = 0 /\ s.answer = x
    BY <2>1 DEF Request, Answers
  <2>3. Arrives(c, s, "idle")
    BY <1>2, <2>1 DEF AnsweredAtOnce
  <2> QED
    BY <1>1, <2>2, <2>3, ArrivingIsTrue DEF Successes
<1>3. CASE Arrives(c, r, "engine")
  BY <1>1, <1>3, ArrivingIsTrue DEF Successes
<1>4. CASE r.op = "cancel" /\ Arrives(c, r, "update")
  BY <1>1, <1>4, ArrivingIsTrue DEF Successes
<1> QED
  BY <1>2, <1>3, <1>4 DEF FindRow

-----------------------------------------------------------------------------
(* The engine goes on with a call of the runtime.                          *)

(* The record a call of the request r leaves is the one r asked for.       *)
LEMMA ExecutedIsRecorded ==
  ASSUME NEW w \in Call, CallIsHonest("emit", w), w.result = "executed",
         w.op = "transition", NEW r, r.call = w.id, r.agg = w.agg,
         r.to = w.write.state, r.tid = w.tr.id
  PROVE  Recorded(r)
<1>1. PICK i \in Positions(w.agg) : history[w.agg][i] = RecordOf(w)
  BY DEF CallIsHonest
<1>2. RecordOf(w).call = w.id /\ RecordOf(w).tid = w.tr.id /\ RecordOf(w).to = w.tr.to
  BY DEF RecordOf
<1>3. w.write.state = w.tr.to
  BY DEF CallIsHonest
<1> QED
  BY <1>1, <1>2, <1>3 DEF Recorded, Positions

(* The engine goes on with the call of caller c's request.                 *)
LEMMA ContinueIsTrue ==
  ASSUME AllInv, NEW c \in Callers, UNCHANGED runtimeVars,
         \/ EvaluateGuards(c) \/ CommitEvidence(c) \/ SaveInstance(c)
         \/ SaveRecord(c) \/ Deliver(c) \/ LoseEvent(c) \/ Abort(c)
  PROVE  TruthInv'
<1>1. PICK w : w = call[c]
  OBVIOUS
<1>2. /\ HistoryGrows /\ calls' = calls
      /\ outcome'[w.id] \in Leaving(w)
      /\ \A id \in CallIds \ {w.id} : outcome'[id] = outcome[id]
      /\ pc'[c] # "idle" => Resulting(call'[c], w)
      /\ Others(c) /\ pc[c] # "idle"
      /\ pc'[c] # "idle" => SameCall(call'[c], w)
  BY <1>1, ContinueResults, ContinueKeepsCall DEF AllInv, AnswersInv, LiveInv
<1>3. /\ w \in Call /\ w.id \in CallIds /\ outcome[w.id] = "none" /\ calls \in Nat
      /\ CallIsHonest(pc[c], w) /\ TypeOK
  BY <1>1, <1>2, CallFields DEF CallIsHonest, AllInv
<1>4. EngineKeeps
  BY <1>2, <1>3 DEF EngineKeeps
<1>5. PICK q : q = Req(c)
  OBVIOUS
<1>6. CallIsServed(c, w) /\ rpc[c] = "engine"
  BY <1>1, <1>2 DEF AllInv, TruthInv, CallIsServed
<1>7. /\ q \in Request /\ RequestIsTrue(q) /\ serving[c] \in DOMAIN requests
      /\ requests[serving[c]] = q /\ q.answer = "none"
  BY <1>5, <1>6, ServedIsOpen
<1>8. /\ w.id = q.call /\ w.agg = q.agg /\ w.op = q.op /\ w.write.state = q.to
      /\ w.op = "transition" => w.tr.id = q.tid
      /\ q.call # 0 /\ q.op \in {"start", "transition"}
      /\ w.result \in Refusals \cup {"none", IF w.op = "start" THEN "started" ELSE "executed"}
  BY <1>3, <1>5, <1>6, <1>7 DEF CallIsServed, RequestIsTrue, CallIds
<1>9. /\ requests' = requests /\ rpc' = rpc /\ serving' = serving /\ loopEvents' = loopEvents
      /\ requests \in Seq(Request)
  BY DEF runtimeVars, database, AllInv, RuntimeInv, RuntimeTypeOK
<1>10. ASSUME NEW i \in DOMAIN requests
       PROVE  RequestIsTrue(requests[i])'
  <2>1. PICK r \in Request : r = requests[i]
    BY <1>9, ElementOfSeq
  <2>2. RequestIsTrue(r)
    BY <2>1 DEF AllInv, TruthInv
  <2>3. RequestIsTrue(r)'
    <3>1. CASE r.call # w.id
      <4>1. r.call # 0 => r.call \in CallIds
        BY <1>3, <2>2, DefinitionsAssumption DEF RequestIsTrue, CallIds, TypeOK, Request
      <4> QED
        BY <1>2, <1>3, <1>4, <2>2, <3>1, <4>1, RequestStaysTrue
    <3>2. CASE r.call = w.id
      <4>1. r = q
        BY <1>7, <1>8, <2>1, <3>2 DEF AllInv, TruthInv, OneRequestPerCall
      <4>2. CASE outcome'[w.id] \in {"none", "threw"} \cup Refusals
        BY <1>3, <1>4, <2>2, <3>2, <4>2, RequestStaysTrue
      <4>3. CASE outcome'[w.id] = w.result /\ w.result = "started"
        BY <1>2, <1>3, <1>7, <1>8, <4>1, <4>3 DEF RequestIsTrue, Successes, Refusals
      <4>4. CASE outcome'[w.id] = w.result /\ w.result = "executed"
        <5>1. w.op = "transition" /\ CallIsHonest("emit", w)
          BY <1>3, <1>8, <4>4 DEF Refusals, CallIsHonest
        <5>2. Recorded(q)
          BY <1>3, <1>8, <4>4, <5>1, ExecutedIsRecorded
        <5>3. q.agg \in Aggregates
          BY <1>7 DEF Request
        <5>4. Recorded(q)'
          BY <1>2, <5>2, <5>3 DEF Recorded, HistoryGrows, Positions
        <5> QED
          BY <1>2, <1>3, <1>7, <1>8, <4>1, <4>4, <5>1, <5>4
             DEF RequestIsTrue, Successes, Refusals
      <4> QED
        BY <1>2, <1>8, <4>2, <4>3, <4>4 DEF Leaving
    <3> QED
      BY <3>1, <3>2
  <2> QED
    BY <1>9, <2>1, <2>3 DEF RequestIsTrue, Recorded, Succeeded
<1>11. \A d \in Callers : Req(d)' = Req(d) /\ rpc'[d] = rpc[d]
  BY <1>9 DEF Req
<1>12. ASSUME NEW d \in Callers, pc'[d] # "idle"
       PROVE  CallIsServed(d, call[d])'
  <2>1. PICK v : v = call'[d]
    OBVIOUS
  <2>2. CallIsServed(d, v)
    <3>1. CASE d = c
      <4>1. SameCall(v, w) /\ Resulting(v, w)
        BY <1>2, <1>12, <2>1, <3>1
      <4>2. Intended(w.op) = IF w.op = "start" THEN "started" ELSE "executed"
        BY <1>8 DEF Intended, Announced
      <4>3. v.result \in Refusals \cup
              {"none", IF w.op = "start" THEN "started" ELSE "executed"}
        BY <1>8, <4>1, <4>2 DEF Resulting, Refusals
      <4> QED
        BY <1>6, <3>1, <4>1, <4>3 DEF CallIsServed, SameCall
    <3>2. CASE d # c
      BY <1>2, <1>12, <2>1, <3>2 DEF Others, AllInv, TruthInv
    <3> QED
      BY <3>1, <3>2
  <2>3. CallIsServed(d, v)'
    BY <1>11, <2>2, CallStaysServed
  <2> QED
    BY <2>1, <2>3 DEF CallIsServed
<1>13. ASSUME NEW d \in Callers, rpc'[d] \in {"update", "append"}
       PROVE  Succeeded(Req(d))'
  <2>1. PICK r : r = Req(d) /\ r = Req(d)'
    BY <1>11
  <2>2. Succeeded(r)'
    BY <1>4, <1>11, <1>13, <2>1, SucceededStays DEF AllInv, TruthInv
  <2> QED
    BY <2>1, <2>2 DEF Succeeded
<1>14. AnsweredStay /\ OneRequestPerCall'
  BY <1>9 DEF AnsweredStay, AllInv, TruthInv, OneRequestPerCall
<1>15. EventsAreTrue' /\ EventsAreOnce' /\ SuccessesAreTold'
  BY <1>4, <1>9, <1>14, SameEventsStayTrue, SuccessesStayTold
<1> QED
  BY <1>9, <1>10, <1>12, <1>13, <1>14, <1>15 DEF TruthInv

-----------------------------------------------------------------------------
(* The engine is called.                                                   *)

LEMMA CallsEngineResults ==
  ASSUME AllInv, NEW c \in Callers, CallsEngine(c), NEW q, q = Req(c)
  PROVE  /\ calls' = calls + 1 /\ calls < MaxCalls /\ UNCHANGED history /\ Others(c)
         /\ \A id \in CallIds : id # calls + 1 => outcome'[id] = outcome[id]
         /\ outcome'[calls + 1] \in {"none", "threw"} \cup Refusals
         /\ pc'[c] # "idle" =>
              /\ call'[c].id = calls + 1 /\ call'[c].agg = q.agg /\ call'[c].op = q.op
              /\ call'[c].result = "none"
              /\ q.op = "transition" => call'[c].tr.id = q.tid
<1>1. /\ rpc[c] = "engine" /\ q.agg \in Aggregates /\ TypeInv /\ TypeOK
      /\ outcome \in [CallIds -> Outcomes] /\ AnswersInv
  <2>1. rpc[c] = "engine"
    BY DEF CallsEngine
  <2> QED
    BY <2>1, EngineMayBeCalled DEF AllInv, AnswersInv, LiveInv, TypeInv, TypeOK
<1>2. Begin(c, q.agg)
  BY DEF CallsEngine, StartCall, TransitionRefused, TransitionRequested
<1>3. calls' = calls + 1 /\ calls < MaxCalls /\ calls \in Nat /\ pc[c] = "idle"
      /\ calls + 1 \in CallIds
  BY <1>1, <1>2, DefinitionsAssumption DEF Begin, TypeOK, CallIds
<1>4. outcome[calls + 1] = "none"
  BY <1>1, <1>3 DEF AnswersInv, Undrawn
<1>5. ASSUME NEW x \in {"threw"} \cup Refusals, ReturnsAtOnce(c, x)
      PROVE  /\ UNCHANGED history /\ Others(c) /\ pc'[c] = "idle"
             /\ \A id \in CallIds : id # calls + 1 => outcome'[id] = outcome[id]
             /\ outcome'[calls + 1] \in {"none", "threw"} \cup Refusals
  BY <1>1, <1>3, <1>5 DEF ReturnsAtOnce, store, Others
<1>6. ASSUME NEW k, NEW w, Enters(c, k, w), UNCHANGED <<store, outcome>>
      PROVE  /\ UNCHANGED history /\ Others(c) /\ call'[c] = w
             /\ \A id \in CallIds : id # calls + 1 => outcome'[id] = outcome[id]
             /\ outcome'[calls + 1] \in {"none", "threw"} \cup Refusals
  BY <1>1, <1>4, <1>6, EntersOthers DEF store
<1>7. CASE q.op = "start" /\ StartCall(c, q.agg, q.read.loop)
  <2>1. CASE ReturnsAtOnce(c, "threw")
    BY <1>3, <1>5, <2>1
  <2>2. CASE /\ UNCHANGED <<store, outcome>>
             /\ Enters(c, "save", NewCall("start", q.agg,
                  Definitions[q.read.loop].initial, NewInstance(q.read.loop)))
    <3>1. PICK w : w = NewCall("start", q.agg, Definitions[q.read.loop].initial,
                               NewInstance(q.read.loop))
      OBVIOUS
    <3>2. w.id = calls + 1 /\ w.agg = q.agg /\ w.op = "start" /\ w.result = "none"
      BY <3>1 DEF NewCall
    <3>3. Enters(c, "save", w)
      BY <2>2, <3>1
    <3> QED
      BY <1>3, <1>6, <1>7, <2>2, <3>2, <3>3
  <2> QED
    BY <1>7, <2>1, <2>2 DEF StartCall
<1>8. ASSUME q.op = "transition", NEW actor \in ActorTypes,
             TransitionRefused(c, q.agg, q.tid, actor, FALSE)
      PROVE  \E x \in {"threw"} \cup Refusals : ReturnsAtOnce(c, x)
  BY <1>8 DEF TransitionRefused, Refusals
<1>9. ASSUME q.op = "transition", NEW actor \in ActorTypes,
             TransitionRequested(c, q.agg, q.tid, actor, FALSE)
      PROVE  \E w, k : /\ Enters(c, k, w) /\ UNCHANGED <<store, outcome>>
                       /\ w.id = calls + 1 /\ w.agg = q.agg /\ w.op = "transition"
                       /\ w.result = "none" /\ w.tr.id = q.tid
  <2>1. PICK inst : inst = instances[q.agg]
    OBVIOUS
  <2>2. inst # NoInstance /\ UNCHANGED <<store, outcome>>
    BY <1>9, <2>1 DEF TransitionRequested
  <2>3. PICK i \in DOMAIN Transitions(inst.loop) :
          /\ IsFirstMatch(inst.loop, i, q.tid, inst.state)
          /\ Enters(c, "emit", RequestedCall(q.agg, Transitions(inst.loop)[i], actor))
    BY <1>9, <2>1 DEF TransitionRequested
  <2>4. inst \in LoopInstance
    BY <1>1, <2>1, <2>2 DEF TypeOK
  <2>5. PICK tr \in TransitionSpecs : tr = Transitions(inst.loop)[i]
    BY <2>3, <2>4, TransitionType DEF LoopInstance
  <2>6. tr.id = q.tid
    BY <2>3, <2>5 DEF IsFirstMatch
  <2>7. PICK w : w = RequestedCall(q.agg, tr, actor)
    OBVIOUS
  <2>8. /\ w.id = calls + 1 /\ w.result = "none" /\ w.op = "transition" /\ w.agg = q.agg
    BY <1>1, <1>3, <2>1, <2>2, <2>7, RequestedCallFields
  <2>9. w.tr = tr
    <3>1. PICK n : n = NewCall("transition", q.agg, inst.state, Moved(inst, tr))
      OBVIOUS
    <3>2. n \in Call
      BY <1>1, <1>3, <2>4, <3>1, NewCallType, MovedType DEF Operations, LoopInstance
    <3>3. PICK o : o = <<Ev("requested", calls + 1, tr.to)>>
      OBVIOUS
    <3>4. w = [n EXCEPT !.tr = tr, !.actor = actor, !.after = "guards", !.outbox = o]
      BY <2>1, <2>7, <3>1, <3>3 DEF RequestedCall
    <3> QED
      BY <3>2, <3>4 DEF Call
  <2> QED
    BY <2>2, <2>3, <2>5, <2>6, <2>7, <2>8, <2>9
<1>10. CASE q.op = "transition" /\ \E x \in {"threw"} \cup Refusals : ReturnsAtOnce(c, x)
  BY <1>3, <1>5, <1>10
<1>11. CASE /\ q.op = "transition"
            /\ \E w, k : /\ Enters(c, k, w) /\ UNCHANGED <<store, outcome>>
                         /\ w.id = calls + 1 /\ w.agg = q.agg /\ w.op = "transition"
                         /\ w.result = "none" /\ w.tr.id = q.tid
  BY <1>3, <1>6, <1>11
<1> QED
  BY <1>7, <1>8, <1>9, <1>10, <1>11 DEF CallsEngine

LEMMA CallsEngineIsTrue ==
  ASSUME AllInv, TypeInv', NEW c \in Callers, CallsEngine(c)
  PROVE  TruthInv'
<1>1. PICK q : q = Req(c)
  OBVIOUS
<1>2. PICK j : j = serving[c]
  OBVIOUS
<1>3. /\ rpc[c] = "engine" /\ q \in Request /\ RequestIsTrue(q) /\ q.call = 0
      /\ j \in DOMAIN requests /\ requests[j] = q /\ q.answer = "none"
      /\ q.op \in {"start", "transition"}
  BY <1>1, <1>2, ServedIsOpen DEF CallsEngine
<1>4. /\ calls' = calls + 1 /\ calls < MaxCalls /\ UNCHANGED history /\ Others(c)
      /\ \A id \in CallIds : id # calls + 1 => outcome'[id] = outcome[id]
      /\ outcome'[calls + 1] \in {"none", "threw"} \cup Refusals
      /\ pc'[c] # "idle" =>
           /\ call'[c].id = calls + 1 /\ call'[c].agg = q.agg /\ call'[c].op = q.op
           /\ call'[c].result = "none"
           /\ q.op = "transition" => call'[c].tr.id = q.tid
  BY <1>1, CallsEngineResults
<1>5. calls \in Nat /\ TypeOK /\ pc[c] = "idle"
  <2>1. Begin(c, q.agg)
    BY <1>1 DEF CallsEngine, StartCall, TransitionRefused, TransitionRequested
  <2> QED
    BY <2>1 DEF Begin, TypeOK, AllInv, AnswersInv, LiveInv, TypeInv
<1>6. PICK to : to = IF pc'[c] = "idle" THEN q.to ELSE call'[c].write.state
  OBVIOUS
<1>7. to \in RowStates
  <2>1. pc'[c] # "idle" => call'[c].write \in LoopInstance
    BY DEF TypeInv, CallShape, Call
  <2> QED
    BY <1>3, <1>6, <2>1 DEF LoopInstance, RowStates, Request
<1>8. PICK r : r = [q EXCEPT !.call = calls + 1, !.to = to]
  OBVIOUS
<1>9. /\ r \in Request /\ r.call = calls + 1 /\ r.to = to /\ r.agg = q.agg
      /\ r.answer = "none" /\ r.op = q.op /\ r.tid = q.tid
  <2>1. PICK n : n = calls + 1
    OBVIOUS
  <2>2. n \in Nat
    BY <1>5, <2>1
  <2>3. r = [q EXCEPT !.call = n, !.to = to]
    BY <1>8, <2>1
  <2>4. /\ r \in Request /\ r.call = n /\ r.to = to /\ r.agg = q.agg
        /\ r.answer = q.answer /\ r.op = q.op /\ r.tid = q.tid
    BY <1>3, <1>7, <2>2, <2>3 DEF Request
  <2> QED
    BY <1>3, <2>1, <2>4
<1>10. Serving(c, "engine", r)
  BY <1>1, <1>2, <1>3, <1>6, <1>8
     DEF Serving, CallsEngine, Req, AllInv, RuntimeInv, RuntimeTypeOK
<1>0. RuntimeTypeOK /\ ServeApart /\ "engine" \in Awaits /\ rpc[c] # "idle"
  BY <1>3 DEF AllInv, RuntimeInv, Awaits
<1>11. /\ DOMAIN requests' = DOMAIN requests
       /\ rpc'[c] = "engine" /\ requests'[j] = r /\ serving'[c] = j
       /\ \A d \in Callers \ {c} :
            /\ rpc'[d] = rpc[d] /\ serving'[d] = serving[d]
            /\ rpc[d] # "idle" => serving[d] # j
       /\ \A i \in DOMAIN requests : i # j => requests'[i] = requests[i]
  BY <1>0, <1>2, <1>9, <1>10, ServingRequests
<1>12. EngineKeeps
  <2>1. outcome[calls + 1] = "none"
    BY <1>4, <1>5, DefinitionsAssumption DEF AllInv, AnswersInv, Undrawn, CallIds
  <2> QED
    BY <1>4, <1>5, <2>1, NoRecordMarks DEF EngineKeeps
<1>13. RequestIsTrue(r)'
  BY <1>3, <1>4, <1>5, <1>9 DEF RequestIsTrue, Refusals, Successes
<1>14. ASSUME NEW i \in DOMAIN requests, i # j, NEW s, s = requests[i]
       PROVE  s \in Request /\ RequestIsTrue(s) /\ s.call <= calls /\ RequestIsTrue(s)'
  <2>1. requests \in Seq(Request)
    BY DEF AllInv, RuntimeInv, RuntimeTypeOK
  <2>2. s \in Request /\ RequestIsTrue(s)
    BY <1>14, <2>1, ElementOfSeq DEF AllInv, TruthInv
  <2>3. s.call \in Nat /\ s.call <= calls
    BY <1>5, <2>2 DEF Request, RequestIsTrue
  <2>4. s.call # 0 => s.call \in CallIds /\ s.call # calls + 1
    BY <1>4, <1>5, <2>3, DefinitionsAssumption DEF CallIds
  <2> QED
    BY <1>4, <1>5, <1>12, <2>2, <2>3, <2>4, RequestStaysTrue
<1>15. ASSUME NEW i \in DOMAIN requests'
       PROVE  RequestIsTrue(requests[i])'
  <2>1. PICK s : s = requests'[i]
    OBVIOUS
  <2>2. RequestIsTrue(s)'
    BY <1>11, <1>13, <1>14, <2>1
  <2> QED
    BY <2>1, <2>2 DEF RequestIsTrue, Recorded, Succeeded
<1>16. OneRequestPerCall'
  <2>1. ASSUME NEW i \in DOMAIN requests', NEW k \in DOMAIN requests',
               requests'[i].call # 0, requests'[i].call = requests'[k].call
        PROVE  i = k
    <3>1. CASE i = j \/ k = j
      BY <1>5, <1>9, <1>11, <1>14, <2>1, <3>1
    <3>2. CASE i # j /\ k # j
      BY <1>11, <2>1, <3>2 DEF AllInv, TruthInv, OneRequestPerCall
    <3> QED
      BY <3>1, <3>2
  <2> QED
    BY <2>1 DEF OneRequestPerCall
<1>17. ASSUME NEW d \in Callers, d # c, rpc[d] # "idle"
       PROVE  Req(d)' = Req(d) /\ rpc'[d] = rpc[d]
  BY <1>11, <1>17, ReqType DEF Req, AllInv, RuntimeInv
<1>18. ASSUME NEW d \in Callers, pc'[d] # "idle"
       PROVE  CallIsServed(d, call[d])'
  <2>1. CASE d = c
    BY <1>4, <1>6, <1>9, <1>11, <1>18, <2>1 DEF CallIsServed, Req
  <2>2. CASE d # c
    <3>1. PICK w : w = call[d] /\ w = call'[d]
      BY <1>4, <2>2 DEF Others
    <3>2. CallIsServed(d, w)
      BY <1>4, <1>18, <2>2, <3>1 DEF Others, AllInv, TruthInv
    <3>3. CallIsServed(d, w)'
      BY <1>17, <2>2, <3>2, CallStaysServed DEF CallIsServed
    <3> QED
      BY <3>1, <3>3 DEF CallIsServed
  <2> QED
    BY <2>1, <2>2
<1>19. ASSUME NEW d \in Callers, rpc'[d] \in {"update", "append"}
       PROVE  Succeeded(Req(d))'
  <2>1. d # c
    BY <1>11, <1>19
  <2>2. PICK s : s = Req(d) /\ s = Req(d)'
    BY <1>11, <1>17, <1>19, <2>1
  <2>3. Succeeded(s)'
    BY <1>11, <1>12, <1>19, <2>1, <2>2, SucceededStays DEF AllInv, TruthInv
  <2> QED
    BY <2>2, <2>3 DEF Succeeded
<1>20. AnsweredStay /\ UNCHANGED loopEvents
  BY <1>3, <1>11 DEF AnsweredStay, CallsEngine, database
<1>21. EventsAreTrue' /\ EventsAreOnce'
  BY <1>12, <1>20, SameEventsStayTrue
<1>22. SuccessesAreTold'
  BY <1>9, <1>11, <1>20, SuccessesStayTold DEF Successes
<1> QED
  BY <1>15, <1>16, <1>18, <1>19, <1>21, <1>22 DEF TruthInv

-----------------------------------------------------------------------------
LEMMA InitIsTrue ==
  ASSUME RuntimeInit
  PROVE  TruthInv
<1>1. DOMAIN requests = {} /\ \A a \in Aggregates : DOMAIN loopEvents[a] = {}
  BY DEF RuntimeInit
<1>2. \A c \in Callers : pc[c] = "idle" /\ rpc[c] = "idle"
  BY DEF RuntimeInit, Init
<1> QED
  BY <1>1, <1>2 DEF TruthInv, OneRequestPerCall, EventsAreTrue, EventsAreOnce,
                    SuccessesAreTold

LEMMA StutterIsTrue ==
  ASSUME AllInv, UNCHANGED allVars
  PROVE  TruthInv'
<1>1. /\ requests' = requests /\ rpc' = rpc /\ serving' = serving
      /\ loopEvents' = loopEvents /\ pc' = pc /\ call' = call /\ calls' = calls
      /\ outcome' = outcome /\ history' = history
  BY DEF allVars, engineVars, vars, runtimeVars, database
<1> QED
  BY <1>1 DEF AllInv, TruthInv, OneRequestPerCall, EventsAreTrue, EventsAreOnce,
              SuccessesAreTold, RequestIsTrue, Succeeded, Recorded, CallIsServed,
              IsEventOf, Req

LEMMA RuntimeNextIsTrue ==
  ASSUME AllInv, TypeInv', [RuntimeNext]_allVars
  PROVE  TruthInv'
<1>1. ASSUME NEW c \in Callers, NEW a \in Aggregates, NEW op \in {"start", "cancel"},
             FindRow(c, a, NewRequest(op, a))
      PROVE  TruthInv'
  <2>1. /\ NewRequest(op, a) \in Request /\ NewRequest(op, a).call = 0
        /\ NewRequest(op, a).answer = "none"
    BY NewRequestType, NewRequestCall DEF AllInv, RuntimeInv
  <2> QED
    BY <1>1, <2>1, FindRowIsTrue
<1>2. ASSUME NEW c \in Callers, NEW a \in Aggregates, NEW t \in TransitionIds,
             FindRow(c, a, NewTransition(a, t))
      PROVE  TruthInv'
  <2>1. PICK q : q = NewRequest("transition", a)
    OBVIOUS
  <2>2. PICK r : r = [q EXCEPT !.tid = t]
    OBVIOUS
  <2>3. q \in Request /\ q.call = 0 /\ q.answer = "none"
    BY <2>1, NewRequestType, NewRequestCall DEF AllInv, RuntimeInv
  <2>4. r \in Request /\ r.call = 0 /\ r.answer = "none"
    BY <2>2, <2>3 DEF Request
  <2>5. FindRow(c, a, r)
    BY <1>2, <2>1, <2>2 DEF NewTransition
  <2> QED
    BY <2>4, <2>5, FindRowIsTrue
<1>3. ASSUME NEW c \in Callers, Serve(c)
      PROVE  TruthInv'
  <2>1. CASE EngineContinues(c)
    BY <2>1, ContinueIsTrue DEF EngineContinues, Continue
  <2> QED
    BY <1>3, <2>1, WritesAreTrue, RefetchIsTrue, CallsEngineIsTrue, EngineReturnsIsTrue
       DEF Serve
<1>4. ASSUME NEW c \in Callers, EngineFails(c)
      PROVE  TruthInv'
  BY <1>4, ContinueIsTrue DEF EngineFails
<1>5. CASE RuntimeNext
  <2>1. PICK c \in Callers :
          \/ \E a \in Aggregates, l \in DOMAIN Definitions, k \in Keys \cup {NoKey} :
               ProvisionLooksUp(c, a, l, k)
          \/ \E a \in Aggregates, op \in {"start", "cancel"} :
               FindRow(c, a, NewRequest(op, a))
          \/ \E a \in Aggregates, t \in TransitionIds : FindRow(c, a, NewTransition(a, t))
          \/ Serve(c)
          \/ EngineFails(c) \/ RequestFails(c) \/ Unconfirmed(c)
    BY <1>5 DEF RuntimeNext
  <2> QED
    BY <1>1, <1>2, <1>3, <1>4, <2>1, ProvisionLooksUpIsTrue, FailuresAreTrue
<1> QED
  BY <1>5, StutterIsTrue

LEMMA RuntimeTruth == RuntimeSpec => []AllInv
<1>1. RuntimeInit => AllInv
  BY RuntimeInitInv, InitIsHonest, InitIsTrue DEF RuntimeInit, AllInv
<1>2. ASSUME AllInv, [RuntimeNext]_allVars
      PROVE  AllInv'
  <2>1. TypeInv
    BY <1>2 DEF AllInv, AnswersInv, LiveInv
  <2>2. RuntimeInv' /\ TypeInv'
    BY <1>2, <2>1, RuntimeNextInv DEF AllInv
  <2>3. AnswersInv'
    BY <1>2, RuntimeStepIsEngineStep, NextIsHonest DEF AllInv
  <2>4. TruthInv'
    BY <1>2, <2>2, RuntimeNextIsTrue
  <2> QED
    BY <2>2, <2>3, <2>4 DEF AllInv
<1> QED
  BY <1>1, <1>2, PTL DEF RuntimeSpec

(* What a client was answered is true of three stores, however requests    *)
(* overlap and whatever fails: one event for a success, a record for an    *)
(* executed transition, and nothing anywhere for a refusal.                *)
THEOREM RuntimeAnswersAreTrue == RuntimeSpec => []AnswersAreTrue
BY TrueAnswersAreTrue, RuntimeTruth, PTL

(* No event of the runtime tells of what the engine did not do, also when  *)
(* requests race on one aggregate or fail after their engine call.         *)
THEOREM RuntimeEventsAreBacked == RuntimeSpec => []EventsAreBacked
BY TrueEventsAreBacked, RuntimeTruth, PTL

-----------------------------------------------------------------------------
(* The row of a run, its events and its instance go together, with clients *)
(* that wait and no fault: a third invariant, on top of the two above and  *)
(* of what LifecycleProofs says of the engine.                             *)

(* The events es of a run of loop l chain and end in state s.              *)
Chains(es, l, s) ==
  LET reached(m) == IF m = 0 THEN Definitions[l].initial ELSE es[m].to IN
    /\ \A m \in 1 .. Len(es) : es[m].from = reached(m - 1)
    /\ s = reached(Len(es))

Agrees(row, inst) ==
  /\ row.status = "CREATED" => inst = NoInstance
  /\ row.status \in {"active", "OPEN"} => inst # NoInstance /\ row.state = inst.state

RowStands(row, inst, es) ==
  /\ row = NoRow => inst = NoInstance /\ es = <<>>
  /\ row # NoRow => Chains(es, row.loop, row.state) /\ Agrees(row, inst)

(* The engine made the move that request r asked for.                      *)
HasMoved(r, inst) ==
  /\ inst # NoInstance /\ inst.state = r.to
  /\ r.op = "transition" => r.read.status # "CREATED"

(* What a request r at await k has made, so far, of the row it had read;   *)
(* `did` says whether its engine call has saved.                           *)
RequestStands(k, r, did, row, inst, es) ==
  /\ k \in {"create", "refetch"} => RowStands(row, inst, es)
  /\ k \in {"engine", "update", "append"} => Chains(es, r.read.loop, r.read.state)
  /\ k \in {"engine", "update"} => row = r.read
  /\ k = "engine" => IF did THEN HasMoved(r, inst) ELSE Agrees(r.read, inst)
  /\ k = "update" => r.op = "cancel" \/ HasMoved(r, inst)
  /\ k = "append" =>
       row.loop = r.read.loop /\ row.state = r.to /\ Agrees(row, inst)

Moves == {"started", "executed"}

(* The engine call in flight has saved its instance ...                    *)
HasSaved(c) == pc[c] = "record" \/ call[c].result \in Moves

(* ... and the same of the engine call of a request, returned or not.      *)
EngineDid(c) ==
  /\ Req(c).call # 0
  /\ IF pc[c] = "idle" THEN outcome[Req(c).call] \in Moves ELSE HasSaved(c)

RowsInv ==
  /\ \A a \in Aggregates :
       AtRest(a) => RowStands(rows[a], instances[a], loopEvents[a])
  /\ \A c \in Callers : rpc[c] # "idle" =>
       /\ Req(c).agg \in Serves[c]
       /\ RequestStands(rpc[c], Req(c), EngineDid(c), rows[Req(c).agg],
                        instances[Req(c).agg], loopEvents[Req(c).agg])

LEMMA RowsAreRight ==
  ASSUME RowsInv
  PROVE  EventsChain /\ RowFollowsEngine
<1>1. ASSUME NEW a \in Aggregates, rows[a] # NoRow, AtRest(a)
      PROVE  Chains(loopEvents[a], rows[a].loop, rows[a].state) /\ Agrees(rows[a], instances[a])
  BY <1>1 DEF RowsInv, RowStands
<1>2. EventsChain
  BY <1>1 DEF EventsChain, Chains
<1>3. RowFollowsEngine
  BY <1>1 DEF RowFollowsEngine, Agrees
<1> QED
  BY <1>2, <1>3

-----------------------------------------------------------------------------
(* What a step makes of the row, its instance and its events.              *)

LEMMA FoundStands ==
  ASSUME NEW r, NEW row, NEW inst, NEW es, row # NoRow, r.read = row,
         RowStands(row, inst, es)
  PROVE  /\ RequestStands("engine", r, FALSE, row, inst, es)
         /\ r.op = "cancel" => RequestStands("update", r, FALSE, row, inst, es)
BY DEF RowStands, RequestStands

LEMMA RefusedStands ==
  ASSUME NEW r, NEW row, NEW inst, NEW es, r.read # NoRow,
         RequestStands("engine", r, FALSE, row, inst, es)
  PROVE  RowStands(row, inst, es)
BY DEF RowStands, RequestStands

LEMMA MovedStands ==
  ASSUME NEW r, NEW row, NEW inst, NEW es, NEW next, NEW did,
         RequestStands("engine", r, did, row, inst, es), HasMoved(r, next)
  PROVE  /\ RequestStands("engine", r, TRUE, row, next, es)
         /\ RequestStands("update", r, TRUE, row, next, es)
BY DEF RequestStands

LEMMA UpdatedStands ==
  ASSUME NEW r, r.op \in {"start", "transition", "cancel"}, NEW row, NEW inst, NEW es,
         NEW did, NEW next, RequestStands("update", r, did, row, inst, es),
         next.loop = row.loop, next.state = r.to, next.status = ToStatus(r)
  PROVE  RequestStands("append", r, did, next, inst, es)
<1>1. row = r.read /\ Chains(es, r.read.loop, r.read.state)
      /\ (r.op = "cancel" \/ HasMoved(r, inst))
  BY DEF RequestStands
<1>2. CASE r.op = "cancel"
  <2>1. next.status = "TERMINAL"
    BY <1>2 DEF ToStatus
  <2> QED
    BY <1>1, <2>1 DEF RequestStands, Agrees
<1>3. CASE r.op = "start"
  <2>1. next.status = "active" /\ HasMoved(r, inst)
    BY <1>1, <1>3 DEF ToStatus
  <2> QED
    BY <1>1, <2>1 DEF RequestStands, Agrees, HasMoved
<1>4. CASE r.op = "transition"
  <2>1. next.status \in {r.read.status, "OPEN"} /\ HasMoved(r, inst)
    BY <1>1, <1>4 DEF ToStatus
  <2> QED
    BY <1>1, <1>4, <2>1 DEF RequestStands, Agrees, HasMoved
<1> QED
  BY <1>2, <1>3, <1>4

LEMMA AppendedStands ==
  ASSUME NEW r, NEW row, row # NoRow, NEW inst, NEW es \in Seq(LoopEvent), NEW did,
         RequestStands("append", r, did, row, inst, es),
         NEW e \in LoopEvent, e.from = r.read.state, e.to = r.to
  PROVE  RowStands(row, inst, Append(es, e))
<1>1. /\ Chains(es, r.read.loop, r.read.state) /\ Agrees(row, inst)
      /\ row.loop = r.read.loop /\ row.state = r.to
  BY DEF RequestStands
<1>2. PICK n \in Nat : n = Len(es)
  OBVIOUS
<1>3. PICK g : g = Append(es, e)
  OBVIOUS
<1>4. /\ Len(g) = n + 1 /\ g[n + 1] = e
      /\ \A i \in 1 .. n : g[i] = es[i]
  BY <1>2, <1>3, AppendProperties
<1>5. PICK l : l = row.loop
  OBVIOUS
<1>6. ASSUME NEW m \in 1 .. (n + 1)
      PROVE  g[m].from = IF m - 1 = 0 THEN Definitions[l].initial ELSE g[m - 1].to
  <2>1. CASE m = n + 1
    BY <1>1, <1>2, <1>4, <1>5, <2>1 DEF Chains
  <2>2. CASE m # n + 1
    <3>1. m \in 1 .. n /\ g[m] = es[m] /\ (m # 1 => g[m - 1] = es[m - 1])
      BY <1>4, <2>2
    <3> QED
      BY <1>1, <1>2, <1>5, <3>1 DEF Chains
  <2> QED
    BY <2>1, <2>2
<1>7. Chains(g, l, row.state)
  BY <1>1, <1>4, <1>6 DEF Chains
<1> QED
  BY <1>1, <1>3, <1>5, <1>7 DEF RowStands

LEMMA InsertedStands ==
  ASSUME NEW row, row # NoRow, row.status = "CREATED",
         row.state = Definitions[row.loop].initial, NEW inst, NEW es,
         RowStands(NoRow, inst, es)
  PROVE  RowStands(row, inst, es)
BY DEF RowStands, Chains, Agrees

-----------------------------------------------------------------------------
(* What is left to show of a step of caller c on its aggregate b.          *)

(* The step disturbs no other caller and no other aggregate.               *)
RequestStepAt(c, b) ==
  /\ b \in Serves[c] /\ b \in Aggregates
  /\ rpc[c] # "idle" => Req(c).agg = b
  /\ Others(c)
  /\ \A d \in Callers \ {c} :
       /\ rpc'[d] = rpc[d]
       /\ rpc[d] # "idle" => Req(d)' = Req(d)
       /\ (rpc[d] # "idle" /\ Req(d).call # 0) =>
            outcome'[Req(d).call] = outcome[Req(d).call]
  /\ \A a \in Aggregates \ {b} :
       rows'[a] = rows[a] /\ instances'[a] = instances[a] /\ loopEvents'[a] = loopEvents[a]

LEMMA RowsStep ==
  ASSUME RuntimeTypeOK, RowsInv, Isolated, NEW c \in Callers, NEW b, RequestStepAt(c, b),
         rpc'[c] = "idle" => RowStands(rows'[b], instances'[b], loopEvents'[b]),
         rpc'[c] # "idle" =>
           /\ Req(c)'.agg = b
           /\ RequestStands(rpc'[c], Req(c)', EngineDid(c)', rows'[b], instances'[b],
                            loopEvents'[b])
  PROVE  RowsInv'
<1>1. ASSUME NEW d \in Callers, d # c, rpc[d] # "idle"
      PROVE  Req(d).agg # b /\ Req(d).agg \in Aggregates
  <2>1. Req(d).agg \in Serves[d] /\ Serves[c] \cap Serves[d] = {}
    BY <1>1 DEF RowsInv, Isolated
  <2> QED
    BY <1>1, <2>1, ReqType DEF RequestStepAt, Request
<1>2. ASSUME NEW a \in Aggregates, AtRest(a)'
      PROVE  RowStands(rows'[a], instances'[a], loopEvents'[a])
  <2>1. CASE a = b
    BY <1>2, <2>1 DEF AtRest
  <2>2. CASE a # b
    <3>1. AtRest(a)
      BY <1>2, <2>2 DEF AtRest, RequestStepAt
    <3> QED
      BY <2>2, <3>1 DEF RowsInv, RequestStepAt
  <2> QED
    BY <2>1, <2>2
<1>3. ASSUME NEW d \in Callers, rpc'[d] # "idle"
      PROVE  /\ Req(d)'.agg \in Serves[d]
             /\ RequestStands(rpc'[d], Req(d)', EngineDid(d)', rows'[Req(d)'.agg],
                              instances'[Req(d)'.agg], loopEvents'[Req(d)'.agg])
  <2>1. CASE d = c
    BY <1>3, <2>1 DEF RequestStepAt
  <2>2. CASE d # c
    <3>1. PICK q : q = Req(d) /\ q = Req(d)'
      BY <1>3, <2>2 DEF RequestStepAt
    <3>2. rpc'[d] = rpc[d] /\ rpc[d] # "idle" /\ q.agg # b /\ q.agg \in Aggregates
      BY <1>1, <1>3, <2>2, <3>1 DEF RequestStepAt
    <3>3. EngineDid(d)' = EngineDid(d)
      BY <2>2, <3>1, <3>2 DEF EngineDid, HasSaved, RequestStepAt, Others
    <3>4. /\ rows'[q.agg] = rows[q.agg] /\ instances'[q.agg] = instances[q.agg]
          /\ loopEvents'[q.agg] = loopEvents[q.agg]
      BY <3>2 DEF RequestStepAt
    <3>5. q.agg \in Serves[d] /\ RequestStands(rpc[d], q, EngineDid(d), rows[q.agg],
                                               instances[q.agg], loopEvents[q.agg])
      BY <3>1, <3>2 DEF RowsInv
    <3> QED
      BY <3>1, <3>2, <3>3, <3>4, <3>5
  <2> QED
    BY <2>1, <2>2
<1> QED
  BY <1>2, <1>3 DEF RowsInv

-----------------------------------------------------------------------------
(* Requests that arrive, and requests that go on without the engine.       *)

LEMMA OwnIsAtRest ==
  ASSUME RowsInv, Isolated, NEW c \in Callers, rpc[c] = "idle", NEW b \in Serves[c],
         b \in Aggregates
  PROVE  AtRest(b) /\ RowStands(rows[b], instances[b], loopEvents[b])
<1>1. ASSUME NEW d \in Callers, rpc[d] # "idle"
      PROVE  Req(d).agg # b
  BY <1>1 DEF RowsInv, Isolated
<1> QED
  BY <1>1 DEF AtRest, RowsInv

(* Outside of the engine it does not matter what the engine did.           *)
LEMMA StandsAnyhow ==
  ASSUME NEW k, k # "engine", NEW r, NEW did, NEW other, NEW row, NEW inst, NEW es,
         RequestStands(k, r, did, row, inst, es)
  PROVE  RequestStands(k, r, other, row, inst, es)
BY DEF RequestStands

LEMMA ServingKeepsRows ==
  ASSUME AllInv, RowsInv, Isolated, NEW c \in Callers, rpc[c] # "idle",
         NEW k \in Awaits \cup {"idle"}, k # "engine", NEW r \in Request,
         Serving(c, k, r), UNCHANGED engineVars, NEW b, b = Req(c).agg, NEW did,
         \A a \in Aggregates \ {b} :
           rows'[a] = rows[a] /\ loopEvents'[a] = loopEvents[a],
         k = "idle" => RowStands(rows'[b], instances[b], loopEvents'[b]),
         k # "idle" =>
           r.agg = b /\ RequestStands(k, r, did, rows'[b], instances[b], loopEvents'[b])
  PROVE  RowsInv'
<1>0. RuntimeTypeOK /\ ServeApart
  BY DEF AllInv, RuntimeInv
<1>1. /\ rpc'[c] = k /\ requests'[serving[c]] = r /\ (k # "idle" => serving'[c] = serving[c])
      /\ \A d \in Callers \ {c} :
           /\ rpc'[d] = rpc[d] /\ serving'[d] = serving[d]
           /\ rpc[d] # "idle" => serving[d] # serving[c]
      /\ \A i \in DOMAIN requests : i # serving[c] => requests'[i] = requests[i]
  BY <1>0, ServingRequests
<1>2. b \in Serves[c] /\ b \in Aggregates /\ RuntimeTypeOK
  BY ReqType DEF RowsInv, AllInv, RuntimeInv, Request
<1>3. /\ instances' = instances /\ outcome' = outcome /\ Others(c)
  BY DEF engineVars, vars, Others
<1>4. ASSUME NEW d \in Callers \ {c}, rpc[d] # "idle"
      PROVE  Req(d)' = Req(d)
  BY <1>1, <1>2, <1>4, ReqType DEF Req
<1>5. RequestStepAt(c, b)
  BY <1>1, <1>2, <1>3, <1>4 DEF RequestStepAt
<1>6. ASSUME k # "idle"
      PROVE  /\ Req(c)' = r
             /\ RequestStands(k, r, EngineDid(c)', rows'[b], instances'[b], loopEvents'[b])
  <2>1. Req(c)' = r /\ instances' = instances
    BY <1>1, <1>3, <1>6 DEF Req
  <2>2. PICK other : other = EngineDid(c)'
    OBVIOUS
  <2>3. RequestStands(k, r, other, rows'[b], instances[b], loopEvents'[b])
    BY <1>6, StandsAnyhow
  <2> QED
    BY <2>1, <2>2, <2>3
<1> QED
  BY <1>1, <1>2, <1>3, <1>5, <1>6, RowsStep

LEMMA ArrivingKeepsRows ==
  ASSUME AllInv, RowsInv, Isolated, NEW c \in Callers,
         NEW k \in {"create", "engine", "update"}, NEW r \in Request, Arrives(c, r, k),
         UNCHANGED <<engineVars, database>>, NEW b, b = r.agg, b \in Serves[c], r.call = 0,
         RequestStands(k, r, FALSE, rows[b], instances[b], loopEvents[b])
  PROVE  RowsInv'
<1>0. RuntimeTypeOK /\ k \in Awaits \cup {"idle"} /\ k # "idle" /\ rpc[c] = "idle"
  BY DEF AllInv, RuntimeInv, Awaits, Arrives
<1>1. /\ rpc'[c] = k /\ requests'[Len(requests) + 1] = r /\ serving'[c] = Len(requests) + 1
      /\ \A d \in Callers \ {c} : rpc'[d] = rpc[d] /\ serving'[d] = serving[d]
      /\ \A i \in DOMAIN requests : requests'[i] = requests[i]
      /\ rpc[c] = "idle"
  BY <1>0, ArrivesRequests
<1>2. b \in Aggregates /\ RuntimeTypeOK
  BY DEF AllInv, RuntimeInv, Request
<1>3. /\ instances' = instances /\ outcome' = outcome /\ Others(c)
      /\ rows' = rows /\ loopEvents' = loopEvents
  BY DEF engineVars, vars, Others, database
<1>4. ASSUME NEW d \in Callers \ {c}, rpc[d] # "idle"
      PROVE  Req(d)' = Req(d)
  BY <1>1, <1>2, <1>4, ReqType DEF Req
<1>5. RequestStepAt(c, b)
  BY <1>1, <1>2, <1>3, <1>4 DEF RequestStepAt
<1>6. Req(c)' = r
  BY <1>1 DEF Req
<1>7. EngineDid(c)' = FALSE
  BY <1>6 DEF EngineDid
<1> QED
  BY <1>1, <1>2, <1>3, <1>5, <1>6, <1>7, RowsStep

(* A request that is answered at once.                                     *)
LEMMA AnsweredKeepsRows ==
  ASSUME AllInv, RowsInv, NEW c \in Callers, NEW r \in Request, Arrives(c, r, "idle"),
         UNCHANGED <<engineVars, database>>
  PROVE  RowsInv'
<1>0. RuntimeTypeOK /\ rpc[c] = "idle"
  BY DEF AllInv, RuntimeInv, Arrives
<1>1. /\ rpc'[c] = "idle" /\ rpc[c] = "idle"
      /\ \A d \in Callers \ {c} : rpc'[d] = rpc[d] /\ serving'[d] = serving[d]
      /\ \A i \in DOMAIN requests : requests'[i] = requests[i]
  BY <1>0, ArrivesRequests
<1>2. UNCHANGED <<instances, outcome, pc, call, rows, loopEvents>>
  BY DEF engineVars, vars, database
<1>3. ASSUME NEW d \in Callers, rpc'[d] # "idle"
      PROVE  /\ rpc'[d] = rpc[d] /\ rpc[d] # "idle" /\ Req(d)' = Req(d)
             /\ EngineDid(d)' = EngineDid(d)
  <2>1. rpc'[d] = rpc[d] /\ rpc[d] # "idle" /\ Req(d)' = Req(d)
    BY <1>1, <1>3, ReqType DEF Req, AllInv, RuntimeInv
  <2> QED
    BY <1>2, <2>1 DEF EngineDid, HasSaved
<1>4. \A a \in Aggregates : AtRest(a)' => AtRest(a)
  BY <1>1, <1>3 DEF AtRest
<1> QED
  BY <1>2, <1>3, <1>4 DEF RowsInv

LEMMA ProvisionLooksUpKeepsRows ==
  ASSUME AllInv, RowsInv, Isolated, NEW c \in Callers, NEW a \in Aggregates,
         NEW l \in DOMAIN Definitions, NEW k \in Keys \cup {NoKey},
         ProvisionLooksUp(c, a, l, k)
  PROVE  RowsInv'
<1>1. PICK q : q = NewRequest("provision", a)
  OBVIOUS
<1>2. PICK r : r = [q EXCEPT !.loop = l, !.key = k]
  OBVIOUS
<1>3. PICK s : s = [r EXCEPT !.answer = "idempotent_replay"]
  OBVIOUS
<1>4. q \in Request /\ q.call = 0 /\ q.agg = a
  BY <1>1, NewRequestType, NewRequestCall DEF AllInv, RuntimeInv, NewRequest
<1>5. r \in Request /\ r.call = 0 /\ r.agg = a
  BY <1>2, <1>4 DEF Request
<1>6. s \in Request
  BY <1>3, <1>5 DEF Request, Answers
<1>7. UNCHANGED <<engineVars, database>>
  BY DEF ProvisionLooksUp
<1>8. CASE Arrives(c, s, "idle")
  BY <1>6, <1>7, <1>8, AnsweredKeepsRows
<1>9. CASE a \in Serves[c] /\ Arrives(c, r, "create")
  <2>1. RowStands(rows[a], instances[a], loopEvents[a])
    BY <1>9, OwnIsAtRest DEF Arrives
  <2>2. RequestStands("create", r, FALSE, rows[a], instances[a], loopEvents[a])
    BY <2>1 DEF RequestStands
  <2> QED
    BY <1>5, <1>7, <1>9, <2>2, ArrivingKeepsRows
<1> QED
  BY <1>1, <1>2, <1>3, <1>8, <1>9 DEF ProvisionLooksUp, AnsweredAtOnce

LEMMA FindRowKeepsRows ==
  ASSUME AllInv, RowsInv, Isolated, NEW c \in Callers, NEW a \in Aggregates,
         NEW r \in Request, r.call = 0, r.agg = a, r.read = rows[a], FindRow(c, a, r)
  PROVE  RowsInv'
<1>1. UNCHANGED <<engineVars, database>> /\ a \in Serves[c]
  BY DEF FindRow
<1>2. ASSUME NEW x \in {"not_found", "already_started", "already_terminal"},
             AnsweredAtOnce(c, r, x)
      PROVE  RowsInv'
  <2>1. PICK s : s = [r EXCEPT !.answer = x]
    OBVIOUS
  <2>2. s \in Request
    BY <2>1 DEF Request, Answers
  <2>3. Arrives(c, s, "idle")
    BY <1>2, <2>1 DEF AnsweredAtOnce
  <2> QED
    BY <1>1, <2>2, <2>3, AnsweredKeepsRows
<1>3. ASSUME rows[a] # NoRow, NEW k \in {"engine", "update"}, Arrives(c, r, k),
             k = "update" => r.op = "cancel"
      PROVE  RowsInv'
  <2>1. RowStands(rows[a], instances[a], loopEvents[a])
    BY <1>1, <1>3, OwnIsAtRest DEF Arrives
  <2>2. RequestStands(k, r, FALSE, rows[a], instances[a], loopEvents[a])
    BY <1>3, <2>1, FoundStands
  <2> QED
    BY <1>1, <1>3, <2>2, ArrivingKeepsRows
<1> QED
  BY <1>2, <1>3 DEF FindRow

LEMMA CreateKeepsRows ==
  ASSUME AllInv, RowsInv, Isolated, NEW c \in Callers, Create(c)
  PROVE  RowsInv'
<1>1. PICK q : q = Req(c)
  OBVIOUS
<1>2. /\ rpc[c] = "create" /\ q \in Request /\ q.answer = "none" /\ AtAwait("create", q)
      /\ Answer(c, "created") /\ UNCHANGED engineVars /\ loopEvents' = loopEvents
      /\ rows \in [Aggregates -> Row \cup {NoRow}] /\ q.agg \in Aggregates
  BY <1>1, ServedIsOpen DEF Create, Inserted, AllInv, RuntimeInv, RuntimeTypeOK, Request
<1>3. PICK row : row = [loop |-> q.loop, key |-> q.key, state |-> Definitions[q.loop].initial,
                        status |-> "CREATED"]
  OBVIOUS
<1>4. /\ rows' = [rows EXCEPT ![q.agg] = row]
      /\ row.status = "CREATED" /\ row.state = Definitions[row.loop].initial
  BY <1>1, <1>3 DEF Create, Inserted
<1>5. row # NoRow
  <2>1. row \in Row
    <3>1. q.loop \in DOMAIN Definitions /\ q.key \in Keys \cup {NoKey}
      BY <1>2 DEF AtAwait, Request
    <3>2. Definitions[q.loop].initial \in StateIds
      BY <3>1, DefinitionsAssumption DEF LoopDefinition
    <3> QED
      BY <1>3, <3>1, <3>2 DEF Row, RowStates
  <2> QED
    BY <2>1, RuntimeAssumption
<1>6. RowStands(NoRow, instances[q.agg], loopEvents[q.agg])
  BY <1>1, <1>2 DEF RowsInv, RequestStands, AtAwait
<1>7. RowStands(row, instances[q.agg], loopEvents[q.agg])
  BY <1>4, <1>5, <1>6, InsertedStands
<1>8. PICK r : r = [q EXCEPT !.answer = "created"]
  OBVIOUS
<1>9. Serving(c, "idle", r) /\ r \in Request
  BY <1>1, <1>2, <1>8, AnswerServes DEF Answers, AllInv, RuntimeInv
<1> QED
  BY <1>1, <1>2, <1>4, <1>7, <1>9, ServingKeepsRows

LEMMA KeyIsTakenKeepsRows ==
  ASSUME AllInv, RowsInv, Isolated, NEW c \in Callers, KeyIsTaken(c)
  PROVE  RowsInv'
<1>1. PICK q : q = Req(c)
  OBVIOUS
<1>2. /\ rpc[c] = "create" /\ q \in Request /\ UNCHANGED engineVars
      /\ rows' = rows /\ loopEvents' = loopEvents /\ GoesTo(c, "refetch")
  BY <1>1, ServedIsOpen DEF KeyIsTaken, database
<1>3. Serving(c, "refetch", q)
  BY <1>1, <1>2, GoesToServes DEF AllInv, RuntimeInv, Awaits
<1>4. RowStands(rows[q.agg], instances[q.agg], loopEvents[q.agg])
  BY <1>1, <1>2 DEF RowsInv, RequestStands
<1>5. PICK did : RequestStands("refetch", q, did, rows'[q.agg], instances[q.agg], loopEvents'[q.agg])
  BY <1>2, <1>4 DEF RequestStands
<1>6. "refetch" \in Awaits /\ "refetch" # "engine" /\ rpc[c] # "idle"
  BY <1>2 DEF Awaits
<1> QED
  BY <1>1, <1>2, <1>3, <1>5, <1>6, ServingKeepsRows

LEMMA RefetchKeepsRows ==
  ASSUME AllInv, RowsInv, Isolated, NEW c \in Callers, Refetch(c)
  PROVE  RowsInv'
<1>1. PICK q : q = Req(c)
  OBVIOUS
<1>2. PICK j : j = serving[c]
  OBVIOUS
<1>3. PICK a \in Holders(q.key) :
        requests' = [requests EXCEPT ![j].agg = a, ![j].answer = "idempotent_replay"]
  BY <1>1, <1>2 DEF Refetch
<1>4. /\ rpc[c] = "refetch" /\ q \in Request
      /\ j \in DOMAIN requests /\ requests[j] = q
      /\ UNCHANGED engineVars /\ rows' = rows /\ loopEvents' = loopEvents
  BY <1>1, <1>2, ServedIsOpen DEF Refetch, database
<1>5. PICK r : r = [q EXCEPT !.agg = a, !.answer = "idempotent_replay"]
  OBVIOUS
<1>6. r \in Request
  BY <1>4, <1>5 DEF Request, Answers, Holders
<1>7. Serving(c, "idle", r)
  BY <1>2, <1>3, <1>4, <1>5 DEF Serving, Refetch, Req, AllInv, RuntimeInv, RuntimeTypeOK
<1>8. RowStands(rows[q.agg], instances[q.agg], loopEvents[q.agg])
  BY <1>1, <1>4 DEF RowsInv, RequestStands
<1> QED
  BY <1>1, <1>4, <1>6, <1>7, <1>8, ServingKeepsRows

LEMMA EngineReturnsKeepsRows ==
  ASSUME AllInv, RowsInv, Isolated, NEW c \in Callers, EngineReturns(c)
  PROVE  RowsInv'
<1>1. PICK q : q = Req(c)
  OBVIOUS
<1>2. /\ rpc[c] = "engine" /\ pc[c] = "idle" /\ q.call # 0 /\ q \in Request
      /\ q.read # NoRow /\ UNCHANGED engineVars /\ rows' = rows /\ loopEvents' = loopEvents
  <2>1. AtAwait("engine", q)
    BY <1>1 DEF EngineReturns, AllInv, RuntimeInv
  <2> QED
    BY <1>1, <2>1, ServedIsOpen DEF EngineReturns, database, AtAwait
<1>3. EngineDid(c) = IF outcome[q.call] \in Moves THEN TRUE ELSE FALSE
  BY <1>1, <1>2 DEF EngineDid
<1>4. RequestStands("engine", q, EngineDid(c), rows[q.agg], instances[q.agg], loopEvents[q.agg])
  BY <1>1, <1>2 DEF RowsInv
<1>5. ASSUME NEW x \in {"error", "rejected"}, Answer(c, x), outcome[q.call] \notin Moves
      PROVE  RowsInv'
  <2>0. RequestStands("engine", q, FALSE, rows[q.agg], instances[q.agg], loopEvents[q.agg])
    BY <1>3, <1>4, <1>5
  <2>1. RowStands(rows[q.agg], instances[q.agg], loopEvents[q.agg])
    BY <1>2, <2>0, RefusedStands
  <2>2. PICK r : r = [q EXCEPT !.answer = x]
    OBVIOUS
  <2>3. Serving(c, "idle", r) /\ r \in Request
    BY <1>1, <1>2, <1>5, <2>2, AnswerServes DEF Answers, AllInv, RuntimeInv
  <2> QED
    BY <1>1, <1>2, <2>1, <2>3, ServingKeepsRows
<1>6. ASSUME outcome[q.call] \in Moves, GoesTo(c, "update")
      PROVE  RowsInv'
  <2>1. Serving(c, "update", q)
    BY <1>1, <1>2, <1>6, GoesToServes DEF AllInv, RuntimeInv, Awaits
  <2>2. HasMoved(q, instances[q.agg])
    BY <1>3, <1>4, <1>6 DEF RequestStands
  <2>3. RequestStands("update", q, TRUE, rows[q.agg], instances[q.agg], loopEvents[q.agg])
    BY <1>4, <2>2, MovedStands
  <2>4. PICK did : RequestStands("update", q, did, rows'[q.agg], instances[q.agg], loopEvents'[q.agg])
    BY <1>2, <2>3
  <2>5. "update" \in Awaits /\ "update" # "engine" /\ rpc[c] # "idle"
    BY <1>2 DEF Awaits
  <2> QED
    BY <1>1, <1>2, <2>1, <2>4, <2>5, ServingKeepsRows
<1> QED
  BY <1>1, <1>5, <1>6 DEF EngineReturns, EngineResult, Refusals, Moves

LEMMA UpdateKeepsRows ==
  ASSUME AllInv, RowsInv, Isolated, NEW c \in Callers, Update(c)
  PROVE  RowsInv'
<1>1. PICK q : q = Req(c)
  OBVIOUS
<1>2. PICK b : b = q.agg
  OBVIOUS
<1>3. /\ rpc[c] = "update" /\ q \in Request /\ AtAwait("update", q)
      /\ UNCHANGED engineVars /\ loopEvents' = loopEvents /\ GoesTo(c, "append")
      /\ rows \in [Aggregates -> Row \cup {NoRow}] /\ b \in Aggregates
  <2>1. rpc[c] = "update" /\ AtAwait("update", q)
    BY <1>1 DEF Update, Updated, AllInv, RuntimeInv
  <2> QED
    BY <1>1, <1>2, <2>1, ServedIsOpen
       DEF Update, Updated, AllInv, RuntimeInv, RuntimeTypeOK, Request
<1>4. PICK row \in Row : row = rows[b]
  BY <1>2, <1>3 DEF AtAwait
<1>5. rows' = [rows EXCEPT ![b].state = q.to, ![b].status = ToStatus(q)]
  BY <1>1, <1>2 DEF Update, Updated
<1>6. PICK status : status = ToStatus(q)
  OBVIOUS
<1>7. PICK next : next = [row EXCEPT !.state = q.to, !.status = status]
  OBVIOUS
<1>8. next.loop = row.loop /\ next.state = q.to /\ next.status = status
  BY <1>4, <1>7 DEF Row
<1>9. rows'[b] = next /\ \A a \in Aggregates \ {b} : rows'[a] = rows[a]
  BY <1>3, <1>4, <1>5, <1>6, <1>7
<1>10. Serving(c, "append", q)
  BY <1>1, <1>3, GoesToServes DEF AllInv, RuntimeInv, Awaits
<1>11. RequestStands("update", q, EngineDid(c), row, instances[b], loopEvents[b])
  BY <1>1, <1>2, <1>3, <1>4 DEF RowsInv
<1>12. RequestStands("append", q, EngineDid(c), next, instances[b], loopEvents[b])
  BY <1>3, <1>6, <1>8, <1>11, UpdatedStands DEF AtAwait
<1>13. PICK did : RequestStands("append", q, did, rows'[b], instances[b], loopEvents'[b])
  BY <1>3, <1>9, <1>12
<1>14. "append" \in Awaits /\ "append" # "engine" /\ rpc[c] # "idle"
  BY <1>3 DEF Awaits
<1> QED
  BY <1>1, <1>2, <1>3, <1>9, <1>10, <1>13, <1>14, ServingKeepsRows

LEMMA AppendEventKeepsRows ==
  ASSUME AllInv, RowsInv, Isolated, NEW c \in Callers, AppendEvent(c)
  PROVE  RowsInv'
<1>1. PICK q : q = Req(c)
  OBVIOUS
<1>2. PICK b : b = q.agg
  OBVIOUS
<1>3. PICK e : e = EventOf(serving[c])
  OBVIOUS
<1>4. PICK x : x = Success(q.op)
  OBVIOUS
<1>5. /\ rpc[c] = "append" /\ q \in Request /\ AtAwait("append", q)
      /\ UNCHANGED engineVars /\ rows' = rows /\ Answer(c, x)
      /\ loopEvents' = [loopEvents EXCEPT ![b] = Append(@, e)]
      /\ loopEvents \in [Aggregates -> Seq(LoopEvent)] /\ b \in Aggregates
  <2>1. rpc[c] = "append" /\ AtAwait("append", q)
    BY <1>1 DEF AppendEvent, Appended, AllInv, RuntimeInv
  <2> QED
    BY <1>1, <1>2, <1>3, <1>4, <2>1, ServedIsOpen
       DEF AppendEvent, Appended, AllInv, RuntimeInv, RuntimeTypeOK, Request
<1>6. e \in LoopEvent /\ e.from = q.read.state /\ e.to = q.to
  <2>1. e \in LoopEvent
    BY <1>1, <1>3, <1>5, EventOfType DEF AllInv, RuntimeInv
  <2> QED
    BY <1>1, <1>3, <2>1 DEF EventOf, Req
<1>7. RequestStands("append", q, EngineDid(c), rows[b], instances[b], loopEvents[b])
  BY <1>1, <1>2, <1>5 DEF RowsInv
<1>8. RowStands(rows[b], instances[b], Append(loopEvents[b], e))
  BY <1>2, <1>5, <1>6, <1>7, AppendedStands DEF AtAwait
<1>9. PICK r : r = [q EXCEPT !.answer = x]
  OBVIOUS
<1>10. x \in Answers
  BY <1>4, <1>5 DEF AtAwait, Success, Answers
<1>11. Serving(c, "idle", r) /\ r \in Request
  BY <1>1, <1>5, <1>9, <1>10, AnswerServes DEF AllInv, RuntimeInv
<1> QED
  BY <1>1, <1>2, <1>5, <1>8, <1>11, ServingKeepsRows

-----------------------------------------------------------------------------
(* The engine works on a request.                                          *)

(* A step of the engine for caller c's request, which may rewrite it but   *)
(* not its aggregate.                                                      *)
LEMMA EngineStepAt ==
  ASSUME AllInv, RowsInv, NEW c \in Callers, rpc[c] = "engine", NEW q, q = Req(c),
         NEW r \in Request, r.agg = q.agg, Serving(c, "engine", r), UNCHANGED database,
         Others(c), NEW id \in CallIds, \A i \in CallIds \ {id} : outcome'[i] = outcome[i],
         q.call = 0 \/ q.call = id, q.call = 0 => id > calls,
         \A a \in Aggregates \ {q.agg} : instances'[a] = instances[a]
  PROVE  RequestStepAt(c, q.agg) /\ rpc'[c] = "engine" /\ Req(c)' = r
<1>0. RuntimeTypeOK /\ ServeApart /\ "engine" \in Awaits
  BY DEF AllInv, RuntimeInv, Awaits
<1>1. /\ rpc'[c] = "engine" /\ requests'[serving[c]] = r /\ serving'[c] = serving[c]
      /\ \A d \in Callers \ {c} :
           /\ rpc'[d] = rpc[d] /\ serving'[d] = serving[d]
           /\ rpc[d] # "idle" => serving[d] # serving[c]
      /\ \A i \in DOMAIN requests : i # serving[c] => requests'[i] = requests[i]
  BY <1>0, ServingRequests
<1>2. /\ q.agg \in Serves[c] /\ q.agg \in Aggregates
      /\ serving[c] \in DOMAIN requests
  BY <1>0, ReqType DEF RowsInv, Request
<1>3. rows' = rows /\ loopEvents' = loopEvents
  BY DEF database
<1>4. ASSUME NEW d \in Callers \ {c}, rpc[d] # "idle"
      PROVE  Req(d)' = Req(d)
  BY <1>0, <1>1, <1>4, ReqType DEF Req
<1>5. ASSUME NEW d \in Callers \ {c}, rpc[d] # "idle", Req(d).call # 0
      PROVE  outcome'[Req(d).call] = outcome[Req(d).call]
  <2>1. PICK s : s = Req(d)
    OBVIOUS
  <2>2. s \in Request /\ RequestIsTrue(s) /\ serving[d] \in DOMAIN requests
    BY <1>5, <2>1, ServedIsOpen
  <2>3. s.call <= calls /\ s.call \in Nat /\ calls \in Nat /\ calls <= MaxCalls
    BY <1>5, <2>1, <2>2
       DEF RequestIsTrue, Request, AllInv, AnswersInv, LiveInv, TypeInv, TypeOK
  <2>4. s.call \in CallIds
    BY <1>5, <2>1, <2>3, DefinitionsAssumption DEF CallIds
  <2>5. s.call # id
    <3>1. CASE q.call = 0
      <4>1. id > calls /\ id \in Nat
        BY <3>1 DEF CallIds
      <4> QED
        BY <2>3, <4>1
    <3>2. CASE q.call = id
      <4>1. requests[serving[d]].call = s.call /\ requests[serving[c]].call = q.call
        BY <2>1 DEF Req
      <4> QED
        BY <1>1, <1>2, <1>5, <2>1, <2>2, <3>2, <4>1 DEF AllInv, TruthInv, OneRequestPerCall
    <3> QED
      BY <3>1, <3>2
  <2> QED
    BY <2>1, <2>4, <2>5
<1>6. Req(c)' = r
  BY <1>1 DEF Req
<1> QED
  BY <1>1, <1>2, <1>3, <1>4, <1>5, <1>6 DEF RequestStepAt

LEMMA CallsEngineEnters ==
  ASSUME AllInv, NEW c \in Callers, CallsEngine(c)
  PROVE  pc'[c] \in {"idle", "save", "emit"} /\ UNCHANGED instances
<1>1. TypeInv /\ TypeOK
  BY DEF AllInv, AnswersInv, LiveInv, TypeInv
<1>2. Begin(c, Req(c).agg)
  BY DEF CallsEngine, StartCall, TransitionRefused, TransitionRequested
<1>3. ASSUME NEW x, ReturnsAtOnce(c, x)
      PROVE  pc'[c] \in {"idle", "save", "emit"} /\ UNCHANGED instances
  BY <1>2, <1>3 DEF Begin, ReturnsAtOnce, store
<1>4. ASSUME NEW k \in {"save", "emit"}, NEW w, Enters(c, k, w), UNCHANGED store
      PROVE  pc'[c] \in {"idle", "save", "emit"} /\ UNCHANGED instances
  BY <1>1, <1>4, EntersOthers DEF store
<1>5. ASSUME NEW l, StartCall(c, Req(c).agg, l)
      PROVE  pc'[c] \in {"idle", "save", "emit"} /\ UNCHANGED instances
  BY <1>3, <1>4, <1>5 DEF StartCall
<1>6. ASSUME NEW actor,
             \/ TransitionRefused(c, Req(c).agg, Req(c).tid, actor, FALSE)
             \/ TransitionRequested(c, Req(c).agg, Req(c).tid, actor, FALSE)
      PROVE  pc'[c] \in {"idle", "save", "emit"} /\ UNCHANGED instances
  <2>1. ASSUME TransitionRefused(c, Req(c).agg, Req(c).tid, actor, FALSE)
        PROVE  \E x : ReturnsAtOnce(c, x)
    BY <2>1 DEF TransitionRefused
  <2>2. ASSUME TransitionRequested(c, Req(c).agg, Req(c).tid, actor, FALSE)
        PROVE  UNCHANGED store /\ \E w : Enters(c, "emit", w)
    BY <2>2 DEF TransitionRequested
  <2> QED
    BY <1>3, <1>4, <1>6, <2>1, <2>2
<1> QED
  BY <1>5, <1>6 DEF CallsEngine

LEMMA CallsEngineKeepsRows ==
  ASSUME AllInv, TypeInv', RowsInv, Isolated, NEW c \in Callers, CallsEngine(c)
  PROVE  RowsInv'
<1>1. PICK q : q = Req(c)
  OBVIOUS
<1>2. PICK n : n = calls + 1
  OBVIOUS
<1>3. /\ rpc[c] = "engine" /\ q \in Request /\ q.call = 0
      /\ serving[c] \in DOMAIN requests /\ requests[serving[c]] = q
      /\ UNCHANGED database
  BY <1>1, ServedIsOpen DEF CallsEngine
<1>4. /\ calls < MaxCalls /\ Others(c)
      /\ \A id \in CallIds : id # n => outcome'[id] = outcome[id]
      /\ outcome'[n] \in {"none", "threw"} \cup Refusals
      /\ pc'[c] # "idle" => call'[c].result = "none"
  BY <1>1, <1>2, CallsEngineResults
<1>5. calls \in Nat /\ n \in Nat /\ n > calls /\ n \in CallIds
  BY <1>2, <1>4, DefinitionsAssumption
     DEF AllInv, AnswersInv, LiveInv, TypeInv, TypeOK, CallIds
<1>6. PICK to : to = IF pc'[c] = "idle" THEN q.to ELSE call'[c].write.state
  OBVIOUS
<1>7. to \in RowStates
  <2>1. pc'[c] # "idle" => call'[c].write \in LoopInstance
    BY DEF TypeInv, CallShape, Call
  <2> QED
    BY <1>3, <1>6, <2>1 DEF LoopInstance, RowStates, Request
<1>8. PICK r : r = [q EXCEPT !.call = n, !.to = to]
  OBVIOUS
<1>9. r \in Request /\ r.call = n /\ r.agg = q.agg /\ r.op = q.op /\ r.read = q.read
  BY <1>3, <1>5, <1>7, <1>8 DEF Request
<1>10. Serving(c, "engine", r)
  BY <1>1, <1>2, <1>3, <1>6, <1>8
     DEF Serving, CallsEngine, Req, AllInv, RuntimeInv, RuntimeTypeOK
<1>11. pc'[c] \in {"idle", "save", "emit"} /\ instances' = instances
  BY CallsEngineEnters
<1>12. RequestStepAt(c, q.agg) /\ rpc'[c] = "engine" /\ Req(c)' = r
  BY <1>1, <1>3, <1>4, <1>5, <1>9, <1>10, <1>11, EngineStepAt
<1>13. EngineDid(c)' = FALSE
  BY <1>4, <1>9, <1>11, <1>12 DEF EngineDid, HasSaved, Moves, Refusals
<1>14. EngineDid(c) = FALSE
  BY <1>1, <1>3 DEF EngineDid
<1>15. RequestStands("engine", q, FALSE, rows[q.agg], instances[q.agg], loopEvents[q.agg])
  BY <1>1, <1>3, <1>14 DEF RowsInv
<1>16. RequestStands("engine", r, FALSE, rows[q.agg], instances[q.agg], loopEvents[q.agg])
  BY <1>9, <1>15 DEF RequestStands
<1>17. /\ rows' = rows /\ loopEvents' = loopEvents
       /\ RequestStands("engine", r, EngineDid(c)', rows[q.agg], instances[q.agg],
                        loopEvents[q.agg])
  BY <1>3, <1>13, <1>16 DEF database
<1> QED
  BY <1>9, <1>11, <1>12, <1>17, RowsStep DEF AllInv, RuntimeInv

-----------------------------------------------------------------------------
(* The engine's call saves once, and its answer says whether it did.       *)

(* What an emitted list of events leads to.                                *)
LEMMA EmitsAt ==
  ASSUME TypeInv, NEW c \in Callers, NEW w \in Call, NEW evs, NEW k, Emits(c, w, evs, k)
  PROVE  /\ pc'[c] = IF evs = <<>> THEN k ELSE "emit"
         /\ call'[c].result = w.result
<1>1. PICK v : v = [w EXCEPT !.outbox = evs, !.after = k]
  OBVIOUS
<1>2. v.result = w.result
  BY <1>1 DEF Call
<1>3. Enters(c, IF evs = <<>> THEN k ELSE "emit", v)
  BY <1>1 DEF Emits
<1> QED
  BY <1>2, <1>3, EntersOthers

LEMMA ReturnsAt ==
  ASSUME TypeInv, NEW c \in Callers, pc[c] # "idle", NEW w, w = call[c], NEW x, Returns(c, x)
  PROVE  pc'[c] = "idle" /\ outcome'[w.id] = x
<1>1. w.id \in CallIds /\ outcome \in [CallIds -> Outcomes]
  BY DEF TypeInv, TypeOK, CallShape, Call
<1> QED
  BY <1>1, EntersOthers DEF Returns

(* The answer that a call has, or will get, is that it saved.              *)
Moving(c, w) ==
  IF pc'[c] = "idle" THEN outcome'[w.id] \in Moves ELSE call'[c].result \in Moves

LEMMA GuardsMoveNothing ==
  ASSUME AnswersInv, NEW c \in Callers, EvaluateGuards(c), NEW w, w = call[c],
         w.result = "none"
  PROVE  Moving(c, w) = FALSE
<1>1. /\ w \in Call /\ TypeInv /\ pc[c] = "guards" /\ w.tr.soft \subseteq GuardIds
  <2>1. pc[c] = "guards"
    BY DEF EvaluateGuards
  <2>2. CallShape("guards", w)
    BY <2>1, CallFields
  <2>3. w.tr.soft \subseteq GuardIds
    BY <2>2 DEF CallShape, Heads, TransitionSpecs
  <2> QED
    BY <2>1, <2>3, CallFields
<1>2. CASE Returns(c, "threw")
  <2>1. pc'[c] = "idle" /\ outcome'[w.id] = "threw"
    BY <1>1, <1>2, ReturnsAt
  <2> QED
    BY <2>1 DEF Moving, Moves
<1>3. ASSUME NEW soft \in SUBSET w.tr.soft, NEW evs, NEW k \in {"evidence", "save"},
             Emits(c, [w EXCEPT !.warnings = soft], evs, k)
      PROVE  Moving(c, w) = FALSE
  <2>1. PICK u : u = [w EXCEPT !.warnings = soft]
    OBVIOUS
  <2>2. u \in Call /\ u.result = "none"
    BY <1>1, <2>1 DEF Call
  <2>3. Emits(c, u, evs, k)
    BY <1>3, <2>1
  <2>4. pc'[c] # "idle" /\ call'[c].result = "none"
    BY <1>1, <2>2, <2>3, EmitsAt
  <2> QED
    BY <2>4 DEF Moving, Moves
<1>4. ASSUME NEW soft \in SUBSET w.tr.soft, NEW evs, evs # <<>>,
             Emits(c, [w EXCEPT !.result = "guard_failed"], evs, "idle")
      PROVE  Moving(c, w) = FALSE
  <2>1. PICK u : u = [w EXCEPT !.result = "guard_failed"]
    OBVIOUS
  <2>2. u \in Call /\ u.result = "guard_failed"
    BY <1>1, <2>1 DEF Call, Outcomes, Refusals
  <2>3. Emits(c, u, evs, "idle")
    BY <1>4, <2>1
  <2>4. pc'[c] # "idle" /\ call'[c].result = "guard_failed"
    BY <1>1, <1>4, <2>2, <2>3, EmitsAt
  <2> QED
    BY <2>4 DEF Moving, Moves
<1>5. ASSUME NEW x, NEW y, NEW z
      PROVE  <<x, y>> # <<>> /\ <<z>> \o <<x, y>> # <<>> /\ <<>> \o <<x, y>> # <<>>
  <2>1. Len(<<x, y>>) = 2 /\ Len(<<z>> \o <<x, y>>) = 3 /\ Len(<<>> \o <<x, y>>) = 2
    OBVIOUS
  <2> QED
    BY <2>1
<1>6. ASSUME NEW soft \in SUBSET w.tr.soft, NEW evs,
             \/ \E k \in {"evidence", "save"} : Emits(c, [w EXCEPT !.warnings = soft], evs, k)
             \/ evs # <<>> /\ Emits(c, [w EXCEPT !.result = "guard_failed"], evs, "idle")
      PROVE  Moving(c, w) = FALSE
  BY <1>3, <1>4, <1>6
<1>7. CASE ~ Returns(c, "threw")
  <2>1. PICK soft \in SUBSET w.tr.soft, hard \in SUBSET w.tr.hard :
          IF hard = {}
            THEN Emits(c, [w EXCEPT !.warnings = soft],
                   IF soft = {} THEN <<>> ELSE <<Ev("guard_soft", w.id, w.from)>>,
                   IF RequiresGovernedEvidence(w.write.loop, w.tr)
                     THEN "evidence" ELSE "save")
            ELSE Emits(c, [w EXCEPT !.result = "guard_failed"],
                   (IF soft = {} THEN <<>> ELSE <<Ev("guard_soft", w.id, w.from)>>)
                     \o <<Ev("guard_hard", w.id, w.from), Ev("blocked", w.id, w.tr.to)>>,
                   "idle")
    BY <1>7 DEF EvaluateGuards
  <2> QED
    BY <1>5, <1>6, <2>1
<1> QED
  BY <1>2, <1>7

LEMMA EvidenceMovesNothing ==
  ASSUME AnswersInv, NEW c \in Callers, CommitEvidence(c), NEW w, w = call[c],
         w.result = "none"
  PROVE  Moving(c, w) = FALSE
<1>1. pc[c] # "idle" /\ w \in Call /\ TypeInv
  BY CallFields DEF CommitEvidence
<1>2. ASSUME NEW x \in Refusals, Returns(c, x)
      PROVE  Moving(c, w) = FALSE
  <2>1. pc'[c] = "idle" /\ outcome'[w.id] = x
    BY <1>1, <1>2, ReturnsAt
  <2> QED
    BY <1>2, <2>1 DEF Moving, Moves, Refusals
<1>3. CASE Enters(c, "save", [w EXCEPT !.snapshot = TRUE])
  <2>1. PICK v : v = [w EXCEPT !.snapshot = TRUE]
    OBVIOUS
  <2>2. v.result = "none" /\ call'[c] = v /\ pc'[c] = "save"
    BY <1>1, <1>3, <2>1, EntersOthers DEF Call
  <2> QED
    BY <2>2 DEF Moving, Moves
<1> QED
  BY <1>2, <1>3 DEF CommitEvidence, Refusals

LEMMA DeliveryMovesNothing ==
  ASSUME AnswersInv, NEW c \in Callers, Deliver(c), NEW w, w = call[c]
  PROVE  Moving(c, w) = (w.result \in Moves)
<1>1. pc[c] = "emit" /\ w \in Call /\ TypeInv /\ EmitSettles(c)
  BY CallFields DEF Deliver
<1>2. CASE Returns(c, w.result)
  <2>1. pc'[c] = "idle" /\ outcome'[w.id] = w.result
    BY <1>1, <1>2, ReturnsAt
  <2> QED
    BY <2>1 DEF Moving
<1>3. ASSUME NEW k, k # "idle", NEW tail, Enters(c, k, [w EXCEPT !.outbox = tail])
      PROVE  Moving(c, w) = (w.result \in Moves)
  <2>1. PICK v : v = [w EXCEPT !.outbox = tail]
    OBVIOUS
  <2>2. v.result = w.result /\ call'[c] = v /\ pc'[c] = k
    BY <1>1, <1>3, <2>1, EntersOthers DEF Call
  <2> QED
    BY <1>3, <2>2 DEF Moving
<1> QED
  BY <1>1, <1>2, <1>3 DEF EmitSettles

(* Steps of a call other than its saves.                                   *)
LEMMA WaitingMovesNothing ==
  ASSUME ReplayInv, AnswersInv, NEW c \in Callers, NEW w, w = call[c],
         EvaluateGuards(c) \/ CommitEvidence(c) \/ Deliver(c)
  PROVE  Moving(c, w) = (w.result \in Moves)
<1>1. CASE Deliver(c)
  BY <1>1, DeliveryMovesNothing
<1>2. CASE EvaluateGuards(c) \/ CommitEvidence(c)
  <2>1. pc[c] \in {"guards", "evidence"} /\ w.result = "none"
    BY <1>2 DEF EvaluateGuards, CommitEvidence, ReplayInv
  <2>2. Moving(c, w) = FALSE
    BY <1>2, <2>1, GuardsMoveNothing, EvidenceMovesNothing
  <2>3. (w.result \in Moves) = FALSE
    BY <2>1 DEF Moves
  <2> QED
    BY <2>2, <2>3
<1> QED
  BY <1>1, <1>2

(* EngineDid for the engine call with locals w, after the step.            *)
DidNow(c, w) ==
  IF pc'[c] = "idle" THEN outcome'[w.id] \in Moves ELSE HasSaved(c)'

LEMMA SaveInstanceDoes ==
  ASSUME ReplayInv, AnswersInv, NEW c \in Callers, SaveInstance(c), NEW w, w = call[c],
         w.op \in {"start", "transition"}
  PROVE  DidNow(c, w) = TRUE
<1>1. pc[c] # "idle" /\ w \in Call /\ TypeInv
  BY CallFields DEF SaveInstance
<1>2. CASE w.op = "transition"
  <2>1. pc'[c] = "record"
    BY <1>1, <1>2, EntersOthers DEF SaveInstance
  <2> QED
    BY <2>1 DEF DidNow, HasSaved
<1>3. CASE w.op = "start"
  <2>1. PICK u : u = [w EXCEPT !.result = "started"]
    OBVIOUS
  <2>2. u \in Call /\ u.result = "started"
    BY <1>1, <2>1 DEF Call, Outcomes
  <2>3. PICK evs : evs = <<Ev("started", w.id, w.from)>>
    OBVIOUS
  <2>4. Emits(c, u, evs, "idle") /\ evs # <<>>
    BY <1>3, <2>1, <2>3 DEF SaveInstance, Announced
  <2>5. pc'[c] = "emit" /\ call'[c].result = "started"
    BY <1>1, <2>2, <2>4, EmitsAt
  <2> QED
    BY <2>5 DEF DidNow, HasSaved, Moves
<1> QED
  BY <1>2, <1>3

LEMMA SaveRecordDoes ==
  ASSUME ReplayInv, AnswersInv, NEW c \in Callers, SaveRecord(c), NEW w, w = call[c]
  PROVE  DidNow(c, w) = TRUE
<1>1. pc[c] # "idle" /\ w \in Call /\ TypeInv
  BY CallFields DEF SaveRecord
<1>2. PICK u : u = [w EXCEPT !.result = "executed"]
  OBVIOUS
<1>3. u \in Call /\ u.result = "executed"
  BY <1>1, <1>2 DEF Call, Outcomes
<1>4. PICK e : e = Ev("executed", w.id, w.tr.to)
  OBVIOUS
<1>5. PICK done : /\ Emits(c, u, <<e>> \o done, "idle")
                  /\ done = <<>> \/ \E x : done = <<x>>
  BY <1>2, <1>4 DEF SaveRecord
<1>6. <<e>> \o done # <<>>
  <2>1. CASE done = <<>>
    <3>1. Len(<<e>> \o <<>>) = 1
      OBVIOUS
    <3> QED
      BY <2>1, <3>1
  <2>2. ASSUME NEW x, done = <<x>>
        PROVE  <<e>> \o done # <<>>
    <3>1. Len(<<e>> \o <<x>>) = 2
      OBVIOUS
    <3> QED
      BY <2>2, <3>1
  <2> QED
    BY <1>5, <2>1, <2>2
<1>7. pc'[c] = "emit" /\ call'[c].result = "executed"
  BY <1>1, <1>3, <1>5, <1>6, EmitsAt
<1> QED
  BY <1>7 DEF DidNow, HasSaved, Moves

(* A step of the engine saves the instance, or does as much as was done.   *)
LEMMA ContinueDoes ==
  ASSUME ReplayInv, AnswersInv, Isolated, LawInv', AnswersInv', NEW c \in Callers,
         Continue(c), NEW w, w = call[c], w.op \in {"start", "transition"}
  PROVE  \/ instances' = instances /\ DidNow(c, w) = HasSaved(c)
         \/ SaveInstance(c) /\ HasSaved(c) = FALSE /\ DidNow(c, w) = TRUE
<1>1. CASE EvaluateGuards(c) \/ CommitEvidence(c) \/ Deliver(c)
  <2>1. instances' = instances /\ pc[c] # "record" /\ pc'[c] # "record"
    BY <1>1, WaitingReplays
  <2>2. Moving(c, w) = (w.result \in Moves)
    BY <1>1, WaitingMovesNothing
  <2>3. HasSaved(c) = (w.result \in Moves)
    BY <2>1 DEF HasSaved
  <2>4. DidNow(c, w) = Moving(c, w)
    BY <2>1 DEF DidNow, Moving, HasSaved
  <2> QED
    BY <2>1, <2>2, <2>3, <2>4
<1>2. CASE SaveInstance(c)
  <2>1. pc[c] = "save" /\ w.result = "none"
    BY <1>2 DEF SaveInstance, ReplayInv
  <2>2. HasSaved(c) = FALSE
    BY <2>1 DEF HasSaved, Moves
  <2> QED
    BY <1>2, <2>2, SaveInstanceDoes
<1>3. CASE SaveRecord(c)
  <2>1. HasSaved(c) = TRUE /\ instances' = instances
    BY <1>3 DEF SaveRecord, HasSaved
  <2> QED
    BY <1>3, <2>1, SaveRecordDoes
<1> QED
  BY <1>1, <1>2, <1>3 DEF Continue

LEMMA ContinueKeepsRows ==
  ASSUME AllInv, ReplayInv, RowsInv, Isolated, LawInv', AnswersInv', NEW c \in Callers,
         EngineContinues(c)
  PROVE  RowsInv'
<1>1. PICK w : w = call[c]
  OBVIOUS
<1>2. PICK q : q = Req(c)
  OBVIOUS
<1>3. Continue(c) /\ UNCHANGED runtimeVars /\ AnswersInv /\ RuntimeTypeOK
  BY DEF EngineContinues, AllInv, RuntimeInv
<1>4. /\ \A id \in CallIds \ {w.id} : outcome'[id] = outcome[id]
      /\ Others(c) /\ pc[c] # "idle"
      /\ pc'[c] # "idle" => SameCall(call'[c], w)
  BY <1>1, <1>3, ContinueResults, ContinueKeepsCall DEF Continue, AnswersInv, LiveInv
<1>5. /\ w \in Call /\ w.id \in CallIds /\ w.id # 0 /\ w.agg \in Aggregates
      /\ CallIsFresh(pc[c], w) /\ CallShape(pc[c], w) /\ TypeOK
      /\ w.result # "none" => pc[c] = "emit"
  BY <1>1, <1>3, <1>4, CallFields, CallerFields DEF CallIds
<1>6. CallIsServed(c, w) /\ rpc[c] = "engine"
  BY <1>1, <1>4 DEF AllInv, TruthInv, CallIsServed
<1>7. /\ q \in Request /\ RequestIsTrue(q) /\ serving[c] \in DOMAIN requests
      /\ requests[serving[c]] = q
  BY <1>2, <1>6, ServedIsOpen
<1>8. /\ w.id = q.call /\ w.agg = q.agg /\ w.op = q.op /\ w.write.state = q.to
      /\ q.op \in {"start", "transition"}
  BY <1>2, <1>5, <1>6, <1>7 DEF CallIsServed, RequestIsTrue
<1>9. /\ UNCHANGED <<requests, rpc, serving, rows, loopEvents>> /\ UNCHANGED database
  BY <1>3 DEF runtimeVars, database
<1>10. Serving(c, "engine", q)
  <2>1. /\ requests \in Seq(Request) /\ rpc \in [Callers -> Awaits \cup {"idle"}]
        /\ serving \in [Callers -> 0 .. MaxRequests]
    BY <1>3 DEF RuntimeTypeOK, Awaits
  <2>2. requests = [requests EXCEPT ![serving[c]] = q]
    BY <1>7, <2>1
  <2>3. rpc = [rpc EXCEPT ![c] = "engine"] /\ serving = [serving EXCEPT ![c] = serving[c]]
    BY <1>6, <2>1
  <2> QED
    BY <1>9, <2>2, <2>3 DEF Serving
<1>11. \/ instances' = instances /\ DidNow(c, w) = HasSaved(c)
       \/ SaveInstance(c) /\ HasSaved(c) = FALSE /\ DidNow(c, w) = TRUE
  BY <1>1, <1>3, <1>8, ContinueDoes
<1>12. \A a \in Aggregates \ {q.agg} : instances'[a] = instances[a]
  <2>1. instances \in [Aggregates -> LoopInstance \cup {NoInstance}]
    BY <1>5 DEF TypeOK
  <2> QED
    BY <1>1, <1>8, <1>11, <2>1 DEF SaveInstance
<1>13. RequestStepAt(c, q.agg) /\ rpc'[c] = "engine" /\ Req(c)' = q
  <2>1. q.call = w.id /\ q.call # 0
    BY <1>5, <1>8
  <2> QED
    BY <1>2, <1>4, <1>5, <1>6, <1>7, <1>9, <1>10, <1>12, <2>1, EngineStepAt
<1>14. EngineDid(c) = HasSaved(c) /\ EngineDid(c)' = DidNow(c, w)
  <2>1. EngineDid(c) = HasSaved(c)
    BY <1>2, <1>4, <1>5, <1>8 DEF EngineDid, HasSaved
  <2>2. EngineDid(c)' = DidNow(c, w)
    <3>1. Req(c)'.call = w.id
      BY <1>8, <1>13
    <3>2. CASE pc'[c] = "idle"
      <4>1. EngineDid(c)' = (Req(c)'.call # 0 /\ outcome'[Req(c)'.call] \in Moves)
        BY <3>2 DEF EngineDid
      <4>2. Req(c)'.call # 0 /\ outcome'[Req(c)'.call] = outcome'[w.id]
        BY <1>5, <3>1
      <4>3. EngineDid(c)' = (outcome'[w.id] \in Moves)
        BY <4>1, <4>2
      <4>4. DidNow(c, w) = (outcome'[w.id] \in Moves)
        BY <3>2 DEF DidNow
      <4> QED
        BY <4>3, <4>4
    <3>3. CASE pc'[c] # "idle"
      <4>1. EngineDid(c)' = HasSaved(c)'
        BY <1>5, <3>1, <3>3 DEF EngineDid, HasSaved
      <4> QED
        BY <3>3, <4>1 DEF DidNow
    <3> QED
      BY <3>2, <3>3
  <2> QED
    BY <2>1, <2>2
<1>15. PICK did : did = HasSaved(c)
  OBVIOUS
<1>16. RequestStands("engine", q, did, rows[q.agg], instances[q.agg], loopEvents[q.agg])
  BY <1>2, <1>6, <1>14, <1>15 DEF RowsInv
<1>17. RequestStands("engine", q, EngineDid(c)', rows'[q.agg], instances'[q.agg],
                     loopEvents'[q.agg])
  <2>1. CASE instances' = instances /\ DidNow(c, w) = HasSaved(c)
    BY <1>9, <1>14, <1>15, <1>16, <2>1
  <2>2. CASE SaveInstance(c) /\ HasSaved(c) = FALSE /\ DidNow(c, w) = TRUE
    <3>1. instances'[q.agg] = w.write
      BY <1>1, <1>5, <1>8, <2>2 DEF SaveInstance, TypeOK
    <3>2. w.write \in LoopInstance /\ w.write # NoInstance
      BY <1>5, DefinitionsAssumption DEF Call
    <3>3. q.op = "transition" => q.read.status # "CREATED"
      <4>1. Agrees(q.read, instances[q.agg])
        BY <1>15, <1>16, <2>2 DEF RequestStands
      <4>2. pc[c] = "save" /\ w.result = "none"
        BY <1>5, <2>2 DEF SaveInstance
      <4>3. w.op = "transition" => instances[w.agg] # NoInstance
        BY <1>5, <4>2 DEF CallIsFresh
      <4> QED
        BY <1>8, <4>1, <4>3 DEF Agrees
    <3>4. HasMoved(q, w.write)
      BY <1>8, <3>2, <3>3 DEF HasMoved
    <3>5. RequestStands("engine", q, TRUE, rows[q.agg], w.write, loopEvents[q.agg])
      BY <1>16, <3>4, MovedStands
    <3> QED
      BY <1>9, <1>14, <2>2, <3>1, <3>5
  <2> QED
    BY <1>11, <2>1, <2>2
<1> QED
  BY <1>3, <1>13, <1>17, RowsStep

-----------------------------------------------------------------------------
(* Every step.                                                             *)

LEMMA NothingFails ==
  ASSUME AllInv, NoFaults, NEW c \in Callers
  PROVE  ~ EngineFails(c) /\ ~ RequestFails(c) /\ ~ Unconfirmed(c)
<1>1. faults \in Nat /\ failures \in Nat
  BY DEF AllInv, AnswersInv, LiveInv, TypeInv, TypeOK, RuntimeInv, RuntimeTypeOK
<1>2. ~ MayFail
  BY <1>1 DEF MayFail, NoFaults
<1> QED
  BY <1>2 DEF EngineFails, RequestFails, Unconfirmed

LEMMA RuntimeNextKeepsRows ==
  ASSUME AllInv, ReplayInv, RowsInv, Isolated, NoFaults, TypeInv', LawInv', AnswersInv',
         [RuntimeNext]_allVars
  PROVE  RowsInv'
<1>1. ASSUME NEW c \in Callers, NEW a \in Aggregates, NEW op \in {"start", "cancel"},
             FindRow(c, a, NewRequest(op, a))
      PROVE  RowsInv'
  <2>1. PICK q : q = NewRequest(op, a)
    OBVIOUS
  <2>2. q \in Request /\ q.call = 0
    BY <2>1, NewRequestType, NewRequestCall DEF AllInv, RuntimeInv
  <2>3. q.agg = a /\ q.read = rows[a]
    BY <2>1 DEF NewRequest
  <2>4. FindRow(c, a, q)
    BY <1>1, <2>1
  <2> QED
    BY <2>2, <2>3, <2>4, FindRowKeepsRows
<1>2. ASSUME NEW c \in Callers, NEW a \in Aggregates, NEW t \in TransitionIds,
             FindRow(c, a, NewTransition(a, t))
      PROVE  RowsInv'
  <2>1. PICK q : q = NewRequest("transition", a)
    OBVIOUS
  <2>2. PICK r : r = [q EXCEPT !.tid = t]
    OBVIOUS
  <2>3. q \in Request /\ q.call = 0 /\ q.agg = a /\ q.read = rows[a]
    BY <2>1, NewRequestType, NewRequestCall DEF AllInv, RuntimeInv, NewRequest
  <2>4. r \in Request /\ r.call = 0 /\ r.agg = a /\ r.read = rows[a]
    BY <2>2, <2>3 DEF Request
  <2>5. FindRow(c, a, r)
    BY <1>2, <2>1, <2>2 DEF NewTransition
  <2> QED
    BY <2>4, <2>5, FindRowKeepsRows
<1>3. ASSUME NEW c \in Callers, Serve(c)
      PROVE  RowsInv'
  BY <1>3, CreateKeepsRows, KeyIsTakenKeepsRows, RefetchKeepsRows, CallsEngineKeepsRows,
     ContinueKeepsRows, EngineReturnsKeepsRows, UpdateKeepsRows, AppendEventKeepsRows
     DEF Serve
<1>4. CASE RuntimeNext
  <2>1. PICK c \in Callers :
          \/ \E a \in Aggregates, l \in DOMAIN Definitions, k \in Keys \cup {NoKey} :
               ProvisionLooksUp(c, a, l, k)
          \/ \E a \in Aggregates, op \in {"start", "cancel"} :
               FindRow(c, a, NewRequest(op, a))
          \/ \E a \in Aggregates, t \in TransitionIds : FindRow(c, a, NewTransition(a, t))
          \/ Serve(c)
    BY <1>4, NothingFails DEF RuntimeNext
  <2> QED
    BY <1>1, <1>2, <1>3, <2>1, ProvisionLooksUpKeepsRows
<1>5. CASE UNCHANGED allVars
  <2>1. UNCHANGED <<instances, outcome, pc, call, rows, loopEvents, requests, rpc, serving>>
    BY <1>5 DEF allVars, engineVars, vars, runtimeVars, database
  <2>2. \A d \in Callers : Req(d)' = Req(d) /\ EngineDid(d)' = EngineDid(d)
    BY <2>1 DEF Req, EngineDid, HasSaved
  <2>3. \A a \in Aggregates : AtRest(a)' => AtRest(a)
    BY <2>1, <2>2 DEF AtRest
  <2> QED
    BY <2>1, <2>2, <2>3 DEF RowsInv
<1> QED
  BY <1>4, <1>5

LEMMA RuntimeInitRows ==
  ASSUME RuntimeInit
  PROVE  RowsInv
<1>1. /\ \A a \in Aggregates : rows[a] = NoRow /\ instances[a] = NoInstance
                               /\ loopEvents[a] = <<>>
      /\ \A c \in Callers : rpc[c] = "idle"
  BY DEF RuntimeInit, Init
<1> QED
  BY <1>1 DEF RowsInv, RowStands

LEMMA RowsAlways ==
  ASSUME Isolated, NoFaults
  PROVE  RuntimeSpec => []RowsInv
<1>1. RuntimeInit => RowsInv
  BY RuntimeInitRows
<1>2. ASSUME RowsInv, AllInv, AllInv', ReplayInv, ReplayInv', [RuntimeNext]_allVars
      PROVE  RowsInv'
  <2>1. TypeInv' /\ AnswersInv' /\ LawInv'
    BY <1>2 DEF AllInv, AnswersInv, LiveInv, ReplayInv
  <2> QED
    BY <1>2, <2>1, RuntimeNextKeepsRows
<1>3. Spec => [](ReplayInv /\ AnswersInv)
  BY ReplayAlways
<1>4. RuntimeSpec => Spec
  BY RuntimeImplementsEngine DEF RunsTheEngine
<1>5. RuntimeSpec => []AllInv
  BY RuntimeTruth
<1> QED
  BY <1>1, <1>2, <1>3, <1>4, <1>5, PTL DEF RuntimeSpec

(* With clients that wait for their answer and no fault, the events of a   *)
(* run chain, from the initial state of its definition to the state of its *)
(* row, whenever no request is at work on it.                              *)
THEOREM EventsChainAlways ==
  ASSUME Isolated, NoFaults
  PROVE  RuntimeSpec => []EventsChain
<1>1. RowsInv => EventsChain
  BY RowsAreRight
<1> QED
  BY <1>1, RowsAlways, PTL

(* Under the same hypotheses the row and the engine's own instance agree   *)
(* whenever no request is at work on them: a provisioned run has no        *)
(* instance, an active or open one has the state of its instance.          *)
THEOREM RowsFollowTheEngine ==
  ASSUME Isolated, NoFaults
  PROVE  RuntimeSpec => []RowFollowsEngine
<1>1. RowsInv => RowFollowsEngine
  BY RowsAreRight
<1> QED
  BY <1>1, RowsAlways, PTL
=============================================================================
