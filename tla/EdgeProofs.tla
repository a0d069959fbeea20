------------------------------ MODULE EdgeProofs ------------------------------
(***************************************************************************)
(* Proofs about the parts that RuntimeEdges runs side by side:             *)
(* RuntimeGate, GovernedTool, OpenClawBus, StatusClient, ModelCalls,       *)
(* GovernedEvidence and RunReads, each with an inductive invariant of its  *)
(* own, for any keys, tokens, times, events, logs, answers, batches, rows. *)
(***************************************************************************)
EXTENDS RuntimeGate, OpenClawBus, StatusClient, ModelCalls, GovernedEvidence, RunReads,
        GovernedTool, FiniteSetTheorems, SequenceTheorems, WellFoundedInduction, TLAPS

-----------------------------------------------------------------------------
(* RuntimeGate.                                                            *)

UnderWay == {"primary", "clear", "touch", "grace"}

Stages == {"none", "primary", "clear", "touch", "grace", "gate", "handler", "answered"}

Bearers == Tokens \cup AlienTokens \cup {NoToken}

RowIds == KeyRows \cup {NoToken}

RequestRecords ==
  [at : Stages, side : Sides, token : Bearers, began : Nat, id : RowIds,
   valid : BOOLEAN, invalid : BOOLEAN, hit : Int, status : Int]

GateTypes ==
  /\ keys \in [KeyRows -> KeyRecords]
  /\ http \in [HttpRequests -> RequestRecords]
  /\ clock \in Nat

(* A token that was handed out is in one place: the key or the grace key   *)
(* of one row.                                                             *)
TokensApart ==
  /\ \A k \in KeyRows : {keys[k].key, keys[k].grace} \subseteq used \cup {NoToken}
  /\ \A j, k \in KeyRows : keys[j].key \in Tokens => keys[k].grace # keys[j].key
  /\ \A j, k \in KeyRows : keys[j].key \in Tokens /\ keys[k].key = keys[j].key => j = k
  /\ adapter = "memory" => \A k \in KeyRows : keys[k].grace = NoToken

(* Nobody can make this token a key any more.                              *)
Spent(t, ks, us) == t \in us /\ \A k \in KeyRows : ks[k].key # t

(* What the locals of a request must say, before the witnesses of this     *)
(* moment are taken, and after.                                            *)
Excused(q, ks, us) ==
  /\ q.at \in UnderWay => q.token \in Tokens
  /\ q.at \in {"clear", "touch"} => q.valid \/ Valid(q.token, ks, q.began)
  /\ q.at \in {"gate", "handler"} => q.valid
  /\ q.at = "grace" => \/ q.invalid
                       \/ ~Valid(q.token, ks, q.began)
                       \/ Spent(q.token, ks, us)
  /\ q.status = 401 => q.invalid

Truthful(q, ks, us) ==
  /\ q.at \in UnderWay =>
       /\ q.token \in Tokens
       /\ Valid(q.token, ks, q.began) => q.valid
       /\ ~Valid(q.token, ks, q.began) => q.invalid
  /\ q.at \in {"clear", "touch", "gate", "handler"} => q.valid
  /\ q.at = "grace" => q.invalid \/ Spent(q.token, ks, us)
  /\ q.status = 401 => q.invalid

AuthInv ==
  /\ GateTypes
  /\ TokensApart
  /\ \A r \in HttpRequests : Truthful(http[r], keys, used)

(* The locals of a request change one field at a time.                     *)
LEMMA NoRequestIsRecord == NoRequest \in RequestRecords
  BY DEF NoRequest, RequestRecords, Stages, Sides, Bearers, RowIds

LEMMA StageChanges ==
  ASSUME NEW p \in RequestRecords, NEW a \in Stages, NEW q, q = [p EXCEPT !.at = a]
  PROVE  /\ q \in RequestRecords /\ q.at = a
         /\ q.token = p.token /\ q.began = p.began /\ q.status = p.status
         /\ q.valid = p.valid /\ q.invalid = p.invalid
         /\ q.hit = p.hit /\ q.side = p.side
  BY DEF RequestRecords

LEMMA StatusChanges ==
  ASSUME NEW p \in RequestRecords, NEW n \in Int, NEW q, q = [p EXCEPT !.status = n]
  PROVE  /\ q \in RequestRecords /\ q.status = n
         /\ q.at = p.at /\ q.token = p.token /\ q.invalid = p.invalid
         /\ q.hit = p.hit /\ q.side = p.side
  BY DEF RequestRecords

LEMMA SideChanges ==
  ASSUME NEW p \in RequestRecords, NEW side \in Sides, NEW q, q = [p EXCEPT !.side = side]
  PROVE  /\ q \in RequestRecords /\ q.at = p.at /\ q.status = p.status
         /\ q.hit = p.hit /\ q.side = side
  BY DEF RequestRecords

LEMMA HitChanges ==
  ASSUME NEW p \in RequestRecords, NEW n \in Int, NEW q, q = [p EXCEPT !.hit = n]
  PROVE  /\ q \in RequestRecords /\ q.at = p.at /\ q.status = p.status
         /\ q.valid = p.valid /\ q.invalid = p.invalid
         /\ q.hit = n /\ q.side = p.side
  BY DEF RequestRecords

LEMMA TokenChanges ==
  ASSUME NEW p \in RequestRecords, NEW t \in Bearers, NEW q, q = [p EXCEPT !.token = t]
  PROVE  q \in RequestRecords /\ q.token = t /\ q.status = p.status /\ q.hit = p.hit
  BY DEF RequestRecords

LEMMA BeginningChanges ==
  ASSUME NEW p \in RequestRecords, NEW c \in Nat, NEW q, q = [p EXCEPT !.began = c]
  PROVE  q \in RequestRecords /\ q.token = p.token /\ q.status = p.status /\ q.hit = p.hit
  BY DEF RequestRecords

LEMMA InvalidChanges ==
  ASSUME NEW p \in RequestRecords, NEW i \in BOOLEAN, NEW q, q = [p EXCEPT !.invalid = i]
  PROVE  /\ q \in RequestRecords /\ q.invalid = i
         /\ q.at = p.at /\ q.status = p.status
         /\ q.hit = p.hit /\ q.side = p.side
  BY DEF RequestRecords

LEMMA ValidChanges ==
  ASSUME NEW p \in RequestRecords, NEW v \in BOOLEAN, NEW q, q = [p EXCEPT !.valid = v]
  PROVE  /\ q \in RequestRecords /\ q.valid = v
         /\ q.at = p.at /\ q.status = p.status
         /\ q.hit = p.hit /\ q.side = p.side
  BY DEF RequestRecords

LEMMA WitnessesAreTaken ==
  ASSUME NEW h \in [HttpRequests -> RequestRecords], NEW ks, NEW us,
         \A r \in HttpRequests : Excused(h[r], ks, us)
  PROVE  /\ Witness(h, ks) \in [HttpRequests -> RequestRecords]
         /\ \A r \in HttpRequests : Truthful(Witness(h, ks)[r], ks, us)
<1> SUFFICES ASSUME NEW r \in HttpRequests
             PROVE  /\ Witness(h, ks)[r] \in RequestRecords
                    /\ Truthful(Witness(h, ks)[r], ks, us)
  BY DEF Witness
<1> DEFINE q == h[r]
           w == Witness(h, ks)[r]
           v == Valid(q.token, ks, q.began)
<1>1. q \in RequestRecords /\ Excused(q, ks, us) /\ v \in BOOLEAN
  BY DEF Valid
<1>2. CASE q.at \in UnderWay
  <2>1. w = [q EXCEPT !.valid = q.valid \/ v, !.invalid = q.invalid \/ ~v]
    BY <1>2 DEF Witness, UnderWay
  <2> HIDE DEF w, q
  <2>2. /\ w.at = q.at /\ w.token = q.token /\ w.began = q.began /\ w.status = q.status
        /\ w.valid = (q.valid \/ v) /\ w.invalid = (q.invalid \/ ~v)
        /\ w \in RequestRecords
    BY <1>1, <2>1 DEF RequestRecords
  <2>3. Truthful(w, ks, us)
    <3>1. Valid(w.token, ks, w.began) = v /\ (w.valid <=> q.valid \/ v) /\ (w.invalid <=> q.invalid \/ ~v)
      BY <2>2
    <3> HIDE DEF v
    <3>2. /\ v => w.valid
          /\ ~v => w.invalid
          /\ q.valid => w.valid
          /\ q.invalid => w.invalid
      BY <1>1, <3>1
    <3>3. /\ q.at \in UnderWay => q.token \in Tokens
          /\ q.at \in {"clear", "touch"} => q.valid \/ v
          /\ q.at \in {"gate", "handler"} => q.valid
          /\ q.at = "grace" => q.invalid \/ ~v \/ Spent(q.token, ks, us)
          /\ q.status = 401 => q.invalid
      BY <1>1 DEF Excused, v
    <3> QED
      BY <2>2, <3>1, <3>2, <3>3 DEF Truthful
  <2> QED
    BY <2>2, <2>3 DEF w
<1>3. CASE q.at \notin UnderWay
  <2>1. w = q
    BY <1>3 DEF Witness, UnderWay
  <2> QED
    BY <1>1, <1>3, <2>1 DEF Truthful, Excused, UnderWay
<1> QED
  BY <1>2, <1>3

(* A step of a request, which leaves the keys alone.                       *)
LEMMA GoesKeepsInv ==
  ASSUME AuthInv, NEW r \in HttpRequests, NEW q \in RequestRecords, Goes(r, q),
         Excused(q, keys, used), UNCHANGED <<adapter, clock, keys, used>>
  PROVE  AuthInv'
<1> DEFINE h == [http EXCEPT ![r] = q]
<1>1. h \in [HttpRequests -> RequestRecords]
  BY DEF AuthInv, GateTypes
<1>2. \A s \in HttpRequests : Excused(h[s], keys, used)
  BY DEF AuthInv, GateTypes, Truthful, Excused, UnderWay
<1>3. http' = Witness(h, keys)
  BY DEF Goes
<1>4. http' \in [HttpRequests -> RequestRecords] /\ \A s \in HttpRequests : Truthful(http'[s], keys, used)
  BY <1>1, <1>2, <1>3, WitnessesAreTaken
<1> QED
  BY <1>4 DEF AuthInv, GateTypes, TokensApart, Truthful, Valid, Spent

(* What Reply and LetIn leave of a request.                                *)
Replied(p, status) ==
  [NoRequest EXCEPT !.at = "answered", !.status = status, !.side = p.side, !.hit = p.hit,
                    !.invalid = p.invalid]

Admitted(p) == [NoRequest EXCEPT !.at = "gate", !.side = p.side, !.valid = p.valid]

LEMMA ReplyRecord ==
  ASSUME NEW p \in RequestRecords, NEW status \in Int,
         NEW q, q = Replied(p, status)
  PROVE  /\ q \in RequestRecords /\ q.at = "answered" /\ q.status = status
         /\ q.invalid = p.invalid /\ q.hit = p.hit /\ q.side = p.side
<1>1. PICK side \in Sides, hit \in Int, invalid \in BOOLEAN :
        side = p.side /\ hit = p.hit /\ invalid = p.invalid
  BY DEF RequestRecords
<1>2. PICK a : a = [NoRequest EXCEPT !.at = "answered"]
  OBVIOUS
<1>3. PICK b : b = [a EXCEPT !.status = status]
  OBVIOUS
<1>4. PICK c : c = [b EXCEPT !.side = side]
  OBVIOUS
<1>5. PICK d : d = [c EXCEPT !.hit = hit]
  OBVIOUS
<1>6. q = [d EXCEPT !.invalid = invalid]
  BY <1>1, <1>2, <1>3, <1>4, <1>5 DEF Replied
<1>7. a \in RequestRecords /\ a.at = "answered"
  BY <1>2, NoRequestIsRecord, StageChanges DEF Stages
<1>8. b \in RequestRecords /\ b.at = "answered" /\ b.status = status
  BY <1>3, <1>7, StatusChanges
<1>9. c \in RequestRecords /\ c.at = "answered" /\ c.status = status /\ c.side = side
  BY <1>4, <1>8, SideChanges
<1>10. d \in RequestRecords /\ d.at = "answered" /\ d.status = status /\ d.side = side /\ d.hit = hit
  BY <1>5, <1>9, HitChanges
<1> QED
  BY <1>1, <1>6, <1>10, InvalidChanges

LEMMA ReplyKeepsInv ==
  ASSUME AuthInv, NEW r \in HttpRequests, NEW status \in {200, 401, 403, 404, 429, 500, 503},
         Reply(r, status), status = 401 => http[r].invalid,
         UNCHANGED <<adapter, clock, keys, used>>
  PROVE  AuthInv'
<1>1. PICK q : q = Replied(http[r], status) /\ Goes(r, q)
  BY DEF Reply, Replied
<1>2. http[r] \in RequestRecords /\ status \in Int
  BY DEF AuthInv, GateTypes
<1>3. q \in RequestRecords /\ q.at = "answered" /\ q.status = status /\ q.invalid = http[r].invalid
  BY <1>1, <1>2, ReplyRecord
<1>4. Excused(q, keys, used)
  BY <1>3 DEF Excused, UnderWay
<1> QED
  BY <1>1, <1>3, <1>4, GoesKeepsInv

LEMMA LetInRecord ==
  ASSUME NEW p \in RequestRecords,
         NEW q, q = Admitted(p)
  PROVE  /\ q \in RequestRecords /\ q.at = "gate" /\ q.status = 0 /\ q.valid = p.valid
         /\ q.hit = -1 /\ q.side = p.side
<1>1. PICK side \in Sides, valid \in BOOLEAN : side = p.side /\ valid = p.valid
  BY DEF RequestRecords
<1>2. PICK a : a = [NoRequest EXCEPT !.at = "gate"]
  OBVIOUS
<1>3. PICK b : b = [a EXCEPT !.side = side]
  OBVIOUS
<1>4. q = [b EXCEPT !.valid = valid]
  BY <1>1, <1>2, <1>3 DEF Admitted
<1>5. NoRequest.status = 0 /\ NoRequest.hit = -1
  BY DEF NoRequest
<1>6. a \in RequestRecords /\ a.at = "gate" /\ a.status = 0 /\ a.hit = -1
  BY <1>2, <1>5, NoRequestIsRecord, StageChanges DEF Stages
<1>7. b \in RequestRecords /\ b.at = "gate" /\ b.status = 0 /\ b.hit = -1 /\ b.side = side
  BY <1>3, <1>6, SideChanges
<1> QED
  BY <1>1, <1>4, <1>7, ValidChanges

LEMMA LetInKeepsInv ==
  ASSUME AuthInv, NEW r \in HttpRequests, LetIn(r), http[r].valid,
         UNCHANGED <<adapter, clock, keys, used>>
  PROVE  AuthInv'
<1>1. PICK q : q = Admitted(http[r]) /\ Goes(r, q)
  BY DEF LetIn, Admitted
<1>2. http[r] \in RequestRecords
  BY DEF AuthInv, GateTypes
<1>3. q \in RequestRecords /\ q.at = "gate" /\ q.status = 0 /\ q.valid = http[r].valid
  BY <1>1, <1>2, LetInRecord
<1>4. Excused(q, keys, used)
  BY <1>3 DEF Excused, UnderWay
<1> QED
  BY <1>1, <1>3, <1>4, GoesKeepsInv

(* The two look-ups.                                                       *)
LEMMA LookupKeepsInv ==
  ASSUME AuthInv, NEW r \in HttpRequests,
         FromMemory(r) \/ PrimaryLookup(r) \/ GraceLookup(r)
  PROVE  AuthInv'
<1> DEFINE t == http[r].token
           v == Valid(t, keys, http[r].began)
<1>1. http[r] \in RequestRecords /\ http[r].at \in UnderWay /\ t \in Tokens /\ Truthful(http[r], keys, used)
      /\ UNCHANGED <<adapter, clock, keys, used>>
  BY DEF AuthInv, GateTypes, FromMemory, PrimaryLookup, GraceLookup, Truthful, UnderWay
<1>2. RowsWith(r) # {} => v
  BY DEF RowsWith, Valid
<1>3. GraceRowsWith(r) # {} => v
  BY DEF GraceRowsWith, Valid
<1>4. RowsWith(r) = {} /\ GraceRowsWith(r) = {} => ~v
  BY DEF RowsWith, GraceRowsWith, Valid
<1>5. CASE FromMemory(r)
  <2>1. GraceRowsWith(r) = {}
    BY <1>1, <1>5, GateAssumption DEF FromMemory, AuthInv, TokensApart, GraceRowsWith
  <2>2. CASE RowsWith(r) # {}
    BY <1>1, <1>2, <1>5, <2>2, LetInKeepsInv DEF FromMemory, Truthful
  <2>3. CASE RowsWith(r) = {}
    BY <1>1, <1>4, <1>5, <2>1, <2>3, ReplyKeepsInv DEF FromMemory, Truthful
  <2> QED
    BY <2>2, <2>3
<1>6. CASE PrimaryLookup(r) /\ RowsWith(r) = {} /\ Goes(r, [http[r] EXCEPT !.at = "grace"])
  <2>0. PICK q : q = [http[r] EXCEPT !.at = "grace"]
    OBVIOUS
  <2>1. q \in RequestRecords /\ q.token = t /\ q.began = http[r].began /\ q.at = "grace"
        /\ q.status = http[r].status /\ q.invalid = http[r].invalid
    BY <1>1, <2>0, StageChanges DEF Stages
  <2>2. v => Spent(t, keys, used)
    <3> SUFFICES ASSUME v PROVE Spent(t, keys, used)
      OBVIOUS
    <3>1. PICK k \in KeyRows : keys[k].status = "ACTIVE" /\ keys[k].grace = t
      BY <1>6 DEF Valid, RowsWith
    <3>2. t \in used
      BY <1>1, <3>1, GateAssumption DEF AuthInv, TokensApart
    <3>3. \A j \in KeyRows : keys[j].key # t
      BY <1>1, <3>1 DEF AuthInv, TokensApart
    <3> QED
      BY <3>2, <3>3 DEF Spent
  <2>3. Excused(q, keys, used)
    BY <1>1, <2>1, <2>2 DEF Excused, Truthful
  <2> QED
    BY <1>1, <1>6, <2>0, <2>1, <2>3, GoesKeepsInv
<1>7. CASE PrimaryLookup(r) /\ RowsWith(r) # {}
  <2>1. \E k \in RowsWith(r), a \in {"clear", "touch"} : Goes(r, [http[r] EXCEPT !.id = k, !.at = a])
    <3>1. PICK k \in RowsWith(r) :
            Goes(r, [http[r] EXCEPT !.id = k,
              !.at = IF keys[k].grace # NoToken /\ keys[k].expires <= clock THEN "clear" ELSE "touch"])
      BY <1>7 DEF PrimaryLookup
    <3>2. CASE keys[k].grace # NoToken /\ keys[k].expires <= clock
      BY <3>1, <3>2
    <3>3. CASE ~(keys[k].grace # NoToken /\ keys[k].expires <= clock)
      BY <3>1, <3>3
    <3> QED
      BY <3>2, <3>3
  <2>2. PICK k \in RowsWith(r), a \in {"clear", "touch"} :
          \E q : q = [http[r] EXCEPT !.id = k, !.at = a] /\ Goes(r, q)
    BY <2>1
  <2>3. PICK q : q = [http[r] EXCEPT !.id = k, !.at = a] /\ Goes(r, q)
    BY <2>2
  <2>4. k \in RowIds /\ a \in Stages
    BY DEF RowsWith, RowIds, Stages
  <2>5. q \in RequestRecords /\ q.token = t /\ q.began = http[r].began /\ q.at = a
        /\ q.status = http[r].status /\ q.invalid = http[r].invalid
    <3>1. PICK p : p = [http[r] EXCEPT !.id = k]
      OBVIOUS
    <3>2. /\ p \in RequestRecords /\ p.token = t /\ p.began = http[r].began
          /\ p.status = http[r].status /\ p.invalid = http[r].invalid
      BY <1>1, <2>4, <3>1 DEF RequestRecords
    <3>3. q = [p EXCEPT !.at = a]
      BY <2>3, <3>1
    <3> QED
      BY <2>4, <3>2, <3>3, StageChanges
  <2>6. Excused(q, keys, used)
    BY <1>1, <1>2, <1>7, <2>5 DEF Excused, Truthful
  <2> QED
    BY <1>1, <2>3, <2>5, <2>6, GoesKeepsInv
<1>8. CASE GraceLookup(r) /\ GraceRowsWith(r) # {}
  <2>0. PICK q : q = [http[r] EXCEPT !.at = "touch"]
    OBVIOUS
  <2>1. q \in RequestRecords /\ q.token = t /\ q.began = http[r].began /\ q.at = "touch"
        /\ q.status = http[r].status /\ q.invalid = http[r].invalid
    BY <1>1, <2>0, StageChanges DEF Stages
  <2>2. Excused(q, keys, used)
    BY <1>1, <1>3, <1>8, <2>1 DEF Excused, Truthful
  <2> QED
    BY <1>1, <1>8, <2>0, <2>1, <2>2, GoesKeepsInv DEF GraceLookup
<1>9. CASE GraceLookup(r) /\ GraceRowsWith(r) = {}
  <2>1. http[r].at = "grace"
    BY <1>9 DEF GraceLookup
  <2>2. Spent(t, keys, used) => RowsWith(r) = {}
    BY DEF Spent, RowsWith
  <2>3. http[r].invalid
    BY <1>1, <1>4, <1>9, <2>1, <2>2 DEF Truthful
  <2> QED
    BY <1>1, <1>9, <2>3, ReplyKeepsInv DEF GraceLookup
<1> QED
  BY <1>5, <1>6, <1>7, <1>8, <1>9 DEF PrimaryLookup

(* The other steps of a request that leave the keys alone.                 *)
LEMMA RequestKeepsInv ==
  ASSUME AuthInv, NEW r \in HttpRequests,
         \/ Touch(r) \/ PassesGate(r) \/ Handles(r) \/ LookupFails(r)
         \/ \E s \in Sides, t \in Bearers : Arrives(r, s, t)
  PROVE  AuthInv'
<1>1. http[r] \in RequestRecords /\ Truthful(http[r], keys, used) /\ clock \in Nat
  BY DEF AuthInv, GateTypes
<1>2. CASE Touch(r)
  BY <1>1, <1>2, LetInKeepsInv DEF Touch, Truthful
<1>3. CASE PassesGate(r)
  <2>1. UNCHANGED <<adapter, clock, keys, used>> /\ http[r].at = "gate"
    BY <1>3 DEF PassesGate
  <2>2. CASE Reply(r, 500) \/ Reply(r, 403) \/ Reply(r, 429)
    BY <2>1, <2>2, ReplyKeepsInv
  <2>3. CASE Goes(r, [http[r] EXCEPT !.at = "handler", !.hit = clock])
    <3>1. PICK q : q = [http[r] EXCEPT !.at = "handler", !.hit = clock] /\ Goes(r, q)
      BY <2>3
    <3>2. q \in RequestRecords /\ q.at = "handler" /\ q.valid = http[r].valid
          /\ q.status = http[r].status /\ q.invalid = http[r].invalid
      <4>1. PICK p : p = [http[r] EXCEPT !.at = "handler"]
        OBVIOUS
      <4>2. /\ p \in RequestRecords /\ p.at = "handler" /\ p.valid = http[r].valid
            /\ p.status = http[r].status /\ p.invalid = http[r].invalid
        BY <1>1, <4>1, StageChanges DEF Stages
      <4>3. q = [p EXCEPT !.hit = clock] /\ clock \in Int
        BY <1>1, <3>1, <4>1
      <4> QED
        BY <4>2, <4>3, HitChanges
    <3>3. Excused(q, keys, used)
      BY <1>1, <2>1, <3>2 DEF Excused, Truthful, UnderWay
    <3> QED
      BY <2>1, <3>1, <3>2, <3>3, GoesKeepsInv
  <2> QED
    BY <1>3, <2>2, <2>3 DEF PassesGate
<1>4. CASE Handles(r) \/ LookupFails(r)
  BY <1>4, ReplyKeepsInv DEF Handles, LookupFails
<1>5. ASSUME NEW s \in Sides, NEW t \in Bearers, Arrives(r, s, t)
      PROVE  AuthInv'
  <2>1. UNCHANGED <<adapter, clock, keys, used>>
    BY <1>5 DEF Arrives
  <2>2. PICK p : p = [NoRequest EXCEPT !.side = s, !.token = t, !.began = clock]
    OBVIOUS
  <2>3. p \in RequestRecords /\ p.token = t /\ p.status = 0
    <3>1. PICK a : a = [NoRequest EXCEPT !.side = s]
      OBVIOUS
    <3>2. PICK b : b = [a EXCEPT !.token = t]
      OBVIOUS
    <3>3. p = [b EXCEPT !.began = clock]
      BY <2>2, <3>1, <3>2
    <3>4. NoRequest.status = 0
      BY DEF NoRequest
    <3>5. a \in RequestRecords /\ a.status = 0
      BY <3>1, <3>4, NoRequestIsRecord, SideChanges
    <3>6. b \in RequestRecords /\ b.token = t /\ b.status = 0
      BY <3>2, <3>5, TokenChanges
    <3> QED
      BY <1>1, <3>3, <3>6, BeginningChanges
  <2>4. \/ Goes(r, [p EXCEPT !.at = "answered", !.status = 503])
        \/ Goes(r, [p EXCEPT !.at = "primary"]) /\ HasBearer(t) /\ IsKeyToken(t)
        \/ Goes(r, [p EXCEPT !.at = "answered", !.status = 401, !.invalid = TRUE])
    <3>1. Goes(r, IF s = "read" /\ ~tracing
                  THEN [p EXCEPT !.at = "answered", !.status = 503]
                  ELSE IF HasBearer(t) /\ IsKeyToken(t)
                  THEN [p EXCEPT !.at = "primary"]
                  ELSE [p EXCEPT !.at = "answered", !.status = 401, !.invalid = TRUE])
      BY <1>5, <2>2 DEF Arrives
    <3>2. CASE s = "read" /\ ~tracing
      BY <3>1, <3>2
    <3>3. CASE ~(s = "read" /\ ~tracing) /\ HasBearer(t) /\ IsKeyToken(t)
      BY <3>1, <3>3
    <3>4. CASE ~(s = "read" /\ ~tracing) /\ ~(HasBearer(t) /\ IsKeyToken(t))
      BY <3>1, <3>4
    <3> QED
      BY <3>2, <3>3, <3>4
  <2>5. CASE Goes(r, [p EXCEPT !.at = "answered", !.status = 503])
    <3>1. PICK q : q = [p EXCEPT !.at = "answered", !.status = 503] /\ Goes(r, q)
      BY <2>5
    <3>2. q \in RequestRecords /\ q.at = "answered" /\ q.status = 503
      <4>1. PICK a : a = [p EXCEPT !.at = "answered"]
        OBVIOUS
      <4>2. q = [a EXCEPT !.status = 503]
        BY <3>1, <4>1
      <4>3. a \in RequestRecords /\ a.at = "answered"
        BY <2>3, <4>1, StageChanges DEF Stages
      <4> QED
        BY <4>2, <4>3, StatusChanges
    <3>3. Excused(q, keys, used)
      BY <3>2 DEF Excused, UnderWay
    <3> QED
      BY <2>1, <3>1, <3>2, <3>3, GoesKeepsInv
  <2>6. CASE Goes(r, [p EXCEPT !.at = "primary"]) /\ HasBearer(t) /\ IsKeyToken(t)
    <3>1. PICK q : q = [p EXCEPT !.at = "primary"] /\ Goes(r, q)
      BY <2>6
    <3>2. q \in RequestRecords /\ q.at = "primary" /\ q.status = 0 /\ q.token = t
      BY <2>3, <3>1, StageChanges DEF Stages
    <3>3. t \in Tokens
      BY <2>6 DEF HasBearer, IsKeyToken, Bearers
    <3>4. Excused(q, keys, used)
      BY <3>2, <3>3 DEF Excused, UnderWay
    <3> QED
      BY <2>1, <3>1, <3>2, <3>4, GoesKeepsInv
  <2>7. CASE Goes(r, [p EXCEPT !.at = "answered", !.status = 401, !.invalid = TRUE])
    <3>1. PICK q : q = [p EXCEPT !.at = "answered", !.status = 401, !.invalid = TRUE] /\ Goes(r, q)
      BY <2>7
    <3>2. q \in RequestRecords /\ q.at = "answered" /\ q.invalid = TRUE
      <4>1. PICK a : a = [p EXCEPT !.at = "answered"]
        OBVIOUS
      <4>2. PICK b : b = [a EXCEPT !.status = 401]
        OBVIOUS
      <4>3. q = [b EXCEPT !.invalid = TRUE]
        BY <3>1, <4>1, <4>2
      <4>4. a \in RequestRecords /\ a.at = "answered"
        BY <2>3, <4>1, StageChanges DEF Stages
      <4>5. b \in RequestRecords /\ b.at = "answered"
        BY <4>2, <4>4, StatusChanges
      <4> QED
        BY <4>3, <4>5, InvalidChanges
    <3>3. Excused(q, keys, used)
      BY <3>2 DEF Excused, UnderWay
    <3> QED
      BY <2>1, <3>1, <3>2, <3>3, GoesKeepsInv
  <2> QED
    BY <2>4, <2>5, <2>6, <2>7
<1> QED
  BY <1>2, <1>3, <1>4, <1>5

(* The keys change: by a clearing, or by an operator.                      *)
LEMMA KeysKeepInv ==
  ASSUME AuthInv, NEW ks \in [KeyRows -> KeyRecords], NEW h \in [HttpRequests -> RequestRecords],
         keys' = ks, http' = Witness(h, ks), UNCHANGED <<adapter, clock>>,
         TokensApart', used \subseteq used',
         \A r \in HttpRequests :
           \/ h[r] = http[r]
           \/ http[r].at = "clear" /\ h[r] = [http[r] EXCEPT !.at = "touch"],
         \A t \in used : Spent(t, keys, used) => Spent(t, ks, used)
  PROVE  AuthInv'
<1>1. ASSUME NEW r \in HttpRequests
      PROVE  Excused(h[r], ks, used')
  <2>1. http[r] \in RequestRecords /\ Truthful(http[r], keys, used)
    BY DEF AuthInv, GateTypes
  <2>2. Spent(http[r].token, keys, used) => Spent(http[r].token, ks, used')
    BY DEF Spent
  <2>3. CASE h[r] = http[r]
    BY <2>1, <2>2, <2>3 DEF Truthful, Excused, UnderWay
  <2>4. CASE http[r].at = "clear" /\ h[r] = [http[r] EXCEPT !.at = "touch"]
    <3>1. h[r].at = "touch" /\ h[r].token = http[r].token /\ h[r].valid = http[r].valid
          /\ h[r].status = http[r].status /\ h[r].invalid = http[r].invalid
      BY <2>1, <2>4 DEF RequestRecords
    <3> QED
      BY <2>1, <2>4, <3>1 DEF Truthful, Excused, UnderWay
  <2> QED
    BY <2>3, <2>4
<1>2. Witness(h, ks) \in [HttpRequests -> RequestRecords]
      /\ \A r \in HttpRequests : Truthful(Witness(h, ks)[r], ks, used')
  BY <1>1, WitnessesAreTaken
<1> QED
  BY <1>2 DEF AuthInv, GateTypes

LEMMA ClearGraceKeepsInv ==
  ASSUME AuthInv, NEW r \in HttpRequests, ClearGrace(r)
  PROVE  AuthInv'
<1> DEFINE ks == [keys EXCEPT ![http[r].id].grace = NoToken, ![http[r].id].expires = 0]
           h == [http EXCEPT ![r].at = "touch"]
<1>1. http[r] \in RequestRecords /\ http[r].at = "clear" /\ keys \in [KeyRows -> KeyRecords]
      /\ http \in [HttpRequests -> RequestRecords]
      /\ keys' = ks /\ http' = Witness(h, ks) /\ UNCHANGED <<adapter, clock, used>>
  BY DEF AuthInv, GateTypes, ClearGrace
<1>2. \A k \in KeyRows : ks[k] = keys[k] \/ ks[k] = [keys[k] EXCEPT !.grace = NoToken, !.expires = 0]
  BY <1>1
<1>3. ks \in [KeyRows -> KeyRecords] /\ \A k \in KeyRows : ks[k].key = keys[k].key /\ ks[k].grace \in {keys[k].grace, NoToken}
  <2>1. \A k \in KeyRows : keys[k] \in KeyRecords /\ NoToken \in Tokens \cup {NoToken} /\ 0 \in Nat
    BY <1>1
  <2>2. \A k \in KeyRows : ks[k] \in KeyRecords /\ ks[k].key = keys[k].key /\ ks[k].grace \in {keys[k].grace, NoToken}
    <3> SUFFICES ASSUME NEW k \in KeyRows
                 PROVE  ks[k] \in KeyRecords /\ ks[k].key = keys[k].key /\ ks[k].grace \in {keys[k].grace, NoToken}
      OBVIOUS
    <3>1. PICK w, p : p = keys[k] /\ w = [p EXCEPT !.grace = NoToken, !.expires = 0]
      OBVIOUS
    <3>2. p \in KeyRecords
      BY <2>1, <3>1
    <3>3. w \in KeyRecords /\ w.key = p.key /\ w.grace = NoToken
      BY <3>1, <3>2 DEF KeyRecords
    <3> HIDE DEF ks
    <3> QED
      BY <1>2, <3>1, <3>2, <3>3
  <2>3. ks = [k \in KeyRows |-> ks[k]]
    BY <1>1
  <2> HIDE DEF ks
  <2> QED
    BY <2>2, <2>3
<1>4. h \in [HttpRequests -> RequestRecords]
      /\ \A s \in HttpRequests : h[s] = http[s] \/ (http[s].at = "clear" /\ h[s] = [http[s] EXCEPT !.at = "touch"])
  <2>1. PICK p, q : p = http[r] /\ q = [p EXCEPT !.at = "touch"]
    OBVIOUS
  <2>2. q \in RequestRecords
    BY <1>1, <2>1, StageChanges DEF Stages
  <2>3. h = [http EXCEPT ![r] = q]
    BY <1>1, <2>1
  <2> HIDE DEF h
  <2> QED
    BY <1>1, <2>1, <2>2, <2>3
<1> HIDE DEF ks, h
<1>5. TokensApart'
  BY <1>1, <1>3, GateAssumption DEF AuthInv, TokensApart
<1>6. \A t \in used : Spent(t, keys, used) => Spent(t, ks, used)
  BY <1>3 DEF Spent
<1> QED
  BY <1>1, <1>3, <1>4, <1>5, <1>6, KeysKeepInv

LEMMA OperatorKeepsInv ==
  ASSUME AuthInv, NEW k \in KeyRows,
         RevokeKey(k) \/ \E t \in Tokens : AddKey(k, t) \/ RotateKey(k, t)
  PROVE  AuthInv'
<1>1. /\ keys \in [KeyRows -> KeyRecords] /\ http \in [HttpRequests -> RequestRecords]
      /\ clock \in Nat /\ TokensApart
  BY DEF AuthInv, GateTypes
<1>2. CASE RevokeKey(k)
  <2> DEFINE ks == [keys EXCEPT ![k].status = "REVOKED"]
  <2>1. keys' = ks /\ http' = Witness(http, ks) /\ UNCHANGED <<adapter, clock, used>>
    BY <1>2 DEF RevokeKey, SetKeys
  <2>2. ks \in [KeyRows -> KeyRecords] /\ \A j \in KeyRows : ks[j].key = keys[j].key /\ ks[j].grace = keys[j].grace
    BY <1>1 DEF KeyRecords
  <2> HIDE DEF ks
  <2>3. TokensApart'
    BY <1>1, <2>1, <2>2 DEF TokensApart
  <2>4. \A t \in used : Spent(t, keys, used) => Spent(t, ks, used)
    BY <2>2 DEF Spent
  <2> QED
    BY <1>1, <2>1, <2>2, <2>3, <2>4, KeysKeepInv
<1>3. ASSUME NEW t \in Tokens, AddKey(k, t)
      PROVE  AuthInv'
  <2> DEFINE ks == [keys EXCEPT ![k].status = "ACTIVE", ![k].key = t]
  <2>1. keys' = ks /\ http' = Witness(http, ks) /\ used' = used \cup {t} /\ UNCHANGED <<adapter, clock>>
        /\ (t \notin used \/ keys[k].key = t)
    BY <1>3 DEF AddKey, SetKeys
  <2>2. ks \in [KeyRows -> KeyRecords] /\ ks[k].key = t /\ ks[k].grace = keys[k].grace
        /\ \A j \in KeyRows \ {k} : ks[j] = keys[j]
    BY <1>1 DEF KeyRecords
  <2> HIDE DEF ks
  <2>3. t \notin used => \A j \in KeyRows : keys[j].key # t /\ keys[j].grace # t
    BY <1>1, GateAssumption DEF TokensApart
  <2>4. TokensApart'
    BY <1>1, <2>1, <2>2, <2>3 DEF TokensApart
  <2>5. \A u \in used : Spent(u, keys, used) => Spent(u, ks, used)
    BY <2>1, <2>2 DEF Spent
  <2> QED
    BY <1>1, <2>1, <2>2, <2>4, <2>5, KeysKeepInv
<1>4. ASSUME NEW t \in Tokens, RotateKey(k, t)
      PROVE  AuthInv'
  <2> DEFINE ks == [keys EXCEPT ![k].key = t, ![k].grace = keys[k].key, ![k].expires = clock + GraceTicks]
  <2>1. keys' = ks /\ http' = Witness(http, ks) /\ used' = used \cup {t} /\ UNCHANGED <<adapter, clock>>
        /\ t \notin used /\ adapter = "db"
    BY <1>4 DEF RotateKey, SetKeys
  <2>2. ks \in [KeyRows -> KeyRecords] /\ ks[k].key = t /\ ks[k].grace = keys[k].key
        /\ \A j \in KeyRows \ {k} : ks[j] = keys[j]
    <3>1. PICK p, w : p = keys[k] /\ w = [p EXCEPT !.key = t, !.grace = p.key, !.expires = clock + GraceTicks]
      OBVIOUS
    <3>2. p \in KeyRecords /\ clock + GraceTicks \in Nat
      BY <1>1, <3>1, GateAssumption
    <3>3. w \in KeyRecords /\ w.key = t /\ w.grace = p.key
      BY <3>1, <3>2 DEF KeyRecords
    <3>4. ks = [keys EXCEPT ![k] = w]
      BY <1>1, <3>1
    <3> HIDE DEF ks
    <3> QED
      BY <1>1, <3>1, <3>3, <3>4
  <2> HIDE DEF ks
  <2>3. \A j \in KeyRows : keys[j].key # t /\ keys[j].grace # t
    BY <1>1, <2>1, GateAssumption DEF TokensApart
  <2>4. TokensApart'
    BY <1>1, <2>1, <2>2, <2>3, GateAssumption DEF TokensApart
  <2>5. \A u \in used : Spent(u, keys, used) => Spent(u, ks, used)
    BY <2>1, <2>2 DEF Spent
  <2> QED
    BY <1>1, <2>1, <2>2, <2>4, <2>5, KeysKeepInv
<1> QED
  BY <1>2, <1>3, <1>4

(* The invariant of authentication, with what it rests on.                 *)
LEMMA AuthAlways == GateSpec => []AuthInv
<1>1. GateInit => AuthInv
  <2> SUFFICES ASSUME GateInit PROVE AuthInv
    OBVIOUS
  <2>1. PICK k \in KeyRows, t \in Tokens :
          /\ keys = [j \in KeyRows |-> IF j = k THEN [NoRecord EXCEPT !.status = "ACTIVE", !.key = t]
                                                ELSE NoRecord]
          /\ used = {t}
    BY DEF GateInit
  <2>2. GateTypes
    <3>1. NoRequest \in RequestRecords
      BY DEF NoRequest, RequestRecords, Sides, Stages, Bearers, RowIds
    <3>2. NoRecord \in KeyRecords /\ [NoRecord EXCEPT !.status = "ACTIVE", !.key = t] \in KeyRecords
      BY DEF NoRecord, KeyRecords
    <3> QED
      BY <2>1, <3>1, <3>2 DEF GateInit, GateTypes
  <2>3. \A j \in KeyRows : keys[j].grace = NoToken /\ keys[j].key = (IF j = k THEN t ELSE NoToken)
    BY <2>1 DEF NoRecord
  <2>4. TokensApart
    BY <2>1, <2>3, GateAssumption DEF TokensApart
  <2>5. \A r \in HttpRequests : Truthful(http[r], keys, used)
    BY DEF GateInit, NoRequest, Truthful, UnderWay
  <2> QED
    BY <2>2, <2>4, <2>5 DEF AuthInv
<1>2. AuthInv /\ [GateNext]_gateVars => AuthInv'
  <2>1. AuthInv /\ GateTick => AuthInv'
    BY DEF AuthInv, GateTypes, TokensApart, Truthful, Valid, Spent, GateTick
  <2>2. AuthInv /\ UNCHANGED gateVars => AuthInv'
    BY DEF AuthInv, GateTypes, TokensApart, Truthful, Valid, Spent, gateVars
  <2>3. ASSUME AuthInv, NEW r \in HttpRequests, GateStep(r)
        PROVE  AuthInv'
    BY <2>3, LookupKeepsInv, RequestKeepsInv, ClearGraceKeepsInv DEF GateStep
  <2>4. ASSUME AuthInv, NEW r \in HttpRequests, LookupFails(r)
        PROVE  AuthInv'
    BY <2>4, RequestKeepsInv
  <2>5. ASSUME AuthInv, NEW r \in HttpRequests, NEW s \in Sides, NEW t \in Bearers, Arrives(r, s, t)
        PROVE  AuthInv'
    BY <2>5, RequestKeepsInv
  <2>6. ASSUME AuthInv, NEW k \in KeyRows,
               RevokeKey(k) \/ \E t \in Tokens : AddKey(k, t) \/ RotateKey(k, t)
        PROVE  AuthInv'
    BY <2>6, OperatorKeepsInv
  <2> QED
    BY <2>1, <2>2, <2>3, <2>4, <2>5, <2>6 DEF GateNext, Bearers
<1> QED
  BY <1>1, <1>2, PTL DEF GateSpec

(* However keys are rotated, added, revoked, cleared and expire between    *)
(* the statements of an authentication, who is let in was entitled at some *)
(* moment of it, and who is refused was not (authenticateApiKey).          *)
THEOREM AuthenticationIsTruthful == GateSpec => []AuthIsTruthful
<1>1. AuthInv => AuthIsTruthful
  BY DEF AuthInv, Truthful, AuthIsTruthful
<1> QED
  BY <1>1, AuthAlways, PTL

(* A set of numbers that has a member has a least one.                     *)
LEMMA LeastNumber ==
  ASSUME NEW T \in SUBSET Nat, T # {}
  PROVE  \E n \in T : \A m \in T : n <= m
<1> DEFINE R == OpToRel(<, Nat)
<1>1. IsWellFoundedOn(R, Nat)
  BY NatLessThanWellFounded
<1>2. \A x, y \in Nat : <<y, x>> \in R <=> y < x
  BY DEF OpToRel
<1> HIDE DEF R
<1>3. PICK x \in T : \A y \in T : ~(<<y, x>> \in R)
  BY <1>1, WFMin
<1>4. \A y \in T : ~(y < x)
  BY <1>2, <1>3
<1>5. \A y \in T : x <= y
  BY <1>4
<1> QED
  BY <1>5

LEMMA IntervalSize ==
  ASSUME NEW n \in Nat
  PROVE  IsFiniteSet(1..n) /\ Cardinality(1..n) = n
<1>1. IsFiniteSet(1..n) /\ Cardinality(1..n) = IF 1 > n THEN 0 ELSE n - 1 + 1
  BY FS_Interval
<1>2. (IF 1 > n THEN 0 ELSE n - 1 + 1) = n
  OBVIOUS
<1> QED
  BY <1>1, <1>2

(* The filter of InWindow: f[k] is what it has kept of the first k hits.   *)
Kept(hits, t, w, k) == IF hits[k] >= t - WindowTicks THEN Append(w, hits[k]) ELSE w

IsFilter(f, hits, t, n) == f = [k \in 0..n |-> IF k = 0 THEN <<>> ELSE Kept(hits, t, f[k - 1], k)]

LEMMA FilterExists ==
  ASSUME NEW hits, NEW t, NEW n \in Nat
  PROVE  \E f : IsFilter(f, hits, t, n)
<1> DEFINE Bad == {m \in Nat : ~\E f : IsFilter(f, hits, t, m)}
<1>1. ASSUME Bad # {} PROVE FALSE
  <2>1. PICK m \in Bad : \A k \in Bad : m <= k
    BY <1>1, LeastNumber
  <2>2. CASE m = 0
    <3>1. PICK f : f = [k \in 0..m |-> <<>>]
      OBVIOUS
    <3>2. IsFilter(f, hits, t, m)
      BY <2>2, <3>1 DEF IsFilter
    <3> QED
      BY <2>1, <3>2
  <2>3. CASE m # 0
    <3>1. m \in Nat /\ m - 1 \in Nat /\ m - 1 \notin Bad
      <4>1. m \in Nat
        BY <2>1
      <4> HIDE DEF Bad
      <4>2. m - 1 \in Bad => m <= m - 1
        BY <2>1
      <4> QED
        BY <2>3, <4>1, <4>2
    <3>2. PICK g : IsFilter(g, hits, t, m - 1)
      BY <3>1
    <3>3. PICK f : f = [k \in 0..m |-> IF k < m THEN g[k] ELSE Kept(hits, t, g[m - 1], m)]
      OBVIOUS
    <3>4. \A k \in 0..m : f[k] = IF k = 0 THEN <<>> ELSE Kept(hits, t, f[k - 1], k)
      <4> SUFFICES ASSUME NEW k \in 0..m PROVE f[k] = IF k = 0 THEN <<>> ELSE Kept(hits, t, f[k - 1], k)
        OBVIOUS
      <4>1. CASE k = m
        BY <2>3, <3>1, <3>3, <4>1
      <4>2. CASE k # m
        <5>1. k \in 0..(m - 1) /\ k < m /\ (k # 0 => k - 1 \in 0..m /\ k - 1 < m)
          BY <3>1, <4>2
        <5>2. g[k] = IF k = 0 THEN <<>> ELSE Kept(hits, t, g[k - 1], k)
          BY <3>2, <5>1 DEF IsFilter
        <5> QED
          BY <3>3, <5>1, <5>2
      <4> QED
        BY <4>1, <4>2
    <3>5. IsFilter(f, hits, t, m)
      BY <3>3, <3>4 DEF IsFilter
    <3> QED
      BY <2>1, <3>5
  <2> QED
    BY <2>2, <2>3
<1>2. n \notin Bad
  BY <1>1
<1> QED
  BY <1>2

LEMMA WindowIsFiltered ==
  ASSUME NEW hits \in Seq(Int), NEW t
  PROVE  \E f : IsFilter(f, hits, t, Len(hits)) /\ InWindow(hits, t) = f[Len(hits)]
<1>1. PICK f : f = CHOOSE g : IsFilter(g, hits, t, Len(hits))
  OBVIOUS
<1>2. IsFilter(f, hits, t, Len(hits))
  BY <1>1, FilterExists
<1>3. InWindow(hits, t) = f[Len(hits)]
  BY <1>1 DEF InWindow, Kept, IsFilter
<1> QED
  BY <1>2, <1>3

(* g leads from those of the first k hits that count at t to places of w   *)
(* that hold them, no two to the same place.                               *)
Embeds(g, hits, t, k, w) ==
  /\ g \in [{i \in 1..k : hits[i] >= t - WindowTicks} -> DOMAIN w]
  /\ \A i, j \in {i \in 1..k : hits[i] >= t - WindowTicks} :
       w[g[i]] = hits[i] /\ (g[i] = g[j] => i = j)

LEMMA KeptEmbeds ==
  ASSUME NEW hits \in Seq(Int), NEW t \in Int, NEW m \in DOMAIN hits, NEW w \in Seq(Int),
         NEW g, Embeds(g, hits, t, m - 1, w), NEW v, v = Kept(hits, t, w, m)
  PROVE  v \in Seq(Int) /\ \E e : Embeds(e, hits, t, m, v)
<1> DEFINE D(k) == {i \in 1..k : hits[i] >= t - WindowTicks}
<1>1. m \in Nat /\ m >= 1 /\ hits[m] \in Int /\ WindowTicks \in Nat
  BY GateAssumption
<1>2. CASE hits[m] >= t - WindowTicks
  <2>1. v = Append(w, hits[m]) /\ v \in Seq(Int) /\ Len(v) = Len(w) + 1 /\ v[Len(w) + 1] = hits[m]
        /\ DOMAIN v = 1..(Len(w) + 1) /\ DOMAIN w = 1..Len(w) /\ \A i \in DOMAIN w : v[i] = w[i]
    BY <1>1, <1>2 DEF Kept
  <2>2. D(m) = D(m - 1) \cup {m} /\ m \notin D(m - 1)
    BY <1>1, <1>2
  <2>3. g \in [D(m - 1) -> DOMAIN w] /\ \A i, j \in D(m - 1) : w[g[i]] = hits[i] /\ (g[i] = g[j] => i = j)
    BY DEF Embeds
  <2> HIDE DEF D
  <2>4. PICK e : e = [i \in D(m) |-> IF i = m THEN Len(w) + 1 ELSE g[i]]
    OBVIOUS
  <2>5. \A i \in D(m - 1) : e[i] = g[i] /\ g[i] \in 1..Len(w) /\ v[e[i]] = hits[i] /\ e[i] # Len(w) + 1
    BY <2>1, <2>2, <2>3, <2>4
  <2>6. e[m] = Len(w) + 1 /\ v[e[m]] = hits[m]
    BY <2>1, <2>2, <2>4
  <2>7. e \in [D(m) -> DOMAIN v]
    <3>0. Len(w) \in Nat /\ Len(w) + 1 \in 1..(Len(w) + 1) /\ 1..Len(w) \subseteq 1..(Len(w) + 1)
      OBVIOUS
    <3>1. \A i \in D(m) : e[i] \in 1..(Len(w) + 1)
      BY <2>2, <2>5, <2>6, <3>0
    <3>2. e = [i \in D(m) |-> e[i]]
      BY <2>4
    <3> QED
      BY <2>1, <3>1, <3>2
  <2>8. \A i, j \in D(m) : v[e[i]] = hits[i] /\ (e[i] = e[j] => i = j)
    BY <2>2, <2>3, <2>5, <2>6
  <2>9. Embeds(e, hits, t, m, v)
    BY <2>7, <2>8 DEF Embeds, D
  <2> QED
    BY <2>1, <2>9
<1>3. CASE ~(hits[m] >= t - WindowTicks)
  <2>1. v = w
    BY <1>3 DEF Kept
  <2>2. D(m) = D(m - 1)
    BY <1>1, <1>3
  <2>3. Embeds(g, hits, t, m, v)
    BY <2>1, <2>2 DEF Embeds
  <2> QED
    BY <2>1, <2>3
<1> QED
  BY <1>2, <1>3

(* The filter loses no hit that counts.                                    *)
LEMMA WindowKeepsHits ==
  ASSUME NEW hits \in Seq(Int), NEW t \in Int
  PROVE  /\ InWindow(hits, t) \in Seq(Int)
         /\ \E g : Embeds(g, hits, t, Len(hits), InWindow(hits, t))
<1>1. PICK f : IsFilter(f, hits, t, Len(hits)) /\ InWindow(hits, t) = f[Len(hits)]
  BY WindowIsFiltered
<1> DEFINE n == Len(hits)
           Good(k) == f[k] \in Seq(Int) /\ \E g : Embeds(g, hits, t, k, f[k])
           Bad == {k \in 0..n : ~Good(k)}
<1>2. n \in Nat /\ DOMAIN hits = 1..n /\ Bad \in SUBSET Nat
  OBVIOUS
<1>3. f[0] = <<>> /\ \A k \in 1..n : f[k] = Kept(hits, t, f[k - 1], k)
  <2>1. \A k \in 0..n : f[k] = IF k = 0 THEN <<>> ELSE Kept(hits, t, f[k - 1], k)
    BY <1>1 DEF IsFilter
  <2> QED
    BY <1>2, <2>1
<1>4. ASSUME Bad # {} PROVE FALSE
  <2>1. PICK m \in Bad : \A k \in Bad : m <= k
    BY <1>2, <1>4, LeastNumber
  <2>2. CASE m = 0
    <3>1. Embeds(<<>>, hits, t, 0, <<>>)
      <4>1. {i \in 1..0 : hits[i] >= t - WindowTicks} = {}
        OBVIOUS
      <4>2. <<>> \in [{} -> DOMAIN <<>>]
        OBVIOUS
      <4> QED
        BY <4>1, <4>2 DEF Embeds
    <3>2. <<>> \in Seq(Int)
      OBVIOUS
    <3>3. Good(0)
      BY <1>3, <3>1, <3>2
    <3> QED
      BY <2>1, <2>2, <3>3
  <2>3. CASE m # 0
    <3>1. m \in 1..n /\ m - 1 \in 0..n /\ m - 1 < m
      BY <1>2, <2>1, <2>3
    <3>2. m - 1 \notin Bad
      <4>1. m - 1 \in Bad => m <= m - 1
        BY <2>1
      <4> QED
        BY <3>1, <4>1
    <3>3. Good(m - 1)
      BY <3>1, <3>2
    <3>4. PICK w, g : w = f[m - 1] /\ w \in Seq(Int) /\ Embeds(g, hits, t, m - 1, w)
      BY <3>3
    <3>5. f[m] = Kept(hits, t, w, m) /\ m \in DOMAIN hits
      BY <1>2, <1>3, <3>1, <3>4
    <3>6. Good(m)
      BY <3>4, <3>5, KeptEmbeds
    <3> QED
      BY <2>1, <3>6
  <2> QED
    BY <2>2, <2>3
<1>5. Good(n)
  BY <1>2, <1>4
<1> QED
  BY <1>1, <1>5

(* The requests of a side that were let in at time b or later, those of    *)
(* the window that starts at t, and that the hits w are theirs.            *)
Counts(h, s, b) == {r \in HttpRequests : h[r].side = s /\ h[r].hit >= 0 /\ h[r].hit >= b}

InSpan(h, s, t) == {r \in HttpRequests : h[r].side = s /\ h[r].hit \in t..(t + WindowTicks)}

Recorded(h, s, b, w) ==
  \E g \in [Counts(h, s, b) -> DOMAIN w] : \A r, q \in Counts(h, s, b) :
    w[g[r]] = h[r].hit /\ (g[r] = g[q] => r = q)

QuotaInv ==
  /\ tier \in Nat
  /\ windows \in [Sides -> Seq(Int)]
  /\ \A r \in HttpRequests :
       /\ http[r].hit \in -1..clock
       /\ http[r].at \notin {"handler", "answered"} => http[r].hit = -1
  /\ \A s \in Sides : Recorded(http, s, clock - WindowTicks, windows[s])
  /\ QuotaHolds

LEMMA LimitIsNat == ASSUME tier \in Nat PROVE Limit(tier) \in Nat
  BY GateAssumption DEF Limit

(* What holds of the hits of requests holds of fewer of them.              *)
LEMMA FewerAreRecorded ==
  ASSUME NEW h, NEW k, NEW s, NEW b, NEW c, NEW w, Recorded(h, s, b, w),
         \A r \in Counts(k, s, c) : r \in Counts(h, s, b) /\ k[r].hit = h[r].hit
  PROVE  Recorded(k, s, c, w)
<1>1. PICK g \in [Counts(h, s, b) -> DOMAIN w] : \A r, q \in Counts(h, s, b) :
        w[g[r]] = h[r].hit /\ (g[r] = g[q] => r = q)
  BY DEF Recorded
<1>2. PICK e : e = [r \in Counts(k, s, c) |-> g[r]]
  OBVIOUS
<1>3. e \in [Counts(k, s, c) -> DOMAIN w]
  BY <1>1, <1>2
<1>4. \A r, q \in Counts(k, s, c) : w[e[r]] = k[r].hit /\ (e[r] = e[q] => r = q)
  BY <1>1, <1>2
<1> QED
  BY <1>3, <1>4 DEF Recorded

(* The filter keeps what is recorded in the window.                        *)
LEMMA WindowKeepsRecord ==
  ASSUME NEW h, \A r \in HttpRequests : h[r].hit \in Int, NEW s, NEW t \in Int,
         NEW w \in Seq(Int), Recorded(h, s, t - WindowTicks, w)
  PROVE  Recorded(h, s, t - WindowTicks, InWindow(w, t))
<1> DEFINE C == Counts(h, s, t - WindowTicks)
           D == {i \in 1..Len(w) : w[i] >= t - WindowTicks}
           v == InWindow(w, t)
<1>1. PICK g \in [C -> DOMAIN w] : \A r, q \in C : w[g[r]] = h[r].hit /\ (g[r] = g[q] => r = q)
  BY DEF Recorded
<1>2. PICK e : e \in [D -> DOMAIN v] /\ \A i, j \in D : v[e[i]] = w[i] /\ (e[i] = e[j] => i = j)
  BY WindowKeepsHits DEF Embeds
<1>3. \A r \in C : g[r] \in D
  <2> SUFFICES ASSUME NEW r \in C PROVE g[r] \in D
    OBVIOUS
  <2>1. h[r].hit >= t - WindowTicks /\ g[r] \in DOMAIN w /\ DOMAIN w = 1..Len(w)
    BY <1>1 DEF Counts
  <2> QED
    BY <1>1, <2>1
<1> HIDE DEF C, D, v
<1>4. PICK f : f = [r \in C |-> e[g[r]]]
  OBVIOUS
<1>5. f \in [C -> DOMAIN v]
  BY <1>2, <1>3, <1>4
<1>6. \A r, q \in C : v[f[r]] = h[r].hit /\ (f[r] = f[q] => r = q)
  BY <1>1, <1>2, <1>3, <1>4
<1> QED
  BY <1>5, <1>6 DEF Recorded, C, v

(* A request that is let in is recorded with it.                           *)
LEMMA AppendingRecords ==
  ASSUME NEW h, NEW k, NEW s, NEW b, NEW w \in Seq(Int), Recorded(h, s, b, w),
         NEW r \in HttpRequests, NEW c \in Int, k[r].hit = c,
         \A q \in HttpRequests \ {r} : k[q].hit = h[q].hit /\ k[q].side = h[q].side
  PROVE  Recorded(k, s, b, Append(w, c))
<1> DEFINE C == Counts(h, s, b)
           D == Counts(k, s, b)
           v == Append(w, c)
<1>1. PICK g \in [C -> DOMAIN w] : \A p, q \in C : w[g[p]] = h[p].hit /\ (g[p] = g[q] => p = q)
  BY DEF Recorded
<1>2. DOMAIN v = 1..(Len(w) + 1) /\ DOMAIN w = 1..Len(w) /\ v[Len(w) + 1] = c
      /\ \A i \in DOMAIN w : v[i] = w[i]
  OBVIOUS
<1>3. \A q \in D : q # r => q \in C /\ k[q].hit = h[q].hit
  BY DEF Counts
<1> HIDE DEF C, D, v
<1>4. PICK e : e = [q \in D |-> IF q = r THEN Len(w) + 1 ELSE g[q]]
  OBVIOUS
<1>5. \A q \in D : q # r => e[q] = g[q] /\ g[q] \in 1..Len(w) /\ v[e[q]] = k[q].hit /\ e[q] # Len(w) + 1
  BY <1>1, <1>2, <1>3, <1>4
<1>6. r \in D => e[r] = Len(w) + 1 /\ v[e[r]] = k[r].hit
  BY <1>2, <1>4
<1>7. e \in [D -> DOMAIN v]
  <2>1. \A q \in D : e[q] \in 1..(Len(w) + 1)
    BY <1>5, <1>6
  <2>2. e = [q \in D |-> e[q]]
    BY <1>4
  <2> QED
    BY <1>2, <2>1, <2>2
<1>8. \A p, q \in D : v[e[p]] = k[p].hit /\ (e[p] = e[q] => p = q)
  BY <1>1, <1>3, <1>5, <1>6
<1> QED
  BY <1>7, <1>8 DEF Recorded, D, v

(* There are no more of them than hits.                                    *)
LEMMA RecordedAreFew ==
  ASSUME NEW h, NEW s, NEW b, NEW w \in Seq(Int), Recorded(h, s, b, w)
  PROVE  /\ IsFiniteSet(Counts(h, s, b))
         /\ Cardinality(Counts(h, s, b)) \in Nat
         /\ Cardinality(Counts(h, s, b)) <= Len(w)
<1> DEFINE C == Counts(h, s, b)
<1>1. PICK g \in [C -> DOMAIN w] : \A r, q \in C : w[g[r]] = h[r].hit /\ (g[r] = g[q] => r = q)
  BY DEF Recorded
<1> HIDE DEF C
<1>2. g \in Injection(C, DOMAIN w)
  BY <1>1 DEF Injection, IsInjective
<1>3. DOMAIN w = 1..Len(w) /\ Len(w) \in Nat
  OBVIOUS
<1>4. IsFiniteSet(DOMAIN w) /\ Cardinality(DOMAIN w) = Len(w)
  <2>1. PICK n \in Nat : n = Len(w) /\ DOMAIN w = 1..n
    BY <1>3
  <2> QED
    BY <2>1, IntervalSize
<1>5. IsFiniteSet(C) /\ Cardinality(C) <= Cardinality(DOMAIN w)
  BY <1>2, <1>4, FS_Injection
<1>6. Cardinality(C) \in Nat
  BY <1>5, FS_CardinalityType
<1> QED
  BY <1>4, <1>5, <1>6 DEF C

(* A step that lets nobody in: it leaves hits and sides of those let in.   *)
Quiet(h, k) ==
  \A r \in HttpRequests :
    /\ k[r].hit = h[r].hit
    /\ h[r].hit # -1 => k[r].side = h[r].side
    /\ k[r].at \notin {"handler", "answered"} => k[r].hit = -1

LEMMA QuietKeepsQuota ==
  ASSUME QuotaInv, Quiet(http, http'), clock \in Nat, clock' \in Nat, clock <= clock', UNCHANGED tier,
         windows' \in [Sides -> Seq(Int)],
         \A s \in Sides : Recorded(http, s, clock - WindowTicks, windows'[s])
  PROVE  QuotaInv'
<1>1. WindowTicks \in Nat /\ MaxClock \in Nat
  BY GateAssumption
<1>2. \A r \in HttpRequests : http[r].hit \in -1..clock
  BY DEF QuotaInv
<1>3. \A s \in Sides : Recorded(http', s, clock' - WindowTicks, windows'[s])
  <2> SUFFICES ASSUME NEW s \in Sides PROVE Recorded(http', s, clock' - WindowTicks, windows'[s])
    OBVIOUS
  <2>1. \A r \in Counts(http', s, clock' - WindowTicks) :
          r \in Counts(http, s, clock - WindowTicks) /\ http'[r].hit = http[r].hit
    BY <1>1, <1>2 DEF Counts, Quiet
  <2>2. Recorded(http, s, clock - WindowTicks, windows'[s])
    OBVIOUS
  <2> QED
    BY <2>1, <2>2, FewerAreRecorded
<1>4. QuotaHolds'
  <2> SUFFICES ASSUME NEW s \in Sides, NEW t \in 0..MaxClock
               PROVE  Cardinality(InSpan(http', s, t)) <= Limit(tier)
    BY DEF QuotaHolds, InSpan, Limit, QuotaInv
  <2>1. InSpan(http', s, t) = InSpan(http, s, t)
    BY <1>1, <1>2 DEF InSpan, Quiet
  <2> QED
    BY <2>1 DEF QuotaInv, QuotaHolds, InSpan
<1>5. \A r \in HttpRequests :
        /\ http'[r].hit \in -1..clock'
        /\ http'[r].at \notin {"handler", "answered"} => http'[r].hit = -1
  BY <1>2 DEF Quiet
<1> QED
  BY <1>3, <1>4, <1>5 DEF QuotaInv

(* A request that is let in while its window has room.                     *)
LEMMA LettingInKeepsQuota ==
  ASSUME QuotaInv, clock \in Nat, UNCHANGED <<clock, tier>>, NEW r \in HttpRequests,
         NEW side \in Sides, side = http[r].side, http[r].hit = -1,
         http'[r].hit = clock, http'[r].side = side, http'[r].at = "handler",
         \A q \in HttpRequests \ {r} :
           http'[q].hit = http[q].hit /\ http'[q].side = http[q].side /\ http'[q].at = http[q].at,
         NEW hits \in Seq(Int), hits = InWindow(windows[side], clock), Len(hits) < Limit(tier),
         windows' = [windows EXCEPT ![side] = Append(hits, clock)]
  PROVE  QuotaInv'
<1>1. WindowTicks \in Nat /\ MaxClock \in Nat /\ Limit(tier) \in Nat /\ IsFiniteSet(HttpRequests)
  BY GateAssumption, LimitIsNat DEF QuotaInv
<1>2. /\ \A q \in HttpRequests : http[q].hit \in -1..clock
      /\ windows \in [Sides -> Seq(Int)]
      /\ \A s \in Sides : Recorded(http, s, clock - WindowTicks, windows[s])
      /\ QuotaHolds
  BY DEF QuotaInv
<1>3. Recorded(http, side, clock - WindowTicks, hits)
  <2>1. windows[side] \in Seq(Int) /\ Recorded(http, side, clock - WindowTicks, windows[side])
    BY <1>2
  <2>2. \A q \in HttpRequests : http[q].hit \in Int
    BY <1>2
  <2> QED
    BY <2>1, <2>2, WindowKeepsRecord
<1>4. windows' \in [Sides -> Seq(Int)] /\ windows'[side] = Append(hits, clock)
      /\ \A s \in Sides \ {side} : windows'[s] = windows[s]
  BY <1>2
<1>5. \A s \in Sides : Recorded(http', s, clock - WindowTicks, windows'[s])
  <2>1. Recorded(http', side, clock - WindowTicks, Append(hits, clock))
    BY <1>3, AppendingRecords
  <2>2. ASSUME NEW s \in Sides, s # side
        PROVE  Recorded(http', s, clock - WindowTicks, windows'[s])
    <3>1. \A q \in Counts(http', s, clock - WindowTicks) :
            q \in Counts(http, s, clock - WindowTicks) /\ http'[q].hit = http[q].hit
      BY <2>2 DEF Counts
    <3>2. Recorded(http, s, clock - WindowTicks, windows'[s])
      BY <1>2, <1>4, <2>2
    <3> QED
      BY <3>1, <3>2, FewerAreRecorded
  <2> QED
    BY <1>4, <2>1, <2>2
<1>6. ASSUME NEW s \in Sides, NEW t \in 0..MaxClock
      PROVE  Cardinality(InSpan(http', s, t)) <= Limit(tier)
  <2>1. InSpan(http, s, t) \in SUBSET HttpRequests /\ Cardinality(InSpan(http, s, t)) <= Limit(tier)
    BY <1>2 DEF QuotaHolds, InSpan
  <2>2. CASE s # side \/ clock \notin t..(t + WindowTicks)
    <3>1. InSpan(http', s, t) = InSpan(http, s, t)
      BY <1>1, <2>2 DEF InSpan
    <3> QED
      BY <2>1, <3>1
  <2>3. CASE s = side /\ clock \in t..(t + WindowTicks)
    <3>1. InSpan(http', s, t) = InSpan(http, s, t) \cup {r} /\ r \notin InSpan(http, s, t)
      BY <1>1, <2>3 DEF InSpan
    <3>2. InSpan(http, s, t) \in SUBSET Counts(http, side, clock - WindowTicks)
      BY <1>1, <2>3 DEF InSpan, Counts
    <3>3. /\ IsFiniteSet(Counts(http, side, clock - WindowTicks))
          /\ Cardinality(Counts(http, side, clock - WindowTicks)) \in Nat
          /\ Cardinality(Counts(http, side, clock - WindowTicks)) <= Len(hits)
      BY <1>3, RecordedAreFew
    <3>4. /\ IsFiniteSet(InSpan(http, s, t))
          /\ Cardinality(InSpan(http, s, t)) <= Cardinality(Counts(http, side, clock - WindowTicks))
      BY <3>2, <3>3, FS_Subset
    <3>5. Cardinality(InSpan(http', s, t)) = Cardinality(InSpan(http, s, t)) + 1
      BY <3>1, <3>4, FS_AddElement
    <3>6. Cardinality(InSpan(http, s, t)) \in Nat /\ Len(hits) \in Nat
      BY <3>4, FS_CardinalityType
    <3> QED
      BY <1>1, <3>3, <3>4, <3>5, <3>6
  <2> QED
    BY <2>2, <2>3
<1>7. QuotaHolds'
  BY <1>6 DEF QuotaHolds, InSpan, Limit
<1>8. \A q \in HttpRequests :
        /\ http'[q].hit \in -1..clock
        /\ http'[q].at \notin {"handler", "answered"} => http'[q].hit = -1
  <2>1. -1 \in -1..clock /\ clock \in -1..clock
    OBVIOUS
  <2>2. \A q \in HttpRequests \ {r} :
          http[q].at \notin {"handler", "answered"} => http[q].hit = -1
    BY DEF QuotaInv
  <2> QED
    BY <1>2, <2>1, <2>2
<1>9. tier' \in Nat
  BY DEF QuotaInv
<1> QED
  BY <1>4, <1>5, <1>7, <1>8, <1>9 DEF QuotaInv

(* Whoever sees the keys is the same request with the same hit.            *)
LEMMA WitnessesKeepHits ==
  ASSUME NEW h \in [HttpRequests -> RequestRecords], NEW ks, NEW r \in HttpRequests
  PROVE  /\ Witness(h, ks)[r].hit = h[r].hit
         /\ Witness(h, ks)[r].side = h[r].side
         /\ Witness(h, ks)[r].at = h[r].at
<1> DEFINE q == h[r]
           v == Valid(q.token, ks, q.began)
<1>1. q \in RequestRecords /\ v \in BOOLEAN
  BY DEF Valid
<1>2. CASE q.at \in UnderWay
  <2>1. Witness(h, ks)[r] = [q EXCEPT !.valid = q.valid \/ v, !.invalid = q.invalid \/ ~v]
    BY <1>2 DEF Witness, UnderWay
  <2> HIDE DEF q
  <2> QED
    BY <1>1, <2>1 DEF RequestRecords, q
<1>3. CASE q.at \notin UnderWay
  BY <1>3 DEF Witness, UnderWay
<1> QED
  BY <1>2, <1>3

LEMMA GoesChanges ==
  ASSUME http \in [HttpRequests -> RequestRecords], NEW r \in HttpRequests, NEW q \in RequestRecords,
         Goes(r, q)
  PROVE  /\ http'[r].hit = q.hit /\ http'[r].side = q.side /\ http'[r].at = q.at
         /\ \A p \in HttpRequests \ {r} :
              http'[p].hit = http[p].hit /\ http'[p].side = http[p].side /\ http'[p].at = http[p].at
<1> DEFINE h == [http EXCEPT ![r] = q]
<1>1. h \in [HttpRequests -> RequestRecords] /\ h[r] = q /\ \A p \in HttpRequests \ {r} : h[p] = http[p]
  OBVIOUS
<1>2. http' = Witness(h, keys)
  BY DEF Goes
<1> HIDE DEF h
<1>3. \A p \in HttpRequests : http'[p].hit = h[p].hit /\ http'[p].side = h[p].side /\ http'[p].at = h[p].at
  BY <1>1, <1>2, WitnessesKeepHits
<1> QED
  BY <1>1, <1>3

LEMMA GoesIsQuiet ==
  ASSUME http \in [HttpRequests -> RequestRecords], QuotaInv, NEW r \in HttpRequests,
         NEW q \in RequestRecords, Goes(r, q), q.hit = http[r].hit,
         http[r].hit # -1 => q.side = http[r].side,
         q.at \notin {"handler", "answered"} => q.hit = -1
  PROVE  Quiet(http, http')
<1>1. \A p \in HttpRequests : http[p].at \notin {"handler", "answered"} => http[p].hit = -1
  BY DEF QuotaInv
<1> QED
  BY <1>1, GoesChanges DEF Quiet

LEMMA ReplyIsQuiet ==
  ASSUME http \in [HttpRequests -> RequestRecords], QuotaInv, NEW r \in HttpRequests,
         NEW status \in Int, Reply(r, status)
  PROVE  Quiet(http, http')
<1>1. PICK q : q = Replied(http[r], status) /\ Goes(r, q)
  BY DEF Reply, Replied
<1>2. q \in RequestRecords /\ q.at = "answered" /\ q.hit = http[r].hit /\ q.side = http[r].side
  BY <1>1, ReplyRecord
<1> QED
  BY <1>1, <1>2, GoesIsQuiet

LEMMA LetInIsQuiet ==
  ASSUME http \in [HttpRequests -> RequestRecords], QuotaInv, NEW r \in HttpRequests, LetIn(r),
         http[r].hit = -1
  PROVE  Quiet(http, http')
<1>1. PICK q : q = Admitted(http[r]) /\ Goes(r, q)
  BY DEF LetIn, Admitted
<1>2. q \in RequestRecords /\ q.at = "gate" /\ q.hit = -1 /\ q.side = http[r].side
  BY <1>1, LetInRecord
<1> QED
  BY <1>1, <1>2, GoesIsQuiet

(* The steps of a request before it comes to its window, and after.        *)
LEMMA LookupIsQuiet ==
  ASSUME http \in [HttpRequests -> RequestRecords], QuotaInv, NEW r \in HttpRequests,
         \/ FromMemory(r) \/ PrimaryLookup(r) \/ ClearGrace(r) \/ GraceLookup(r)
         \/ Touch(r) \/ LookupFails(r) \/ Handles(r)
  PROVE  Quiet(http, http') /\ UNCHANGED <<clock, tier, windows>>
<1>1. UNCHANGED <<clock, tier, windows>>
  BY DEF FromMemory, PrimaryLookup, ClearGrace, GraceLookup, Touch, LookupFails, Handles
<1>2. http[r] \in RequestRecords /\ (http[r].at \notin {"handler", "answered"} => http[r].hit = -1)
  BY DEF QuotaInv
<1>3. CASE FromMemory(r)
  BY <1>1, <1>2, <1>3, LetInIsQuiet, ReplyIsQuiet DEF FromMemory
<1>4. CASE PrimaryLookup(r)
  <2>1. http[r].hit = -1
    BY <1>2, <1>4 DEF PrimaryLookup
  <2>2. CASE Goes(r, [http[r] EXCEPT !.at = "grace"])
    <3>1. PICK q : q = [http[r] EXCEPT !.at = "grace"] /\ Goes(r, q)
      BY <2>2
    <3>2. q \in RequestRecords /\ q.hit = -1 /\ q.side = http[r].side
      BY <1>2, <2>1, <3>1, StageChanges DEF Stages
    <3> QED
      BY <1>1, <2>1, <3>1, <3>2, GoesIsQuiet
  <2>3. ASSUME NEW k \in KeyRows, NEW a \in {"clear", "touch"},
               Goes(r, [http[r] EXCEPT !.id = k, !.at = a])
        PROVE  Quiet(http, http')
    <3>1. PICK p : p = [http[r] EXCEPT !.id = k]
      OBVIOUS
    <3>2. p \in RequestRecords /\ p.hit = -1 /\ p.side = http[r].side
      BY <1>2, <2>1, <3>1 DEF RequestRecords, RowIds
    <3>3. PICK q : q = [p EXCEPT !.at = a]
      OBVIOUS
    <3>4. q \in RequestRecords /\ q.hit = -1 /\ q.side = http[r].side
      BY <3>2, <3>3, StageChanges DEF Stages
    <3>5. q = [http[r] EXCEPT !.id = k, !.at = a]
      BY <1>2, <3>1, <3>3 DEF RequestRecords
    <3>6. Goes(r, q)
      BY <2>3, <3>5
    <3> QED
      BY <2>1, <3>4, <3>6, GoesIsQuiet
  <2> QED
    BY <1>1, <1>4, <2>2, <2>3 DEF PrimaryLookup, RowsWith
<1>5. CASE ClearGrace(r)
  <2>1. PICK h, ks : h = [http EXCEPT ![r].at = "touch"] /\ http' = Witness(h, ks)
    BY <1>5 DEF ClearGrace
  <2>2. h[r] \in RequestRecords /\ h[r].hit = http[r].hit /\ h[r].side = http[r].side /\ h[r].at = "touch"
    <3>1. h[r] = [http[r] EXCEPT !.at = "touch"]
      BY <2>1
    <3> QED
      BY <1>2, <3>1, StageChanges DEF Stages
  <2>3. h \in [HttpRequests -> RequestRecords] /\ \A p \in HttpRequests \ {r} : h[p] = http[p]
    BY <2>1, <2>2
  <2>4. \A p \in HttpRequests :
          http'[p].hit = h[p].hit /\ http'[p].side = h[p].side /\ http'[p].at = h[p].at
    <3>1. \A p \in HttpRequests :
            /\ Witness(h, ks)[p].hit = h[p].hit
            /\ Witness(h, ks)[p].side = h[p].side
            /\ Witness(h, ks)[p].at = h[p].at
      BY <2>3, WitnessesKeepHits
    <3>2. http' = Witness(h, ks)
      BY <2>1
    <3> QED
      BY <3>1, <3>2
  <2>5. http[r].hit = -1
    BY <1>2, <1>5 DEF ClearGrace
  <2>6. \A p \in HttpRequests : http[p].at \notin {"handler", "answered"} => http[p].hit = -1
    BY DEF QuotaInv
  <2> QED
    BY <1>1, <2>2, <2>3, <2>4, <2>5, <2>6 DEF Quiet
<1>6. CASE GraceLookup(r)
  <2>1. http[r].hit = -1
    BY <1>2, <1>6 DEF GraceLookup
  <2>2. CASE Goes(r, [http[r] EXCEPT !.at = "touch"])
    <3>1. PICK q : q = [http[r] EXCEPT !.at = "touch"] /\ Goes(r, q)
      BY <2>2
    <3>2. q \in RequestRecords /\ q.hit = -1 /\ q.side = http[r].side
      BY <1>2, <2>1, <3>1, StageChanges DEF Stages
    <3> QED
      BY <1>1, <2>1, <3>1, <3>2, GoesIsQuiet
  <2>3. CASE Reply(r, 401)
    BY <1>1, <2>3, ReplyIsQuiet
  <2>4. Goes(r, [http[r] EXCEPT !.at = "touch"]) \/ Reply(r, 401)
    <3>1. IF GraceRowsWith(r) # {} THEN Goes(r, [http[r] EXCEPT !.at = "touch"]) ELSE Reply(r, 401)
      BY <1>6 DEF GraceLookup
    <3>2. CASE GraceRowsWith(r) # {}
      BY <3>1, <3>2
    <3>3. CASE GraceRowsWith(r) = {}
      BY <3>1, <3>3
    <3> QED
      BY <3>2, <3>3
  <2> QED
    BY <2>2, <2>3, <2>4
<1>7. CASE Touch(r)
  BY <1>1, <1>2, <1>7, LetInIsQuiet DEF Touch
<1>8. CASE LookupFails(r)
  BY <1>1, <1>8, ReplyIsQuiet DEF LookupFails
<1>9. CASE Handles(r)
  BY <1>1, <1>9, ReplyIsQuiet DEF Handles
<1> QED
  BY <1>1, <1>3, <1>4, <1>5, <1>6, <1>7, <1>8, <1>9

LEMMA ArrivalIsQuiet ==
  ASSUME http \in [HttpRequests -> RequestRecords], clock \in Nat, QuotaInv, NEW r \in HttpRequests,
         NEW s \in Sides, NEW t \in Bearers, Arrives(r, s, t)
  PROVE  Quiet(http, http') /\ UNCHANGED <<clock, tier, windows>>
<1>1. UNCHANGED <<clock, tier, windows>> /\ http[r].hit = -1
  BY DEF Arrives, QuotaInv
<1>2. PICK p : p = [NoRequest EXCEPT !.side = s, !.token = t, !.began = clock]
  OBVIOUS
<1>3. \/ Goes(r, [p EXCEPT !.at = "answered", !.status = 503])
      \/ Goes(r, [p EXCEPT !.at = "primary"])
      \/ Goes(r, [p EXCEPT !.at = "answered", !.status = 401, !.invalid = TRUE])
  <2>1. Goes(r, IF s = "read" /\ ~tracing
                THEN [p EXCEPT !.at = "answered", !.status = 503]
                ELSE IF HasBearer(t) /\ IsKeyToken(t)
                THEN [p EXCEPT !.at = "primary"]
                ELSE [p EXCEPT !.at = "answered", !.status = 401, !.invalid = TRUE])
    BY <1>2 DEF Arrives
  <2>2. CASE s = "read" /\ ~tracing
    BY <2>1, <2>2
  <2>3. CASE ~(s = "read" /\ ~tracing) /\ HasBearer(t) /\ IsKeyToken(t)
    BY <2>1, <2>3
  <2>4. CASE ~(s = "read" /\ ~tracing) /\ ~(HasBearer(t) /\ IsKeyToken(t))
    BY <2>1, <2>4
  <2> QED
    BY <2>2, <2>3, <2>4
<1>4. p \in RequestRecords /\ p.hit = -1
  <2>1. PICK a : a = [NoRequest EXCEPT !.side = s]
    OBVIOUS
  <2>2. PICK b : b = [a EXCEPT !.token = t]
    OBVIOUS
  <2>3. p = [b EXCEPT !.began = clock]
    BY <1>2, <2>1, <2>2
  <2>4. NoRequest.hit = -1
    BY DEF NoRequest
  <2>5. a \in RequestRecords /\ a.hit = -1
    BY <2>1, <2>4, NoRequestIsRecord, SideChanges
  <2>6. b \in RequestRecords /\ b.hit = -1
    BY <2>2, <2>5, TokenChanges
  <2> QED
    BY <2>3, <2>6, BeginningChanges
<1>5. PICK a : a = [p EXCEPT !.at = "answered"]
  OBVIOUS
<1>6. a \in RequestRecords /\ a.hit = -1
  BY <1>4, <1>5, StageChanges DEF Stages
<1>7. CASE Goes(r, [p EXCEPT !.at = "answered", !.status = 503])
  <2>1. PICK q : q = [p EXCEPT !.at = "answered", !.status = 503] /\ Goes(r, q)
    BY <1>7
  <2>2. q = [a EXCEPT !.status = 503]
    BY <1>5, <2>1
  <2>3. q \in RequestRecords /\ q.hit = -1
    BY <1>6, <2>2, StatusChanges
  <2> QED
    BY <1>1, <2>1, <2>3, GoesIsQuiet
<1>8. CASE Goes(r, [p EXCEPT !.at = "primary"])
  <2>1. PICK q : q = [p EXCEPT !.at = "primary"] /\ Goes(r, q)
    BY <1>8
  <2>2. q \in RequestRecords /\ q.hit = -1
    BY <1>4, <2>1, StageChanges DEF Stages
  <2> QED
    BY <1>1, <2>1, <2>2, GoesIsQuiet
<1>9. CASE Goes(r, [p EXCEPT !.at = "answered", !.status = 401, !.invalid = TRUE])
  <2>1. PICK q : q = [p EXCEPT !.at = "answered", !.status = 401, !.invalid = TRUE] /\ Goes(r, q)
    BY <1>9
  <2>2. PICK b : b = [a EXCEPT !.status = 401]
    OBVIOUS
  <2>3. q = [b EXCEPT !.invalid = TRUE]
    BY <1>5, <2>1, <2>2
  <2>4. b \in RequestRecords /\ b.hit = -1
    BY <1>6, <2>2, StatusChanges
  <2>5. q \in RequestRecords /\ q.hit = -1
    BY <2>3, <2>4, InvalidChanges
  <2> QED
    BY <1>1, <2>1, <2>5, GoesIsQuiet
<1> QED
  BY <1>3, <1>7, <1>8, <1>9

(* What operators do to keys lets nobody in.                               *)
LEMMA OperatorIsQuiet ==
  ASSUME http \in [HttpRequests -> RequestRecords], QuotaInv, NEW k \in KeyRows,
         RevokeKey(k) \/ \E t \in Tokens : AddKey(k, t) \/ RotateKey(k, t)
  PROVE  Quiet(http, http') /\ UNCHANGED <<clock, tier, windows>>
<1>1. UNCHANGED <<clock, tier, windows>> /\ \E ks : http' = Witness(http, ks)
  BY DEF RevokeKey, AddKey, RotateKey, SetKeys
<1>2. PICK ks : http' = Witness(http, ks)
  BY <1>1
<1>3. \A p \in HttpRequests :
        /\ Witness(http, ks)[p].hit = http[p].hit
        /\ Witness(http, ks)[p].side = http[p].side
        /\ Witness(http, ks)[p].at = http[p].at
  BY WitnessesKeepHits
<1>4. \A p \in HttpRequests : http[p].at \notin {"handler", "answered"} => http[p].hit = -1
  BY DEF QuotaInv
<1> QED
  BY <1>1, <1>2, <1>3, <1>4 DEF Quiet

LEMMA QuietStepKeepsQuota ==
  ASSUME QuotaInv, clock \in Nat, Quiet(http, http'), UNCHANGED <<clock, tier, windows>>
  PROVE  QuotaInv'
<1>1. windows' \in [Sides -> Seq(Int)]
      /\ \A s \in Sides : Recorded(http, s, clock - WindowTicks, windows'[s])
  BY DEF QuotaInv
<1>2. clock' \in Nat /\ clock <= clock' /\ tier' = tier
  OBVIOUS
<1> QED
  BY <1>1, <1>2, QuietKeepsQuota

(* The gate: the hits of a window that is full stay, the others give way.  *)
LEMMA GateKeepsQuota ==
  ASSUME http \in [HttpRequests -> RequestRecords], clock \in Nat, QuotaInv, NEW r \in HttpRequests,
         PassesGate(r)
  PROVE  QuotaInv'
<1> DEFINE w == windows[http[r].side]
           hits == InWindow(w, clock)
<1>1. PICK side \in Sides : side = http[r].side
  BY DEF RequestRecords
<1>2. /\ UNCHANGED <<clock, tier>> /\ http[r].at = "gate" /\ http[r] \in RequestRecords
      /\ http[r].hit = -1 /\ windows \in [Sides -> Seq(Int)]
  BY DEF PassesGate, QuotaInv
<1>3. \/ UNCHANGED windows /\ (Reply(r, 500) \/ Reply(r, 403))
      \/ Reply(r, 429) /\ windows' = [windows EXCEPT ![side] = hits]
      \/ /\ ~OverLimit(hits)
         /\ Goes(r, [http[r] EXCEPT !.at = "handler", !.hit = clock])
         /\ windows' = [windows EXCEPT ![side] = Append(hits, clock)]
  <2>1. \/ UNCHANGED windows /\ (Reply(r, 500) \/ Reply(r, 403))
        \/ IF OverLimit(hits)
           THEN Reply(r, 429) /\ windows' = [windows EXCEPT ![side] = hits]
           ELSE /\ Goes(r, [http[r] EXCEPT !.at = "handler", !.hit = clock])
                /\ windows' = [windows EXCEPT ![side] = Append(hits, clock)]
    BY <1>1 DEF PassesGate
  <2> HIDE DEF hits
  <2>2. CASE OverLimit(hits)
    BY <2>1, <2>2
  <2>3. CASE ~OverLimit(hits)
    BY <2>1, <2>3
  <2> QED
    BY <2>2, <2>3
<1>4. hits \in Seq(Int)
  <2>1. w \in Seq(Int) /\ clock \in Int
    BY <1>1, <1>2
  <2> HIDE DEF w
  <2> QED
    BY <2>1, WindowKeepsHits
<1>5. CASE UNCHANGED windows /\ (Reply(r, 500) \/ Reply(r, 403))
  <2>1. Quiet(http, http')
    BY <1>5, ReplyIsQuiet
  <2> QED
    BY <1>2, <1>5, <2>1, QuietStepKeepsQuota
<1>6. CASE Reply(r, 429) /\ windows' = [windows EXCEPT ![side] = hits]
  <2>1. Quiet(http, http')
    BY <1>6, ReplyIsQuiet
  <2>2. Recorded(http, side, clock - WindowTicks, hits)
    <3>1. w \in Seq(Int) /\ Recorded(http, side, clock - WindowTicks, w) /\ clock \in Int
      BY <1>1, <1>2 DEF QuotaInv
    <3>2. \A q \in HttpRequests : http[q].hit \in Int
      BY DEF RequestRecords
    <3> HIDE DEF w
    <3> QED
      BY <3>1, <3>2, WindowKeepsRecord
  <2> HIDE DEF hits
  <2>3. windows' \in [Sides -> Seq(Int)]
    BY <1>2, <1>4, <1>6
  <2>4. \A s \in Sides : Recorded(http, s, clock - WindowTicks, windows'[s])
    <3>1. \A s \in Sides : Recorded(http, s, clock - WindowTicks, windows[s])
      BY DEF QuotaInv
    <3>2. \A s \in Sides : windows'[s] = IF s = side THEN hits ELSE windows[s]
      BY <1>2, <1>6
    <3> QED
      BY <2>2, <3>1, <3>2
  <2>5. clock' \in Nat /\ clock <= clock' /\ tier' = tier
    BY <1>2
  <2> QED
    BY <2>1, <2>3, <2>4, <2>5, QuietKeepsQuota
<1>7. CASE /\ ~OverLimit(hits)
           /\ Goes(r, [http[r] EXCEPT !.at = "handler", !.hit = clock])
           /\ windows' = [windows EXCEPT ![side] = Append(hits, clock)]
  <2>1. PICK q : q = [http[r] EXCEPT !.at = "handler", !.hit = clock] /\ Goes(r, q)
    BY <1>7
  <2>2. q \in RequestRecords /\ q.at = "handler" /\ q.hit = clock /\ q.side = side
    <3>1. PICK p : p = [http[r] EXCEPT !.at = "handler"]
      OBVIOUS
    <3>2. p \in RequestRecords /\ p.at = "handler" /\ p.side = side
      BY <1>1, <1>2, <3>1, StageChanges DEF Stages
    <3>3. q = [p EXCEPT !.hit = clock] /\ clock \in Int
      BY <1>2, <2>1, <3>1
    <3> QED
      BY <3>2, <3>3, HitChanges
  <2>3. /\ http'[r].hit = clock /\ http'[r].side = side /\ http'[r].at = "handler"
        /\ \A p \in HttpRequests \ {r} :
             http'[p].hit = http[p].hit /\ http'[p].side = http[p].side /\ http'[p].at = http[p].at
    BY <2>1, <2>2, GoesChanges
  <2>4. Len(hits) < Limit(tier)
    <3>1. ~(Len(hits) >= Limit(tier))
      BY <1>7 DEF OverLimit
    <3>2. Limit(tier) \in Nat /\ Len(hits) \in Nat
      BY <1>4, LimitIsNat DEF QuotaInv
    <3> QED
      BY <3>1, <3>2
  <2>5. PICK v \in Seq(Int) : v = InWindow(windows[side], clock) /\ v = hits
    BY <1>1, <1>4
  <2>6. Len(v) < Limit(tier) /\ windows' = [windows EXCEPT ![side] = Append(v, clock)]
    BY <1>7, <2>4, <2>5
  <2> HIDE DEF hits, w
  <2> QED
    BY <1>1, <1>2, <2>3, <2>5, <2>6, LettingInKeepsQuota
<1> QED
  BY <1>3, <1>5, <1>6, <1>7

(* However long the run, and wherever a window of the rate limit is laid   *)
(* on it, no more reads, or writes, were let in during it than the tier    *)
(* allows (recordTransitionWithinLimit of entitlements-iface/src/quota.ts).*)
THEOREM QuotasAreKept == GateSpec => []QuotaHolds
<1>1. GateInit => QuotaInv
  <2> SUFFICES ASSUME GateInit PROVE QuotaInv
    OBVIOUS
  <2>1. \A r \in HttpRequests : http[r].hit = -1
    BY DEF GateInit, NoRequest
  <2>2. clock = 0 /\ tier \in Nat /\ windows = [s \in Sides |-> <<>>]
    BY GateAssumption DEF GateInit
  <2>3. windows \in [Sides -> Seq(Int)]
    BY <2>2
  <2>4. ASSUME NEW s \in Sides PROVE Recorded(http, s, clock - WindowTicks, windows[s])
    <3>1. Counts(http, s, clock - WindowTicks) = {}
      BY <2>1 DEF Counts
    <3>2. <<>> \in [{} -> DOMAIN windows[s]]
      OBVIOUS
    <3> QED
      BY <3>1, <3>2 DEF Recorded
  <2>5. QuotaHolds
    <3> SUFFICES ASSUME NEW s \in Sides, NEW t \in 0..MaxClock
                 PROVE  Cardinality(InSpan(http, s, t)) <= Limit(tier)
      BY DEF QuotaHolds, InSpan
    <3>1. InSpan(http, s, t) = {}
      BY <2>1, GateAssumption DEF InSpan
    <3>2. Cardinality({}) = 0
      BY FS_EmptySet
    <3>3. Limit(tier) \in Nat
      BY <2>2, LimitIsNat
    <3> QED
      BY <3>1, <3>2, <3>3
  <2>6. \A r \in HttpRequests : http[r].hit \in -1..clock
    BY <2>1, <2>2
  <2> QED
    BY <2>1, <2>2, <2>3, <2>4, <2>5, <2>6 DEF QuotaInv
<1>2. AuthInv /\ QuotaInv /\ [GateNext]_gateVars => QuotaInv'
  <2> SUFFICES ASSUME AuthInv, QuotaInv, [GateNext]_gateVars PROVE QuotaInv'
    OBVIOUS
  <2>1. http \in [HttpRequests -> RequestRecords] /\ clock \in Nat
    BY DEF AuthInv, GateTypes
  <2>2. Quiet(http, http)
    BY DEF Quiet, QuotaInv
  <2>3. CASE GateTick
    <3>1. http' = http /\ windows' = windows /\ tier' = tier /\ clock' = clock + 1
      BY <2>3 DEF GateTick
    <3>2. Quiet(http, http')
      BY <2>2, <3>1
    <3>3. windows' \in [Sides -> Seq(Int)]
          /\ \A s \in Sides : Recorded(http, s, clock - WindowTicks, windows'[s])
      BY <3>1 DEF QuotaInv
    <3>4. clock' \in Nat /\ clock <= clock'
      BY <2>1, <3>1
    <3> QED
      BY <2>1, <3>1, <3>2, <3>3, <3>4, QuietKeepsQuota
  <2>4. CASE UNCHANGED gateVars
    <3>1. http' = http /\ UNCHANGED <<clock, tier, windows>>
      BY <2>4 DEF gateVars
    <3>2. Quiet(http, http')
      BY <2>2, <3>1
    <3> QED
      BY <2>1, <3>1, <3>2, QuietStepKeepsQuota
  <2>5. ASSUME NEW r \in HttpRequests, GateStep(r) \/ LookupFails(r)
        PROVE  QuotaInv'
    <3>1. CASE PassesGate(r)
      BY <2>1, <3>1, GateKeepsQuota
    <3>2. CASE \/ FromMemory(r) \/ PrimaryLookup(r) \/ ClearGrace(r) \/ GraceLookup(r)
               \/ Touch(r) \/ LookupFails(r) \/ Handles(r)
      BY <2>1, <3>2, LookupIsQuiet, QuietStepKeepsQuota
    <3> QED
      BY <2>5, <3>1, <3>2 DEF GateStep
  <2>6. ASSUME NEW r \in HttpRequests, NEW s \in Sides, NEW t \in Bearers, Arrives(r, s, t)
        PROVE  QuotaInv'
    BY <2>1, <2>6, ArrivalIsQuiet, QuietStepKeepsQuota
  <2>7. ASSUME NEW k \in KeyRows, RevokeKey(k) \/ \E t \in Tokens : AddKey(k, t) \/ RotateKey(k, t)
        PROVE  QuotaInv'
    BY <2>1, <2>7, OperatorIsQuiet, QuietStepKeepsQuota
  <2> QED
    BY <2>3, <2>4, <2>5, <2>6, <2>7 DEF GateNext, Bearers
<1>3. QuotaInv => QuotaHolds
  BY DEF QuotaInv
<1> QED
  BY <1>1, <1>2, <1>3, AuthAlways, PTL DEF GateSpec


-----------------------------------------------------------------------------
(* GovernedTool.                                                           *)

ToolRecords ==
  [at : {"none", "start", "get", "move", "notify", "tool", "ended"}, approval : BOOLEAN,
   goal : {Analysis, Pending, Executing, Done}, current : ToolStates, runs : Nat,
   answer : {"none", "threw", "output", "pending_approval"}]

(* What a call is heading for tells what it has behind it.                 *)
Governed(q, visited) ==
  /\ q.at # "ended" => q.answer = "none"
  /\ q.at \in {"none", "start"} => q.goal = Analysis
  /\ q.goal = Analysis => q.runs = 0 /\ q.at \notin {"notify", "tool"}
  /\ q.goal # Analysis => Analysis \in visited
  /\ q.goal = Pending => q.approval /\ q.runs = 0 /\ q.at # "tool"
  /\ q.at = "notify" => q.goal = Pending /\ Pending \in visited
  /\ q.goal = Executing => ~q.approval /\ q.at # "notify"
  /\ q.at = "tool" => Executing \in visited /\ q.goal = Executing
  /\ q.goal = Executing /\ q.at # "ended" => q.runs = 0
  /\ q.goal = Done => q.runs = 1
  /\ q.runs = 1 => ~q.approval /\ {Analysis, Executing} \subseteq visited
  /\ q.runs <= 1
  /\ q.answer = "output" => q.runs = 1 /\ Done \in visited
  /\ q.answer = "pending_approval" => q.runs = 0 /\ Pending \in visited

ToolInv ==
  /\ tools \in [ToolCalls -> ToolRecords]
  /\ toolLoops \in [ToolCalls -> [state : ToolStates \cup {"none"}, visited : SUBSET ToolStates]]
  /\ \A c \in ToolCalls :
       /\ toolLoops[c].state # "none" => toolLoops[c].state \in toolLoops[c].visited
       /\ Governed(tools[c], toolLoops[c].visited)

LEMMA GovernedGrows ==
  ASSUME NEW q \in ToolRecords, NEW V, NEW W, V \subseteq W, Governed(q, V)
  PROVE  Governed(q, W)
  BY DEF Governed, ToolRecords

(* A call goes on from where its loop was taken to.                        *)
LEMMA ReachedIsGoverned ==
  ASSUME NEW q \in ToolRecords, NEW V, Governed(q, V), q.goal \in V, q.at \in {"get", "move"}
  PROVE  Reached(q) \in ToolRecords /\ Governed(Reached(q), V)
<1> USE DEF ToolRecords, Governed, Reached, Analysis, Pending, Executing, Done
<1>1. CASE q.goal = Analysis
  BY <1>1
<1>2. CASE q.goal = Pending
  BY <1>2
<1>3. CASE q.goal = Executing
  BY <1>3
<1>4. CASE q.goal = Done
  BY <1>4
<1> QED
  BY <1>1, <1>2, <1>3, <1>4

(* One call and its loop change, to something governed.                    *)
LEMMA OneCallChanges ==
  ASSUME ToolInv, NEW c \in ToolCalls, NEW q \in ToolRecords, Becomes(c, q),
         \/ UNCHANGED toolLoops
         \/ \E s \in ToolStates : Moved(c, s),
         Governed(q, toolLoops'[c].visited)
  PROVE  ToolInv'
<1>1. /\ tools' \in [ToolCalls -> ToolRecords]
      /\ toolLoops' \in [ToolCalls -> [state : ToolStates \cup {"none"}, visited : SUBSET ToolStates]]
      /\ \A d \in ToolCalls : toolLoops'[d].state # "none" => toolLoops'[d].state \in toolLoops'[d].visited
  <2>1. CASE UNCHANGED toolLoops
    BY <2>1 DEF ToolInv, Becomes
  <2>2. ASSUME NEW s \in ToolStates, Moved(c, s) PROVE <1>1!:
    <3>1. toolLoops[c] \in [state : ToolStates \cup {"none"}, visited : SUBSET ToolStates]
      BY DEF ToolInv
    <3>2. toolLoops' = [toolLoops EXCEPT ![c] = [state |-> s, visited |-> toolLoops[c].visited \cup {s}]]
      BY <2>2, <3>1 DEF Moved, ToolInv
    <3> QED
      BY <3>1, <3>2 DEF ToolInv, Becomes
  <2> QED
    BY <2>1, <2>2
<1>2. \A d \in ToolCalls \ {c} : tools'[d] = tools[d] /\ toolLoops'[d] = toolLoops[d]
  BY DEF ToolInv, Becomes, Moved
<1>3. tools'[c] = q
  BY DEF ToolInv, Becomes
<1> QED
  BY <1>1, <1>2, <1>3 DEF ToolInv

LEMMA ToolStepKeepsInv ==
  ASSUME ToolInv, NEW c \in ToolCalls,
         \/ \E approval \in BOOLEAN : ToolCalled(c, approval)
         \/ ToolStep(c)
  PROVE  ToolInv'
<1> DEFINE q == tools[c]
           V == toolLoops[c].visited
<1>1. q \in ToolRecords /\ Governed(q, V)
  BY DEF ToolInv
<1> USE DEF ToolRecords, Analysis, Pending, Executing, Done, Initial, Denied, ToolStates
<1>2. ASSUME Throws(c), UNCHANGED toolLoops, q.at \notin {"none", "ended"}
      PROVE  ToolInv'
  <2> DEFINE r == [q EXCEPT !.at = "ended", !.answer = "threw"]
  <2>1. r \in ToolRecords /\ Governed(r, V)
    BY <1>1, <1>2 DEF Governed
  <2> QED
    BY <1>2, <2>1, OneCallChanges DEF Throws
<1>3. CASE \E approval \in BOOLEAN : ToolCalled(c, approval)
  <2>1. PICK approval \in BOOLEAN : ToolCalled(c, approval)
    BY <1>3
  <2> DEFINE r == [NoTool EXCEPT !.at = "start", !.approval = approval]
  <2>2. NoTool \in ToolRecords /\ Governed(NoTool, V) /\ NoTool.at = "none"
    BY DEF NoTool, Governed
  <2>3. r \in ToolRecords
    <3>1. CASE approval = TRUE
      BY <2>2, <3>1
    <3>2. CASE approval = FALSE
      BY <2>2, <3>2
    <3> QED
      BY <3>1, <3>2
  <2>4. /\ r.at = "start" /\ r.goal = NoTool.goal /\ r.runs = NoTool.runs
        /\ r.answer = NoTool.answer
    BY <2>2
  <2>5. Governed(r, V)
    BY <2>2, <2>4 DEF Governed
  <2> QED
    BY <2>1, <2>3, <2>5, OneCallChanges DEF ToolCalled
<1>4. CASE StartGovernedLoop(c)
  <2>1. CASE Becomes(c, [q EXCEPT !.at = "get"]) /\ Moved(c, Initial)
    <3> DEFINE r == [q EXCEPT !.at = "get"]
    <3>1. r \in ToolRecords /\ \A W : V \subseteq W => Governed(r, W)
      BY <1>1, <1>4 DEF StartGovernedLoop, Governed
    <3>2. V \subseteq toolLoops'[c].visited
      BY <2>1 DEF Moved, ToolInv
    <3> HIDE DEF r, V
    <3> QED
      BY <2>1, <3>1, <3>2, OneCallChanges DEF r
  <2>2. CASE Throws(c) /\ UNCHANGED toolLoops
    BY <1>2, <1>4, <2>2 DEF StartGovernedLoop
  <2> QED
    BY <1>4, <2>1, <2>2 DEF StartGovernedLoop
<1>5. CASE GetToolState(c)
  <2>1. CASE toolLoops[c].state = q.goal
    <3>1. q.goal \in V
      BY <1>1, <2>1 DEF ToolInv
    <3>2. Reached(q) \in ToolRecords /\ Governed(Reached(q), V)
      BY <1>1, <1>5, <3>1, ReachedIsGoverned DEF GetToolState
    <3>3. Becomes(c, Reached(q)) /\ UNCHANGED toolLoops
      BY <1>5, <2>1 DEF GetToolState
    <3> HIDE DEF q, V
    <3> QED
      BY <3>2, <3>3, OneCallChanges DEF V
  <2>2. CASE toolLoops[c].state # q.goal /\ <<toolLoops[c].state, q.goal>> \in ToolPaths
    <3> DEFINE r == [q EXCEPT !.at = "move", !.current = toolLoops[c].state]
    <3>1. toolLoops[c].state \in ToolStates
      BY <2>2, ToolAssumption
    <3>2. r \in ToolRecords /\ Governed(r, V)
      BY <1>1, <1>5, <3>1 DEF GetToolState, Governed
    <3> QED
      BY <1>5, <2>2, <3>2, OneCallChanges DEF GetToolState
  <2>3. CASE toolLoops[c].state # q.goal /\ <<toolLoops[c].state, q.goal>> \notin ToolPaths
    BY <1>2, <1>5, <2>3 DEF GetToolState
  <2> QED
    BY <2>1, <2>2, <2>3
<1>6. CASE MoveTool(c)
  <2>1. CASE Becomes(c, Reached(q)) /\ Moved(c, q.goal)
    <3>1. toolLoops'[c].visited = V \cup {q.goal}
      BY <2>1 DEF Moved, ToolInv
    <3>2. Governed(q, V \cup {q.goal}) /\ q.goal \in ToolStates
      BY <1>1, GovernedGrows
    <3>3. Reached(q) \in ToolRecords /\ Governed(Reached(q), V \cup {q.goal})
      BY <1>1, <1>6, <3>2, ReachedIsGoverned DEF MoveTool
    <3> HIDE DEF q, V
    <3> QED
      BY <2>1, <3>1, <3>2, <3>3, OneCallChanges
  <2>2. CASE Throws(c) /\ UNCHANGED toolLoops
    BY <1>2, <1>6, <2>2 DEF MoveTool
  <2> QED
    BY <1>6, <2>1, <2>2 DEF MoveTool
<1>7. CASE Notify(c)
  <2> DEFINE r == [q EXCEPT !.at = "ended", !.answer = "pending_approval"]
  <2>1. r \in ToolRecords /\ Governed(r, V)
    BY <1>1, <1>7 DEF Notify, Governed
  <2> QED
    BY <1>2, <1>7, <2>1, OneCallChanges DEF Notify
<1>8. CASE RunTool(c)
  <2> DEFINE r == [q EXCEPT !.runs = @ + 1, !.at = "get", !.goal = Done]
             x == [q EXCEPT !.runs = @ + 1, !.at = "ended", !.answer = "threw"]
  <2>1. /\ q.runs = 0 /\ ~q.approval /\ q.goal = Executing /\ q.answer = "none"
        /\ {Analysis, Executing} \subseteq V
    BY <1>1, <1>8 DEF RunTool, Governed
  <2>4. r \in ToolRecords /\ x \in ToolRecords
    <3>1. q.runs + 1 \in Nat
      BY <1>1
    <3> QED
      BY <1>1, <3>1
  <2>5. Governed(r, V)
    BY <1>1, <2>1 DEF Governed
  <2>6. Governed(x, V)
    BY <1>1, <2>1 DEF Governed
  <2>2. Becomes(c, r) \/ Becomes(c, x)
    BY <1>1, <1>8 DEF RunTool
  <2>3. UNCHANGED toolLoops
    BY <1>8 DEF RunTool
  <2> HIDE DEF r, x
  <2> QED
    BY <2>2, <2>3, <2>4, <2>5, <2>6, OneCallChanges
<1> QED
  BY <1>3, <1>4, <1>5, <1>6, <1>7, <1>8 DEF ToolStep

(* Whatever definition the loop has and whoever moves it, a governed tool  *)
(* runs once at most, after EXECUTING, and never if it needs approval.     *)
THEOREM ToolsAreGoverned == ToolSpec => []ToolsRunGoverned
<1>1. ToolInit => ToolInv
  BY DEF ToolInit, ToolInv, NoTool, ToolRecords, Governed, Analysis, Pending, Executing, Done,
         Initial, Denied, ToolStates
<1>2. ToolInv /\ [ToolNext]_toolVars => ToolInv'
  <2> SUFFICES ASSUME ToolInv, [ToolNext]_toolVars PROVE ToolInv'
    OBVIOUS
  <2>1. CASE UNCHANGED toolVars
    BY <2>1 DEF toolVars, ToolInv
  <2>2. ASSUME NEW c \in ToolCalls, NEW s \in ToolStates, OthersMove(c, s) PROVE ToolInv'
    <3>1. Becomes(c, tools[c]) /\ tools[c] \in ToolRecords /\ Moved(c, s)
      BY <2>2 DEF OthersMove, Becomes, ToolInv
    <3>2. toolLoops[c].visited \subseteq toolLoops'[c].visited
      BY <3>1 DEF Moved, ToolInv
    <3>3. Governed(tools[c], toolLoops'[c].visited)
      BY <3>1, <3>2, GovernedGrows DEF ToolInv
    <3> QED
      BY <3>1, <3>3, OneCallChanges
  <2> QED
    BY <2>1, <2>2, ToolStepKeepsInv DEF ToolNext
<1>3. ToolInv => ToolsRunGoverned
  BY DEF ToolInv, Governed, ToolRecords, ToolsRunGoverned
<1> QED
  BY <1>1, <1>2, <1>3, PTL DEF ToolSpec

-----------------------------------------------------------------------------
(* OpenClawBus.                                                            *)

EmitFates == {"none", "connecting", "open", "closing", "closed"}

Live(s) == sockets[s] \in {"connecting", "open", "closing"}

(* One line of reconnections: a socket or a timer, never both or two; and  *)
(* a socket that is not closing is the one the bus knows.                  *)
BusInv ==
  /\ sockets \in [Sockets -> EmitFates]
  /\ ws \in 0 .. MaxSockets
  /\ timers \subseteq Sockets \cap {reconnectTimer}
  /\ \A s, u \in Sockets : Live(s) /\ Live(u) => s = u
  /\ \A s \in Sockets : Live(s) => timers = {}
  /\ \A s \in Sockets : sockets[s] \in {"connecting", "open"} => s = ws
  /\ autoReconnect /\ ~stopped =>
       /\ timers # {} \/ \E s \in Sockets : Live(s)
       /\ \A s \in Sockets : Live(s) => s = ws
  /\ isConnected => ws \in Sockets /\ sockets[ws] \in {"open", "closing"}

LEMMA BusInitially == BusInit => BusInv
<1> SUFFICES ASSUME BusInit PROVE BusInv
  OBVIOUS
<1>1. 1 \in Sockets
  BY BusAssumption DEF Sockets
<1> QED
  BY <1>1 DEF BusInit, BusInv, EmitFates, Live, Sockets

LEMMA SocketStepKeepsInv ==
  ASSUME BusInv, NEW s \in Sockets,
         SocketOpens(s) \/ SocketFails(s) \/ SocketEnds(s) \/ SocketCloses(s) \/ Reconnects(s)
  PROVE  BusInv'
<1> USE DEF Live, EmitFates
<1>1. CASE SocketOpens(s)
  BY <1>1 DEF SocketOpens, BusInv
<1>2. CASE SocketFails(s)
  BY <1>2 DEF SocketFails, BusInv
<1>3. CASE SocketEnds(s)
  BY <1>3 DEF SocketEnds, BusInv
<1>4. CASE SocketCloses(s)
  BY <1>4 DEF SocketCloses, BusInv
<1>5. CASE Reconnects(s)
  <2>1. PICK n \in Unused : sockets' = Opened(n) /\ ws' = n
    BY <1>5 DEF Reconnects
  <2>2. timers = {s} /\ timers' = {} /\ \A u \in Sockets : ~Live(u)
    BY <1>5 DEF Reconnects, BusInv
  <2>3. n \in Sockets /\ n \in 1 .. MaxSockets
    BY <2>1 DEF Unused, Sockets
  <2> QED
    BY <1>5, <2>1, <2>2, <2>3 DEF Reconnects, Opened, BusInv
<1> QED
  BY <1>1, <1>2, <1>3, <1>4, <1>5

LEMMA DisconnectKeepsInv ==
  ASSUME BusInv, Disconnect
  PROVE  BusInv'
<1>1. timers' = {} /\ ws' = 0 /\ isConnected' = FALSE /\ stopped' = TRUE
  BY DEF Disconnect, BusInv
<1>2. \A s \in Sockets : /\ sockets'[s] \in EmitFates \ {"connecting", "open"}
                         /\ Live(s)' => Live(s)
  BY DEF Disconnect, BusInv, EmitFates, Live
<1>3. sockets' \in [Sockets -> EmitFates]
  BY <1>2 DEF Disconnect
<1> QED
  BY <1>1, <1>2, <1>3, BusAssumption DEF BusInv, Live, EmitFates

(* However closes, failures, reconnections and disconnect() follow each    *)
(* other, and however many there are, one line of reconnections is left at *)
(* most, and exactly one until disconnect().                               *)
THEOREM OneLineOfReconnections == BusSpec => []ReconnectsOnce
<1>1. BusInv /\ [BusNext]_busVars => BusInv'
  <2> SUFFICES ASSUME BusInv, [BusNext]_busVars PROVE BusInv'
    OBVIOUS
  <2>1. CASE UNCHANGED <<autoReconnect, sockets, ws, isConnected, timers, reconnectTimer, stopped>>
    BY <2>1 DEF BusInv, Live
  <2>2. CASE \E e \in Emits : Emit(e) \/ InnerDone(e) \/ Forward(e)
    BY <2>1, <2>2 DEF Emit, InnerDone, Forward
  <2> QED
    BY <2>1, <2>2, SocketStepKeepsInv, DisconnectKeepsInv DEF BusNext, busVars
<1>2. BusInv => ReconnectsOnce
  <2> SUFFICES ASSUME BusInv PROVE ReconnectsOnce
    OBVIOUS
  <2>1. timers = {} \/ timers = {reconnectTimer}
    BY DEF BusInv
  <2>2. LiveSockets = {} \/ \E s \in Sockets : LiveSockets = {s}
    BY DEF BusInv, LiveSockets, Live
  <2>3. LiveSockets = {} \/ timers = {}
    BY DEF BusInv, LiveSockets, Live
  <2>4. Cardinality({}) = 0 /\ \A x : Cardinality({x}) = 1
    BY FS_EmptySet, FS_Singleton
  <2>5. autoReconnect /\ ~stopped => /\ LiveSockets # {} \/ timers # {}
                                    /\ LiveSockets \subseteq {ws}
    BY DEF BusInv, LiveSockets, Live
  <2>6. Cardinality(LiveSockets) \in {0, 1} /\ Cardinality(timers) \in {0, 1}
    BY <2>1, <2>2, <2>4
  <2>7. Cardinality(LiveSockets) = 0 \/ Cardinality(timers) = 0
    BY <2>3, <2>4
  <2>8. autoReconnect /\ ~stopped => Cardinality(LiveSockets) = 1 \/ Cardinality(timers) = 1
    BY <2>1, <2>2, <2>4, <2>5
  <2>9. isConnected => ws # 0 /\ sockets[ws] \in {"open", "closing"}
    BY BusAssumption DEF BusInv, Sockets
  <2> QED
    BY <2>5, <2>6, <2>7, <2>8, <2>9 DEF ReconnectsOnce
<1> QED
  BY <1>1, <1>2, BusInitially, PTL DEF BusSpec

-----------------------------------------------------------------------------
(* StatusClient.                                                           *)

IsUpdate(i) == stream[i].event = "loop-state-update"
IsResync(i) == stream[i].event = "resync-required"

Coming(m) == \E i \in DOMAIN stream : IsUpdate(i) /\ stream[i].id = m

Page(c, last) ==
  [events |-> (c + 1)..last, nextCursor |-> IF last > c THEN last ELSE 0,
   hasMore |-> last = c + PageSize]

Served == pulling # NoPull /\ pulling.page # <<>>

(* What the stream does not bring: events after a resync that is still to  *)
(* come, or after the gap that is drained, unless the last page was cut    *)
(* before them.                                                            *)
LeftToPulls(m) ==
  \/ \E k \in DOMAIN stream : IsResync(k) /\ m > stream[k].next
  \/ /\ pageTo > 0 /\ m > pageTo
     /\ Served /\ ~pulling.page[1].hasMore => m \in pulling.page[1].events

StatusTypes ==
  /\ log \in 0 .. MaxLog
  /\ mode \in {"catchup", "open", "live"}
  /\ stream \in Seq(Frames)
  /\ pageTo \in 0 .. log /\ cursor \in 0 .. log
  /\ pulling # NoPull =>
       /\ pulling = [since |-> PullFrom, page |-> pulling.page]
       /\ \/ pulling.page = <<>>
          \/ \E last \in PullFrom .. log :
               pulling.page = <<Page(PullFrom, last)>>

(* The order of the stream: updates ascend, a resync stands between those  *)
(* it covers and those it does not.                                        *)
StreamInv ==
  /\ \A i \in DOMAIN stream :
       /\ IsUpdate(i) => stream[i].id <= log
       /\ IsResync(i) => stream[i].next <= log /\ pageTo = 0
  /\ \A i, j \in DOMAIN stream : i < j =>
       /\ IsUpdate(i) /\ IsUpdate(j) => stream[i].id < stream[j].id
       /\ IsUpdate(i) /\ IsResync(j) => stream[i].id <= stream[j].next
       /\ IsResync(i) /\ IsUpdate(j) => stream[i].next < stream[j].id
       /\ ~(IsResync(i) /\ IsResync(j))

StatusInv ==
  /\ StatusTypes
  /\ StreamInv
  /\ NothingIsSkipped
  /\ 1 .. pageTo \subseteq handled
  /\ mode # "live" => stream = <<>> /\ pageTo = 0
  /\ mode = "open" => pulling = NoPull
  /\ mode = "live" =>
       /\ pulling # NoPull => pageTo > 0
       /\ \A m \in 1 .. log : m \in handled \/ Coming(m) \/ LeftToPulls(m)

LEMMA PageShape ==
  ASSUME log \in Nat, NEW c \in 0 .. log
  PROVE  \E last \in c .. log :
           /\ PageSince(c) = Page(c, last)
           /\ last # c + PageSize => last = log
           /\ last > c \/ log = c
<1> DEFINE last == IF c + PageSize < log THEN c + PageSize ELSE log
<1>1. last \in c .. log /\ (last # c + PageSize => last = log) /\ (last > c \/ log = c)
  BY StatusAssumption
<1>2. PageSince(c) = Page(c, last)
  BY DEF PageSince, Page
<1> QED
  BY <1>1, <1>2

LEMMA UpdatesOfInterval ==
  ASSUME NEW a \in Nat, NEW b \in Nat, a <= b
  PROVE  Updates(a + 1 .. b) = [i \in 1 .. b - a |-> [event |-> "loop-state-update", id |-> a + i]]
<1>1. CASE a = b
  BY <1>1 DEF Updates
<1>2. CASE a < b
  <2> DEFINE S == a + 1 .. b
  <2>1. a + 1 \in S /\ b \in S /\ S # {} /\ (\A k \in S : a + 1 <= k /\ b >= k)
    BY <1>2
  <2>2. (CHOOSE n \in S : \A k \in S : n <= k) = a + 1
    BY <2>1
  <2>3. (CHOOSE n \in S : \A k \in S : n >= k) = b
    BY <2>1
  <2>4. Updates(S) = [i \in 1 .. b - (a + 1) + 1 |-> [event |-> "loop-state-update", id |-> a + 1 + i - 1]]
    BY <2>1, <2>2, <2>3 DEF Updates
  <2>5. b - (a + 1) + 1 = b - a /\ \A i \in 1 .. b - a : a + 1 + i - 1 = a + i
    OBVIOUS
  <2> QED
    BY <2>4, <2>5
<1> QED
  BY <1>1, <1>2

(* A frame arrives.                                                        *)
LEMMA TailOfStream ==
  ASSUME stream \in Seq(Frames), stream # <<>>, stream' = Tail(stream)
  PROVE  /\ stream' \in Seq(Frames)
         /\ 1 \in DOMAIN stream /\ Head(stream) = stream[1]
         /\ \A i \in DOMAIN stream' : i + 1 \in DOMAIN stream /\ stream'[i] = stream[i + 1]
         /\ \A i \in DOMAIN stream \ {1} : i - 1 \in DOMAIN stream' /\ stream'[i - 1] = stream[i]
         /\ DOMAIN stream \subseteq Nat \ {0} /\ DOMAIN stream' \subseteq Nat \ {0}
<1>1. /\ stream' \in Seq(Frames) /\ Len(stream') = Len(stream) - 1
      /\ \A i \in 1 .. Len(stream) - 1 : stream'[i] = stream[i + 1]
      /\ DOMAIN stream = 1 .. Len(stream) /\ DOMAIN stream' = 1 .. Len(stream')
      /\ Len(stream) \in Nat /\ Len(stream) > 0
      /\ Head(stream) = stream[1]
  BY HeadTailProperties, LenProperties, EmptySeq
<1> QED
  BY <1>1

LEMMA FrameKeepsInv ==
  ASSUME StatusInv, FrameArrives
  PROVE  StatusInv'
<1> DEFINE f == stream[1]
<1>1. stream \in Seq(Frames) /\ stream # <<>> /\ stream' = Tail(stream) /\ mode = "live"
  BY DEF StatusInv, StatusTypes, FrameArrives
<1>2. /\ stream' \in Seq(Frames)
      /\ 1 \in DOMAIN stream /\ Head(stream) = f /\ f \in Frames
      /\ \A i \in DOMAIN stream' : i + 1 \in DOMAIN stream /\ stream'[i] = stream[i + 1]
      /\ \A i \in DOMAIN stream \ {1} : i - 1 \in DOMAIN stream' /\ stream'[i - 1] = stream[i]
      /\ DOMAIN stream \subseteq Nat \ {0} /\ DOMAIN stream' \subseteq Nat \ {0}
  BY <1>1, TailOfStream
<1>3. Dispatch(f) /\ UNCHANGED <<log, mode, pulling, breaks>>
  BY <1>2 DEF FrameArrives
<1>4. \A i \in DOMAIN stream' : i + 1 \in DOMAIN stream /\ (IsUpdate(i)' <=> IsUpdate(i + 1))
                              /\ (IsResync(i)' <=> IsResync(i + 1)) /\ stream'[i] = stream[i + 1]
  BY <1>2 DEF IsUpdate, IsResync
<1>5. log \in Nat /\ pageTo \in 0 .. log /\ cursor \in 0 .. log
  BY DEF StatusInv, StatusTypes
<1>6. \A i \in DOMAIN stream \ {1} : i - 1 \in DOMAIN stream' /\ (IsUpdate(i - 1)' <=> IsUpdate(i))
                                   /\ (IsResync(i - 1)' <=> IsResync(i)) /\ stream'[i - 1] = stream[i]
  BY <1>2 DEF IsUpdate, IsResync
<1>7. CASE f.event = "ping"
  <2>1. ~IsUpdate(1) /\ ~IsResync(1) /\ UNCHANGED <<log, mode, pulling, pageTo, cursor, handled>>
    BY <1>3, <1>7 DEF Dispatch, IsUpdate, IsResync
  <2>2. StatusTypes'
    BY <1>2, <2>1 DEF StatusInv, StatusTypes, PullFrom
  <2>3. StreamInv'
    BY <1>2, <1>4, <2>1, SMTT(30) DEF StatusInv, StreamInv
  <2>4. \A m \in 1 .. log : (Coming(m) => Coming(m)') /\ (LeftToPulls(m) => LeftToPulls(m)')
    BY <1>2, <1>6, <2>1 DEF Coming, LeftToPulls, Served
  <2> QED
    BY <1>1, <2>1, <2>2, <2>3, <2>4 DEF StatusInv, NothingIsSkipped
<1>8. CASE f.event = "loop-state-update"
  <2>1. IsUpdate(1) /\ ~IsResync(1) /\ UNCHANGED <<log, mode, pulling, pageTo>> /\ f.id \in Nat
    BY <1>2, <1>3, <1>8 DEF Dispatch, IsUpdate, IsResync, Frames
  <2>2. /\ handled' = handled \cup {f.id}
        /\ cursor' = IF pageTo = 0 THEN f.id ELSE cursor
    BY <1>3, <1>8 DEF Dispatch
  <2>3. f.id \in 0 .. log
    BY <1>2, <2>1 DEF StatusInv, StreamInv
  <2>4. StatusTypes'
    BY <1>2, <1>5, <2>1, <2>2, <2>3 DEF StatusInv, StatusTypes, PullFrom
  <2>5. StreamInv'
    BY <1>2, <1>4, <2>1 DEF StatusInv, StreamInv
  <2>6. \A m \in 1 .. log : /\ Coming(m) => Coming(m)' \/ m = f.id
                            /\ LeftToPulls(m) => LeftToPulls(m)'
    BY <1>2, <1>6, <2>1 DEF Coming, LeftToPulls, Served
  <2>7. ASSUME pageTo = 0, NEW m \in 1 .. log, m < f.id
        PROVE  m \in handled
    <3>1. ~Coming(m)
      BY <1>2, <2>1, <2>7 DEF StatusInv, StreamInv, Coming, Frames, IsUpdate
    <3>2. ASSUME NEW k \in DOMAIN stream, IsResync(k)
          PROVE  m <= stream[k].next
      <4>1. k > 1 /\ stream[k].next \in Nat
        BY <1>2, <2>1, <3>2, <1>1 DEF Frames, IsResync
      <4>2. f.id <= stream[k].next
        BY <1>2, <2>1, <3>2, <4>1 DEF StatusInv, StreamInv
      <4> QED
        BY <2>1, <2>7, <4>1, <4>2
    <3>3. ~LeftToPulls(m)
      <4>1. ASSUME NEW k \in DOMAIN stream, IsResync(k), m > stream[k].next
            PROVE  FALSE
        <5>1. m <= stream[k].next /\ stream[k].next \in Nat
          BY <3>2, <4>1, <1>1 DEF Frames, IsResync
        <5> QED
          BY <4>1, <5>1
      <4> QED
        BY <2>7, <4>1 DEF LeftToPulls
    <3> QED
      BY <1>1, <3>1, <3>3 DEF StatusInv
  <2>8. NothingIsSkipped'
    BY <1>5, <2>2, <2>3, <2>7 DEF StatusInv, NothingIsSkipped
  <2> QED
    BY <1>1, <2>1, <2>2, <2>4, <2>5, <2>6, <2>8 DEF StatusInv
<1>9. CASE f.event = "resync-required"
  <2>1. IsResync(1) /\ ~IsUpdate(1) /\ UNCHANGED <<log, mode, pulling, handled, cursor>>
        /\ pageTo' = f.next /\ f.next \in Nat \ {0}
    BY <1>2, <1>3, <1>9 DEF Dispatch, IsUpdate, IsResync, Frames
  <2>2. f.next <= log /\ pageTo = 0 /\ pulling = NoPull
    BY <1>1, <1>2, <2>1 DEF StatusInv, StreamInv
  <2>3. StatusTypes'
    BY <1>2, <1>5, <2>1, <2>2 DEF StatusInv, StatusTypes
  <2>4. \A i \in DOMAIN stream' : ~IsResync(i)'
    BY <1>2, <1>4, <2>1 DEF StatusInv, StreamInv
  <2>5. StreamInv'
    <3>1. ASSUME NEW i \in DOMAIN stream', IsUpdate(i)'
          PROVE  stream'[i].id <= log'
      BY <1>2, <1>4, <2>1, <3>1 DEF StatusInv, StreamInv
    <3>2. ASSUME NEW i \in DOMAIN stream', NEW j \in DOMAIN stream', i < j,
                 IsUpdate(i)', IsUpdate(j)'
          PROVE  stream'[i].id < stream'[j].id
      <4>1. /\ i + 1 \in DOMAIN stream /\ j + 1 \in DOMAIN stream /\ i + 1 < j + 1
            /\ IsUpdate(i + 1) /\ IsUpdate(j + 1)
            /\ stream'[i] = stream[i + 1] /\ stream'[j] = stream[j + 1]
        BY <1>2, <1>4, <3>2
      <4> QED
        BY <4>1 DEF StatusInv, StreamInv
    <3> QED
      BY <2>4, <3>1, <3>2 DEF StreamInv
  <2>6. ASSUME NEW m \in 1 .. f.next
        PROVE  m \in handled
    <3>1. m \in 1 .. log /\ m <= f.next
      BY <2>1, <2>2, <1>5
    <3>2. ~Coming(m)
      BY <1>2, <2>1, <3>1 DEF StatusInv, StreamInv, Coming, Frames, IsUpdate
    <3>3. ~LeftToPulls(m)
      BY <1>2, <2>1, <2>2, <3>1 DEF StatusInv, StreamInv, LeftToPulls, Frames, IsResync
    <3> QED
      BY <1>1, <3>1, <3>2, <3>3 DEF StatusInv
  <2>7. ASSUME NEW m \in 1 .. log, m \notin handled
        PROVE  Coming(m)' \/ LeftToPulls(m)'
    <3>1. m > pageTo' /\ pageTo' > 0
      BY <2>1, <2>6, <2>7, <1>5
    <3>2. ~Served'
      BY <2>1, <2>2 DEF Served
    <3> QED
      BY <3>1, <3>2 DEF LeftToPulls
  <2> QED
    BY <1>1, <2>1, <2>2, <2>3, <2>5, <2>6, <2>7 DEF StatusInv, NothingIsSkipped
<1> QED
  BY <1>2, <1>7, <1>8, <1>9 DEF Frames

(* The consumer pulls.                                                     *)
LEMMA PullKeepsInv ==
  ASSUME StatusInv, Pulls \/ ServesPull \/ PullFails \/ PageArrives
  PROVE  StatusInv'
<1>1. /\ log \in Nat /\ pageTo \in 0 .. log /\ cursor \in 0 .. log
      /\ PullFrom \in 0 .. log /\ UNCHANGED <<log, stream>>
  BY DEF StatusInv, StatusTypes, PullFrom, Pulls, ServesPull, PullFails, PageArrives
<1>2. CASE Pulls
  <2>1. StatusTypes' /\ ~Served'
    BY <1>1, <1>2 DEF StatusInv, StatusTypes, PullFrom, Pulls, Served, NoPull
  <2>2. StreamInv'
    BY <1>2 DEF StatusInv, StreamInv, Pulls, IsUpdate, IsResync
  <2>3. \A m \in 1 .. log : /\ Coming(m) => Coming(m)'
                            /\ LeftToPulls(m) => LeftToPulls(m)'
    BY <1>2, <2>1 DEF Pulls, Coming, LeftToPulls, IsUpdate, IsResync
  <2> QED
    BY <1>2, <2>1, <2>2, <2>3 DEF StatusInv, NothingIsSkipped, Pulls
<1>3. CASE ServesPull
  <2>1. /\ pulling # NoPull /\ pulling = [since |-> PullFrom, page |-> <<>>]
        /\ pulling' = [pulling EXCEPT !.page = <<PageSince(pulling.since)>>]
        /\ UNCHANGED <<mode, pageTo, cursor, handled>>
    BY <1>3 DEF ServesPull, StatusInv, StatusTypes
  <2>2. PICK last \in PullFrom .. log :
          /\ PageSince(PullFrom) = Page(PullFrom, last)
          /\ last # PullFrom + PageSize => last = log
          /\ last > PullFrom \/ log = PullFrom
    BY <1>1, PageShape
  <2>3. pulling' = [since |-> PullFrom, page |-> <<Page(PullFrom, last)>>]
    BY <2>1, <2>2
  <2>4. StatusTypes'
    BY <1>1, <2>1, <2>2, <2>3 DEF StatusInv, StatusTypes, PullFrom
  <2>5. StreamInv'
    BY <1>1, <2>1 DEF StatusInv, StreamInv, IsUpdate, IsResync
  <2>6. ASSUME NEW m \in 1 .. log, LeftToPulls(m), mode = "live"
        PROVE  LeftToPulls(m)'
    <3>1. CASE \E k \in DOMAIN stream : IsResync(k) /\ m > stream[k].next
      BY <1>1, <3>1 DEF LeftToPulls, IsResync
    <3>2. CASE pageTo > 0 /\ m > pageTo
      <4>1. PullFrom = pageTo
        BY <2>6 DEF PullFrom
      <4>2. ~Page(PullFrom, last).hasMore => m \in Page(PullFrom, last).events
        <5>1. /\ Page(PullFrom, last).events = PullFrom + 1 .. last
              /\ Page(PullFrom, last).hasMore = (last = PullFrom + PageSize)
          BY DEF Page
        <5>2. last = log => m \in PullFrom + 1 .. last
          BY <1>1, <3>2, <4>1
        <5> QED
          BY <2>2, <5>1, <5>2
      <4> QED
        BY <2>1, <2>3, <3>2, <4>2 DEF LeftToPulls
    <3> QED
      BY <2>6, <3>1, <3>2 DEF LeftToPulls
  <2>7. \A m \in 1 .. log : Coming(m) => Coming(m)'
    BY <1>1 DEF Coming, IsUpdate
  <2> QED
    BY <1>1, <2>1, <2>3, <2>4, <2>5, <2>6, <2>7 DEF StatusInv, NothingIsSkipped
<1>4. CASE PullFails
  <2>1. StatusTypes' /\ StreamInv' /\ ~Served'
    BY <1>4 DEF StatusInv, StatusTypes, StreamInv, PullFails, Served, IsUpdate, IsResync
  <2>2. \A m \in 1 .. log : /\ Coming(m) => Coming(m)'
                            /\ LeftToPulls(m) => LeftToPulls(m)'
    BY <1>4, <2>1 DEF PullFails, Coming, LeftToPulls, IsUpdate, IsResync
  <2> QED
    BY <1>4, <2>1, <2>2 DEF StatusInv, NothingIsSkipped, PullFails
<1>5. CASE PageArrives
  <2> DEFINE page == pulling.page[1]
             to == IF page.events = {} THEN pulling.since ELSE page.nextCursor
  <2>1. /\ handled' = handled \cup page.events
        /\ pulling' = NoPull /\ pulling # NoPull
        /\ pageTo' = IF mode = "live" /\ page.hasMore THEN to ELSE 0
        /\ cursor' = IF mode = "live" /\ page.hasMore THEN cursor ELSE to
        /\ mode' = IF mode = "live" \/ page.hasMore THEN mode ELSE "open"
    BY <1>5 DEF PageArrives
  <2>2. PICK last \in PullFrom .. log : pulling.page = <<Page(PullFrom, last)>>
    BY <1>5 DEF PageArrives, StatusInv, StatusTypes
  <2>3. /\ pulling.since = PullFrom
        /\ page.events = PullFrom + 1 .. last
        /\ page.nextCursor = (IF last > PullFrom THEN last ELSE 0)
        /\ page.hasMore = (last = PullFrom + PageSize)
    <3>1. pulling = [since |-> PullFrom, page |-> pulling.page]
      BY <2>1 DEF StatusInv, StatusTypes
    <3> HIDE DEF PullFrom
    <3> QED
      BY <2>2, <3>1 DEF Page
  <2>4. to = last /\ (page.hasMore => last > 0) /\ last \in 0 .. log
    <3> HIDE DEF page
    <3>1. CASE last > PullFrom
      <4>1. last \in page.events
        BY <1>1, <2>2, <2>3, <3>1
      <4> QED
        BY <1>1, <2>2, <2>3, <3>1, <4>1
    <3>2. CASE last = PullFrom
      <4>1. PullFrom + 1 .. PullFrom = {} /\ PullFrom # PullFrom + PageSize
        BY <1>1, StatusAssumption
      <4>2. page.events = {} /\ ~page.hasMore
        BY <2>3, <3>2, <4>1
      <4> QED
        BY <1>1, <2>2, <2>3, <3>2, <4>2
    <3> QED
      BY <1>1, <2>2, <3>1, <3>2
  <2>5. 1 .. PullFrom \subseteq handled
    BY DEF StatusInv, NothingIsSkipped, PullFrom
  <2>6. 1 .. last \subseteq handled'
    BY <1>1, <2>1, <2>2, <2>3, <2>5
  <2>7. NothingIsSkipped' /\ 1 .. pageTo' \subseteq handled'
    <3>1. 1 .. cursor \subseteq handled
      BY DEF StatusInv, NothingIsSkipped
    <3> QED
      BY <2>1, <2>4, <2>6, <3>1 DEF NothingIsSkipped
  <2>8. StatusTypes'
    BY <1>1, <2>1, <2>4 DEF StatusInv, StatusTypes
  <2>9. mode = "live" => pageTo > 0 /\ PullFrom = pageTo
    BY <2>1 DEF StatusInv, PullFrom
  <2>10. mode = "live" => \A i \in DOMAIN stream : ~IsResync(i)
    BY <1>1, <2>9 DEF StatusInv, StreamInv
  <2>11. mode # "live" => stream = <<>>
    BY DEF StatusInv
  <2>12. StreamInv'
    BY <1>1, <2>10, <2>11 DEF StatusInv, StreamInv, IsUpdate, IsResync
  <2>13. ASSUME NEW m \in 1 .. log, mode = "live", m \notin handled'
         PROVE  Coming(m)' \/ LeftToPulls(m)'
    <3>1. m > last /\ m \notin handled
      BY <1>1, <2>1, <2>4, <2>6, <2>13
    <3>2. CASE Coming(m)
      BY <1>1, <3>2 DEF Coming, IsUpdate
    <3>3. CASE LeftToPulls(m) /\ page.hasMore
      <4>1. pageTo' = last /\ last > 0 /\ ~Served'
        BY <2>1, <2>4, <2>13, <3>3 DEF Served
      <4> QED
        BY <3>1, <4>1 DEF LeftToPulls
    <3>4. CASE LeftToPulls(m) /\ ~page.hasMore
      <4>1. Served
        BY <2>1, <2>2 DEF Served
      <4>2. m \in page.events
        BY <2>10, <2>13, <3>4, <4>1 DEF LeftToPulls
      <4> QED
        BY <2>1, <2>13, <4>2
    <3> QED
      BY <2>13, <3>1, <3>2, <3>3, <3>4 DEF StatusInv
  <2>14. mode' # "live" => stream' = <<>> /\ pageTo' = 0
    BY <1>1, <2>1, <2>11 DEF StatusInv
  <2>15. mode' = "live" => mode = "live"
    BY <2>1
  <2> QED
    BY <1>1, <2>1, <2>7, <2>8, <2>12, <2>13, <2>14, <2>15 DEF StatusInv
<1> QED
  BY <1>2, <1>3, <1>4, <1>5

(* The server's log grows.                                                 *)
LEMMA LogKeepsInv ==
  ASSUME StatusInv, Happens
  PROVE  StatusInv'
<1> DEFINE u == [event |-> "loop-state-update", id |-> log + 1]
<1>0. PICK n \in Nat : n = Len(stream)
  BY LenProperties DEF StatusInv, StatusTypes
<1>1. /\ log \in Nat /\ log + 1 \in 1 .. MaxLog /\ log' = log + 1
      /\ pageTo \in 0 .. log /\ cursor \in 0 .. log /\ PullFrom \in 0 .. log
      /\ UNCHANGED <<mode, pulling, pageTo, cursor, handled, problems, breaks>>
      /\ stream \in Seq(Frames) /\ n \in Nat /\ DOMAIN stream = 1 .. n
  BY <1>0, LenProperties, StatusAssumption DEF StatusInv, StatusTypes, Happens, PullFrom
<1>2. PullFrom' = PullFrom
  BY <1>1 DEF PullFrom
<1>3. CASE mode # "live"
  <2>1. stream' = stream /\ stream = <<>>
    BY <1>3 DEF Happens, StatusInv
  <2>2. StatusTypes' /\ StreamInv'
    BY <1>1, <1>2, <2>1 DEF StatusInv, StatusTypes, StreamInv
  <2> QED
    BY <1>1, <1>3, <2>1, <2>2 DEF StatusInv, NothingIsSkipped
<1>4. CASE mode = "live"
  <2>1. Updates({log + 1}) = <<u>>
    <3>1. {log + 1} = log + 1 .. log + 1 /\ log <= log + 1 /\ log + 1 - log = 1
      BY <1>1
    <3>2. Updates({log + 1}) = [i \in 1 .. 1 |-> [event |-> "loop-state-update", id |-> log + i]]
      <4> DEFINE top == log + 1
      <4>1. top \in Nat /\ log <= top /\ top - log = 1 /\ {top} = log + 1 .. top
        BY <1>1, <3>1
      <4> HIDE DEF top
      <4>2. Updates(log + 1 .. top) = [i \in 1 .. top - log |-> [event |-> "loop-state-update", id |-> log + i]]
        BY <1>1, <4>1, UpdatesOfInterval
      <4>3. Updates({top}) = [i \in 1 .. 1 |-> [event |-> "loop-state-update", id |-> log + i]]
        BY <4>1, <4>2
      <4> QED
        BY <4>3 DEF top
    <3> QED
      BY <3>2
  <2>2. stream' = Append(stream, u) /\ u \in Frames
    <3>1. stream' = stream \o <<u>>
      BY <1>4, <2>1 DEF Happens
    <3>2. u \in Frames
      BY <1>1 DEF Frames
    <3> QED
      BY <1>1, <3>1, <3>2, AppendIsConcat
  <2>3. /\ stream' \in Seq(Frames) /\ DOMAIN stream' = 1 .. n + 1
        /\ stream'[n + 1] = u
        /\ \A i \in 1 .. n : stream'[i] = stream[i]
    BY <1>0, <1>1, <2>2
  <2>4. /\ \A i \in 1 .. n : (IsUpdate(i)' <=> IsUpdate(i)) /\ (IsResync(i)' <=> IsResync(i))
        /\ IsUpdate(n + 1)' /\ ~IsResync(n + 1)'
    BY <2>3 DEF IsUpdate, IsResync
  <2>5. StatusTypes'
    BY <1>1, <1>2, <2>3 DEF StatusInv, StatusTypes
  <2>6. \A i \in 1 .. n : /\ IsUpdate(i) => stream[i].id <= log /\ stream[i].id \in Nat
                          /\ IsResync(i) => stream[i].next <= log /\ stream[i].next \in Nat /\ pageTo = 0
    BY <1>1 DEF StatusInv, StreamInv, Frames, IsUpdate, IsResync
  <2>7. StreamInv'
    <3>1. \A i \in DOMAIN stream' :
            /\ IsUpdate(i)' => stream'[i].id <= log'
            /\ IsResync(i)' => stream'[i].next <= log' /\ pageTo' = 0
      BY <1>1, <2>3, <2>4, <2>6
    <3>2. ASSUME NEW i \in 1 .. n, NEW j \in 1 .. n, i < j
          PROVE  /\ IsUpdate(i)' /\ IsUpdate(j)' => stream'[i].id < stream'[j].id
                 /\ IsUpdate(i)' /\ IsResync(j)' => stream'[i].id <= stream'[j].next
                 /\ IsResync(i)' /\ IsUpdate(j)' => stream'[i].next < stream'[j].id
                 /\ ~(IsResync(i)' /\ IsResync(j)')
      BY <1>1, <2>3, <2>4, <3>2 DEF StatusInv, StreamInv
    <3>3. ASSUME NEW i \in 1 .. n
          PROVE  /\ IsUpdate(i)' => stream'[i].id < stream'[n + 1].id
                 /\ IsResync(i)' => stream'[i].next < stream'[n + 1].id
      BY <1>1, <2>3, <2>4, <2>6
    <3>4. \A i, j \in DOMAIN stream' : i < j => i \in 1 .. n /\ (j \in 1 .. n \/ j = n + 1)
      BY <1>1, <2>3
    <3> QED
      BY <2>4, <3>1, <3>2, <3>3, <3>4 DEF StreamInv
  <2>8. \A m \in 1 .. log : /\ Coming(m) => Coming(m)'
                            /\ LeftToPulls(m) => LeftToPulls(m)'
    BY <1>1, <2>3, <2>4 DEF Coming, LeftToPulls, Served
  <2>9. ASSUME NEW m \in 1 .. log', m \notin 1 .. log
        PROVE  Coming(m)'
    <3>1. m = stream'[n + 1].id /\ n + 1 \in DOMAIN stream'
      BY <1>1, <2>3, <2>9
    <3> QED
      BY <2>4, <3>1 DEF Coming
  <2>10. \A m \in 1 .. log' : (m \in handled \/ Coming(m) \/ LeftToPulls(m)) \/ m \notin 1 .. log
    BY <1>4 DEF StatusInv
  <2>11. \A m \in 1 .. log' : m \in handled' \/ Coming(m)' \/ LeftToPulls(m)'
    BY <1>1, <2>8, <2>9, <2>10
  <2>12. NothingIsSkipped' /\ 1 .. pageTo' \subseteq handled'
    BY <1>1 DEF StatusInv, NothingIsSkipped
  <2>13. pulling' # NoPull => pageTo' > 0
    BY <1>1, <1>4 DEF StatusInv
  <2> QED
    BY <1>1, <1>4, <2>5, <2>7, <2>11, <2>12, <2>13 DEF StatusInv, NothingIsSkipped
<1> QED
  BY <1>3, <1>4

(* A stream opens, is refused or breaks.                                   *)
LEMMA OpeningKeepsInv ==
  ASSUME StatusInv, StreamOpens
  PROVE  StatusInv'
<1>1. /\ log \in Nat /\ log <= MaxLog /\ MaxLog \in Nat /\ cursor \in 0 .. log /\ pageTo = 0 /\ pulling = NoPull
      /\ mode' = "live" /\ UNCHANGED <<log, pulling, pageTo, cursor, handled>>
  BY StatusAssumption DEF StatusInv, StatusTypes, StreamOpens
<1>2. PICK last \in cursor .. log :
        /\ PageSince(cursor) = Page(cursor, last)
        /\ last # cursor + PageSize => last = log
        /\ last > cursor \/ log = cursor
  BY <1>1, PageShape
<1>b. PICK n \in Nat : n = last - cursor
  BY <1>1, <1>2
<1> DEFINE tail == IF log > last THEN [event |-> "resync-required", next |-> last] ELSE [event |-> "ping"]
           ups == [i \in 1 .. n |-> [event |-> "loop-state-update", id |-> cursor + i]]
<1>3. n \in Nat /\ last \in Nat /\ (log > last => last > cursor /\ last > 0) /\ last = cursor + n
  BY <1>1, <1>2, <1>b
<1>4. stream' = ups \o <<tail>>
  <2>1. stream' = Updates(PageSince(cursor).events) \o
          (IF PageSince(cursor).hasMore /\ log > PageSince(cursor).nextCursor
           THEN <<[event |-> "resync-required", next |-> PageSince(cursor).nextCursor]>>
           ELSE <<[event |-> "ping"]>>)
    BY DEF StreamOpens
  <2>2. PageSince(cursor).events = cursor + 1 .. last
    BY <1>2 DEF Page
  <2>3. Updates(cursor + 1 .. last) = ups
    BY <1>1, <1>2, <1>3, <1>b, UpdatesOfInterval
  <2>4. (PageSince(cursor).hasMore /\ log > PageSince(cursor).nextCursor) <=> log > last
    <3>0. PageSince(cursor).hasMore = (last = cursor + PageSize)
      BY <1>2 DEF Page
    <3>1. PageSince(cursor).hasMore <=> last = cursor + PageSize
      BY <3>0
    <3>2. last > cursor => PageSince(cursor).nextCursor = last
      BY <1>2 DEF Page
    <3>3. last = cursor + PageSize => last > cursor
      BY <1>1, StatusAssumption
    <3>4. log > last => last = cursor + PageSize
      BY <1>1, <1>2
    <3> QED
      BY <3>1, <3>2, <3>3, <3>4
  <2>5. log > last => PageSince(cursor).nextCursor = last
    BY <1>2, <1>3 DEF Page
  <2> QED
    BY <2>1, <2>2, <2>3, <2>4, <2>5
<1>5. tail \in Frames /\ ups \in Seq(Frames)
  <2>1. tail \in Frames
    BY <1>1, <1>3 DEF Frames
  <2>2. ASSUME NEW i \in 1 .. n
        PROVE  [event |-> "loop-state-update", id |-> cursor + i] \in Frames
    BY <1>1, <1>2, <1>3 DEF Frames
  <2> QED
    BY <1>3, <2>1, <2>2, SeqDef
<1>6. /\ stream' \in Seq(Frames) /\ DOMAIN stream' = 1 .. n + 1
      /\ stream'[n + 1] = tail
      /\ \A i \in 1 .. n : stream'[i] = [event |-> "loop-state-update", id |-> cursor + i]
  <2>1. Len(ups) = n
    BY <1>3
  <2> HIDE DEF ups, tail
  <2>2. stream' = Append(ups, tail)
    BY <1>4, <1>5, AppendIsConcat
  <2>3. stream' \in Seq(Frames) /\ DOMAIN stream' = 1 .. n + 1 /\ stream'[n + 1] = tail
        /\ \A i \in 1 .. n : stream'[i] = ups[i]
    BY <1>3, <1>5, <2>1, <2>2
  <2> QED
    BY <2>3 DEF ups
<1>7. /\ \A i \in 1 .. n : IsUpdate(i)' /\ ~IsResync(i)' /\ stream'[i].id = cursor + i
      /\ ~IsUpdate(n + 1)' /\ (IsResync(n + 1)' => log > last)
      /\ (log > last => IsResync(n + 1)' /\ stream'[n + 1].next = last)
  <2>1. \A i \in 1 .. n : /\ stream'[i].event = "loop-state-update"
                          /\ stream'[i].id = cursor + i
    <3> HIDE DEF tail
    <3> SUFFICES ASSUME NEW i \in 1 .. n
                 PROVE  stream'[i].event = "loop-state-update" /\ stream'[i].id = cursor + i
      OBVIOUS
    <3>1. stream'[i] = [event |-> "loop-state-update", id |-> cursor + i]
      BY <1>6
    <3> QED
      BY <3>1
  <2>2. tail.event = (IF log > last THEN "resync-required" ELSE "ping") /\ (log > last => tail.next = last)
    OBVIOUS
  <2> HIDE DEF tail
  <2>3. /\ \A i \in 1 .. n : IsUpdate(i)' /\ ~IsResync(i)'
        /\ IsUpdate(n + 1)' <=> tail.event = "loop-state-update"
        /\ IsResync(n + 1)' <=> tail.event = "resync-required"
    BY <1>6, <2>1 DEF IsUpdate, IsResync
  <2> QED
    BY <1>6, <2>1, <2>2, <2>3
<1>8. StatusTypes'
  BY <1>1, <1>6 DEF StatusInv, StatusTypes
<1>9. StreamInv'
  <2>1. \A i \in DOMAIN stream' : i \in 1 .. n \/ i = n + 1
    BY <1>3, <1>6
  <2>2. \A i \in DOMAIN stream' :
          /\ IsUpdate(i)' => stream'[i].id <= log'
          /\ IsResync(i)' => stream'[i].next <= log' /\ pageTo' = 0
    BY <1>1, <1>2, <1>3, <1>7, <2>1
  <2>3. \A i, j \in DOMAIN stream' : i < j => i \in 1 .. n
    BY <1>3, <1>6
  <2> QED
    BY <1>1, <1>3, <1>7, <2>1, <2>2, <2>3 DEF StreamInv
<1>10. ASSUME NEW m \in 1 .. log, m \notin handled
       PROVE  Coming(m)' \/ LeftToPulls(m)'
  <2>1. m > cursor
    BY <1>1, <1>10 DEF StatusInv, NothingIsSkipped
  <2>2. CASE m <= last
    <3>1. m - cursor \in 1 .. n /\ cursor + (m - cursor) = m
      BY <1>1, <1>3, <2>1, <2>2
    <3> QED
      BY <1>6, <1>7, <3>1 DEF Coming
  <2>3. CASE m > last
    BY <1>1, <1>3, <1>6, <1>7, <2>3 DEF LeftToPulls
  <2> QED
    BY <1>3, <2>2, <2>3
<1> QED
  BY <1>1, <1>8, <1>9, <1>10 DEF StatusInv, NothingIsSkipped

LEMMA BreakKeepsInv ==
  ASSUME StatusInv, StreamRefused \/ StreamBreaks
  PROVE  StatusInv'
<1>1. /\ mode' = "catchup" /\ stream' = <<>> /\ pageTo' = 0 /\ pulling' = NoPull
      /\ UNCHANGED <<log, cursor, handled>>
  BY DEF StatusInv, StreamRefused, StreamBreaks
<1>2. StatusTypes' /\ StreamInv'
  BY <1>1 DEF StatusInv, StatusTypes, StreamInv
<1> QED
  BY <1>1, <1>2 DEF StatusInv, NothingIsSkipped

(* A consumer of the status API never stores a cursor past an event it has *)
(* not handled, however long the log, whatever the page, and wherever      *)
(* pulls and streams fail (pullTransitions, streamLoopState).              *)
THEOREM NoTransitionIsLost == StatusSpec => []NothingIsSkipped
<1>1. StatusInit => StatusInv
  <2> SUFFICES ASSUME StatusInit PROVE StatusInv
    OBVIOUS
  <2>1. StatusTypes /\ StreamInv
    BY StatusAssumption DEF StatusInit, StatusTypes, StreamInv
  <2> QED
    BY <2>1 DEF StatusInit, StatusInv, NothingIsSkipped
<1>2. StatusInv /\ [StatusNext]_statusVars => StatusInv'
  <2>1. StatusInv /\ UNCHANGED statusVars => StatusInv'
    BY DEF StatusInv, StatusTypes, StreamInv, NothingIsSkipped, Coming, LeftToPulls, Served,
           IsUpdate, IsResync, PullFrom, statusVars
  <2> QED
    BY <2>1, FrameKeepsInv, PullKeepsInv, LogKeepsInv, OpeningKeepsInv, BreakKeepsInv DEF StatusNext
<1>3. StatusInv => NothingIsSkipped
  BY DEF StatusInv
<1> QED
  BY <1>1, <1>2, <1>3, PTL DEF StatusSpec

-----------------------------------------------------------------------------
(* ModelCalls.                                                             *)

Decisions ==
  {"submitted", "PARSE_FAILED", "INVALID_SIGNAL", "INVALID_CONFIDENCE", "EVIDENCE_REFUSED"}

Passing == {"timeout", "429", "500", "503"}

CallResults == Decisions \cup {"none", "API_ERROR", "not configured", "no text", "text", "502"} \cup Fates

(* No answer of a model was looked at.                                     *)
Unjudged == {"API_ERROR", "not configured", "no text"}

CallRecords ==
  [at : {"none", "sent", "done"}, adapter : Adapters \cup {"none"}, offered : SUBSET Signals,
   fates : Seq(Fates), content : ModelReplies \cup {[form |-> "empty"]},
   result : CallResults, retryable : BOOLEAN]

(* An actor adapter's answer is judged as Sound judges it, fences apart.   *)
WellJudged(q) ==
  /\ q.result = "submitted" => Sound(q.content, q.offered)
  /\ (Sound(q.content, q.offered) /\ q.result # "submitted") =>
       q.content.form = "fenced" /\ q.adapter # "gemini"

(* The attempts of a call so far.                                          *)
WellTried(q) ==
  /\ \A i \in DOMAIN q.fates : i < Len(q.fates) \/ q.at # "done" => q.fates[i] \in Passing
  /\ IF q.at = "done" THEN Len(q.fates) <= ModelRetries + 1 ELSE Len(q.fates) <= ModelRetries
  /\ q.result = "text" => q.fates # <<>> /\ q.fates[Len(q.fates)] = "ok"

ModelInv ==
  /\ asked \in [ModelCallers -> CallRecords]
  /\ \A c \in ModelCallers :
       /\ (asked[c].at = "done" /\ asked[c].adapter \in Actors
             /\ asked[c].result \notin Unjudged) => WellJudged(asked[c])
       /\ asked[c].at # "done" => asked[c].result = "none"
       /\ asked[c].at = "none" => asked[c].fates = <<>>
       /\ WellTried(asked[c])

(* Of four checks one decides, unless none fails.                          *)
LEMMA FourChecks ==
  ASSUME NEW p \in BOOLEAN, NEW q \in BOOLEAN, NEW r \in BOOLEAN, NEW s \in BOOLEAN,
         NEW a, NEW b, NEW c, NEW d
  PROVE  LET answer == FirstFailing(<<Check(p, a), Check(q, b), Check(r, c), Check(s, d)>>)
         IN /\ p \/ q \/ r \/ s => answer \in {a, b, c, d}
            /\ ~(p \/ q \/ r \/ s) => answer = "submitted"
<1> DEFINE checks == <<Check(p, a), Check(q, b), Check(r, c), Check(s, d)>>
           First(i) == i \in DOMAIN checks /\ checks[i].fails /\ \A j \in 1..(i-1) : ~checks[j].fails
<1>1. /\ DOMAIN checks = 1..4
      /\ checks[1] = Check(p, a) /\ checks[2] = Check(q, b)
      /\ checks[3] = Check(r, c) /\ checks[4] = Check(s, d)
  OBVIOUS
<1>2. /\ checks[1].fails = p /\ checks[2].fails = q /\ checks[3].fails = r /\ checks[4].fails = s
      /\ checks[1].code = a /\ checks[2].code = b /\ checks[3].code = c /\ checks[4].code = d
  BY <1>1 DEF Check
<1>3. FirstFailing(checks) = IF \E i \in DOMAIN checks : checks[i].fails
                             THEN checks[CHOOSE i \in DOMAIN checks :
                                    checks[i].fails /\ \A j \in 1..(i-1) : ~checks[j].fails].code
                             ELSE "submitted"
  BY DEF FirstFailing
<1> HIDE DEF checks
<1>4. ASSUME p \/ q \/ r \/ s PROVE FirstFailing(checks) \in {a, b, c, d}
  <2>1. \E i \in DOMAIN checks : checks[i].fails
    BY <1>1, <1>2, <1>4
  <2>2. \E i \in DOMAIN checks : checks[i].fails /\ \A j \in 1..(i-1) : ~checks[j].fails
    <3>1. CASE p
      <4>1. 1 \in DOMAIN checks /\ checks[1].fails /\ \A j \in 1..(1-1) : ~checks[j].fails
        BY <1>1, <1>2, <3>1
      <4> QED
        BY <4>1
    <3>2. CASE ~p /\ q
      <4>1. 2 \in DOMAIN checks /\ checks[2].fails /\ \A j \in 1..(2-1) : ~checks[j].fails
        BY <1>1, <1>2, <3>2
      <4> QED
        BY <4>1
    <3>3. CASE ~p /\ ~q /\ r
      <4>1. 3 \in DOMAIN checks /\ checks[3].fails /\ \A j \in 1..(3-1) : ~checks[j].fails
        BY <1>1, <1>2, <3>3
      <4> QED
        BY <4>1
    <3>4. CASE ~p /\ ~q /\ ~r /\ s
      <4>1. 4 \in DOMAIN checks /\ checks[4].fails /\ \A j \in 1..(4-1) : ~checks[j].fails
        BY <1>1, <1>2, <3>4
      <4> QED
        BY <4>1
    <3> QED
      BY <1>4, <3>1, <3>2, <3>3, <3>4
  <2>3. PICK i \in DOMAIN checks : FirstFailing(checks) = checks[i].code
    BY <1>3, <2>1, <2>2
  <2> QED
    BY <1>1, <1>2, <2>3
<1>5. ASSUME ~(p \/ q \/ r \/ s) PROVE FirstFailing(checks) = "submitted"
  <2>1. ~\E i \in DOMAIN checks : checks[i].fails
    BY <1>1, <1>2, <1>5
  <2> QED
    BY <1>3, <2>1
<1> QED
  BY <1>4, <1>5 DEF checks

(* What a model may answer.                                                *)
LEMMA RepliesAreJudgeable ==
  ASSUME NEW content \in ModelReplies
  PROVE  /\ content.form \in {"empty", "broken", "array", "object", "fenced"}
         /\ content.reasoning \in BOOLEAN
         /\ Certain(content) \in BOOLEAN
         /\ content.signal \in Signals => content.form \in {"object", "fenced"}
         /\ Certain(content) <=> content.confidence \in Percents /\ content.confidence \in 0..100
<1> DEFINE Blank(f) == [form |-> f, signal |-> NoSignal, reasoning |-> FALSE, confidence |-> NoNumber]
           Objects == [form : {"object", "fenced"}, signal : Signals \cup {NoSignal},
                       reasoning : BOOLEAN, confidence : Percents \cup {NoNumber}]
<1>1. /\ content.form \in {"empty", "broken", "array", "object", "fenced"}
      /\ content.reasoning \in BOOLEAN
      /\ content.confidence \in Percents \cup {NoNumber}
      /\ content.signal \in Signals => content.form \in {"object", "fenced"}
  <2>1. ModelReplies = {Blank(f) : f \in {"empty", "broken", "array"}} \cup Objects
    BY DEF ModelReplies
  <2>2. CASE content \in {Blank(f) : f \in {"empty", "broken", "array"}}
    <3>1. PICK f \in {"empty", "broken", "array"} : content = Blank(f)
      BY <2>2
    <3> QED
      BY <3>1, ModelAssumption
  <2>3. CASE content \in Objects
    BY <2>3
  <2> QED
    BY <2>1, <2>2, <2>3
<1>2. NoNumber \notin 0..100
  BY ModelAssumption
<1> QED
  BY <1>1, <1>2 DEF Certain

(* The two parsers, with their own orders of checks, submit the same.      *)
LEMMA ParsersAgree ==
  ASSUME NEW content \in ModelReplies, NEW offered
  PROVE  /\ ParseModelOutput(content, offered) \in Decisions
         /\ ParseDecision(content, offered) \in Decisions
         /\ ParseModelOutput(content, offered) = "submitted" <=>
              content.form = "object" /\ content.signal \in offered /\ content.reasoning /\ Certain(content)
         /\ ParseDecision(content, offered) = "submitted" <=>
              content.form = "object" /\ content.signal \in offered /\ content.reasoning /\ Certain(content)
<1> DEFINE wrong == content.form # "object"
           unknown == content.signal \notin offered
           silent == ~content.reasoning
           unsure == ~Certain(content)
<1>1. /\ wrong \in BOOLEAN /\ unknown \in BOOLEAN /\ silent \in BOOLEAN /\ unsure \in BOOLEAN
  OBVIOUS
<1>2. ~(wrong \/ unknown \/ silent \/ unsure) <=>
        content.form = "object" /\ content.signal \in offered /\ content.reasoning /\ Certain(content)
  BY RepliesAreJudgeable
<1>3. ParseModelOutput(content, offered) =
        FirstFailing(<<Check(wrong, "PARSE_FAILED"), Check(unknown, "INVALID_SIGNAL"),
                       Check(silent, "PARSE_FAILED"), Check(unsure, "INVALID_CONFIDENCE")>>)
  BY DEF ParseModelOutput
<1>4. ParseDecision(content, offered) =
        FirstFailing(<<Check(wrong, "PARSE_FAILED"), Check(unknown, "INVALID_SIGNAL"),
                       Check(unsure, "INVALID_CONFIDENCE"), Check(silent, "PARSE_FAILED")>>)
  BY DEF ParseDecision
<1> HIDE DEF wrong, unknown, silent, unsure
<1>5. /\ wrong \/ unknown \/ silent \/ unsure =>
           ParseModelOutput(content, offered) \in {"PARSE_FAILED", "INVALID_SIGNAL", "INVALID_CONFIDENCE"}
      /\ ~(wrong \/ unknown \/ silent \/ unsure) => ParseModelOutput(content, offered) = "submitted"
  BY <1>1, <1>3, FourChecks
<1>6. /\ wrong \/ unknown \/ silent \/ unsure =>
           ParseDecision(content, offered) \in {"PARSE_FAILED", "INVALID_SIGNAL", "INVALID_CONFIDENCE"}
      /\ ~(wrong \/ unknown \/ silent \/ unsure) => ParseDecision(content, offered) = "submitted"
  BY <1>1, <1>4, FourChecks
<1> QED
  BY <1>2, <1>5, <1>6 DEF Decisions

(* An actor adapter answers: the four ways.                                *)
LEMMA ActorsAnswerWell ==
  ASSUME NEW content \in ModelReplies, NEW offered \in SUBSET Signals, NEW q, q.offered = offered,
         q.content = content,
         \/ /\ q.adapter \in {"anthropic", "openai"}
            /\ q.result = WithEvidence(content, ParseModelOutput(content, offered))
         \/ q.adapter = "grok" /\ q.result = ParseDecision(content, offered)
         \/ q.adapter = "gemini" /\ q.result = ParseDecision(Clean(content), offered)
  PROVE  q.result \in Decisions /\ WellJudged(q)
<1>1. Sound(content, offered) <=>
        /\ content.form \in {"object", "fenced"} /\ content.signal \in offered
        /\ content.reasoning /\ Certain(content)
  BY RepliesAreJudgeable DEF Sound
<1>2. CASE q.adapter \in {"anthropic", "openai"}
  <2>1. q.result = WithEvidence(content, ParseModelOutput(content, offered))
    BY <1>2
  <2>2. ParseModelOutput(content, offered) = "submitted" => content.confidence \in 0..100
    BY ParsersAgree DEF Certain
  <2>3. q.result = ParseModelOutput(content, offered)
    BY <2>1, <2>2 DEF WithEvidence
  <2> QED
    BY <1>1, <1>2, <2>3, ParsersAgree, RepliesAreJudgeable DEF WellJudged
<1>3. CASE q.adapter = "grok"
  <2>1. q.result = ParseDecision(content, offered)
    BY <1>3
  <2> QED
    BY <1>1, <1>3, <2>1, ParsersAgree, RepliesAreJudgeable DEF WellJudged
<1>4. CASE q.adapter = "gemini"
  <2>1. q.result = ParseDecision(Clean(content), offered)
    BY <1>4
  <2>2. /\ Clean(content) \in ModelReplies
        /\ Clean(content).form = IF content.form = "fenced" THEN "object" ELSE content.form
        /\ Clean(content).signal = content.signal
        /\ Clean(content).reasoning = content.reasoning
        /\ Clean(content).confidence = content.confidence
    <3> DEFINE Blank(f) == [form |-> f, signal |-> NoSignal, reasoning |-> FALSE, confidence |-> NoNumber]
               Objects == [form : {"object", "fenced"}, signal : Signals \cup {NoSignal},
                           reasoning : BOOLEAN, confidence : Percents \cup {NoNumber}]
    <3>1. ModelReplies = {Blank(f) : f \in {"empty", "broken", "array"}} \cup Objects
      BY DEF ModelReplies
    <3>2. CASE content \in {Blank(f) : f \in {"empty", "broken", "array"}}
      <4>1. PICK f \in {"empty", "broken", "array"} : content = Blank(f)
        BY <3>2
      <4>2. content \in [form : {"empty", "broken", "array"}, signal : {NoSignal},
                        reasoning : BOOLEAN, confidence : {NoNumber}]
        BY <4>1
      <4>3. [content EXCEPT !.form = content.form] = content
        BY <4>2
      <4>4. Clean(content) = content
        BY <4>2, <4>3 DEF Clean
      <4>5. content.form # "fenced"
        BY <4>2
      <4> QED
        BY <4>4, <4>5
    <3>3. CASE content \in Objects
      <4>1. Clean(content) = [content EXCEPT !.form = IF content.form = "fenced" THEN "object" ELSE content.form]
        BY DEF Clean
      <4>2. Clean(content) \in Objects
        BY <3>3, <4>1
      <4>3. /\ Clean(content).form = IF content.form = "fenced" THEN "object" ELSE content.form
            /\ Clean(content).signal = content.signal
            /\ Clean(content).reasoning = content.reasoning
            /\ Clean(content).confidence = content.confidence
        BY <3>3, <4>1
      <4> HIDE DEF Objects
      <4> QED
        BY <3>1, <4>2, <4>3
    <3> QED
      BY <3>1, <3>2, <3>3
  <2>3. Certain(Clean(content)) <=> Certain(content)
    BY <2>2 DEF Certain
  <2>4. q.result = "submitted" <=> Sound(content, offered)
    BY <1>1, <2>1, <2>2, <2>3, ParsersAgree, RepliesAreJudgeable
  <2>5. q.result \in Decisions
    BY <2>1, <2>2, ParsersAgree
  <2> QED
    BY <2>4, <2>5 DEF WellJudged
<1> QED
  BY <1>2, <1>3, <1>4

(* One call changes, to a record that keeps its part of the invariant.     *)
LEMMA CallChanges ==
  ASSUME ModelInv, NEW c \in ModelCallers, NEW q \in CallRecords, asked' = [asked EXCEPT ![c] = q],
         (q.at = "done" /\ q.adapter \in Actors
            /\ q.result \notin Unjudged) => WellJudged(q),
         q.at # "done" => q.result = "none",
         q.at # "none",
         WellTried(q)
  PROVE  ModelInv'
<1>1. asked' \in [ModelCallers -> CallRecords]
  BY DEF ModelInv
<1>2. asked'[c] = q /\ \A d \in ModelCallers \ {c} : asked'[d] = asked[d]
  BY DEF ModelInv
<1>3. ASSUME NEW d \in ModelCallers
      PROVE  /\ (asked'[d].at = "done" /\ asked'[d].adapter \in Actors
                   /\ asked'[d].result \notin Unjudged) => WellJudged(asked'[d])
             /\ asked'[d].at # "done" => asked'[d].result = "none"
             /\ asked'[d].at = "none" => asked'[d].fates = <<>>
             /\ WellTried(asked'[d])
  <2>1. CASE d = c
    BY <1>2, <2>1
  <2>2. CASE d # c
    <3>1. asked'[d] = asked[d]
      BY <1>2, <2>2
    <3> QED
      BY <3>1 DEF ModelInv
  <2> QED
    BY <2>1, <2>2
<1> QED
  BY <1>1, <1>3 DEF ModelInv, WellJudged, WellTried, Sound

(* A call is made: nothing was tried before.                               *)
LEMMA AskKeepsInv ==
  ASSUME ModelInv, NEW c \in ModelCallers, NEW a \in Adapters, Ask(c, a)
  PROVE  ModelInv'
<1>1. asked[c] \in CallRecords /\ asked[c].result = "none" /\ asked[c].fates = <<>>
  BY DEF ModelInv, Ask
<1>2. CASE \E offered \in SUBSET Signals :
             asked' = [asked EXCEPT ![c].adapter = a, ![c].at = "sent", ![c].offered = offered]
  <2>1. PICK offered \in SUBSET Signals :
               asked' = [asked EXCEPT ![c].adapter = a, ![c].at = "sent", ![c].offered = offered]
    BY <1>2
  <2>2. PICK q : q = [asked[c] EXCEPT !.adapter = a, !.at = "sent", !.offered = offered]
    OBVIOUS
  <2>3. /\ q \in CallRecords /\ q.at = "sent" /\ q.result = "none" /\ q.fates = <<>>
    BY <1>1, <2>2 DEF CallRecords
  <2>4. asked' = [asked EXCEPT ![c] = q]
    BY <2>1, <2>2 DEF ModelInv
  <2>5. WellTried(q)
    BY <2>3, ModelAssumption DEF WellTried
  <2> QED
    BY <2>3, <2>4, <2>5, CallChanges
<1>3. CASE asked' = [asked EXCEPT ![c].adapter = a, ![c].at = "done", ![c].result = "not configured"]
  <2>1. PICK q : q = [asked[c] EXCEPT !.adapter = a, !.at = "done", !.result = "not configured"]
    OBVIOUS
  <2>2. q.at = "done" /\ q.result = "not configured" /\ q.fates = <<>>
    BY <1>1, <2>1 DEF CallRecords
  <2>5. q \in CallRecords
    <3>1. "not configured" \in CallResults
      BY DEF CallResults
    <3> QED
      BY <1>1, <2>1, <3>1 DEF CallRecords
  <2>3. asked' = [asked EXCEPT ![c] = q]
    BY <1>3, <2>1 DEF ModelInv
  <2>4. WellTried(q)
    <3>1. q.at = "done" /\ q.fates = <<>> /\ q.result # "text"
      BY <2>2
    <3>2. DOMAIN q.fates = {} /\ Len(q.fates) = 0
      BY <3>1
    <3> QED
      BY <3>1, <3>2, ModelAssumption DEF WellTried
  <2>6. q.result \in Unjudged
    BY <2>2 DEF Unjudged
  <2> QED
    BY <2>2, <2>3, <2>4, <2>5, <2>6, CallChanges
<1> QED
  BY <1>2, <1>3 DEF Ask

(* An actor adapter comes to an end.                                       *)
LEMMA ActorKeepsInv ==
  ASSUME ModelInv, NEW c \in ModelCallers,
         \/ ActorRefused(c)
         \/ GeminiHasNoText(c)
         \/ \E content \in ModelReplies :
              Anthropic(c, content) \/ OpenAI(c, content) \/ Grok(c, content) \/ Gemini(c, content)
  PROVE  ModelInv'
<1> DEFINE p == asked[c]
<1>1. p \in CallRecords /\ p.at = "sent" /\ WellTried(p)
  BY DEF ModelInv, ActorRefused, GeminiHasNoText, Anthropic, OpenAI, Grok, Gemini, Answered
<1>2. ASSUME NEW q, q.fates = p.fates, q.at = "done", q.result # "text"
      PROVE  WellTried(q)
  <2>1. p.fates \in Seq(Fates)
    BY <1>1 DEF CallRecords
  <2> QED
    BY <1>1, <1>2, <2>1, ModelAssumption DEF WellTried
<1>3. CASE ActorRefused(c) \/ GeminiHasNoText(c)
  <2>0. PICK result \in {"API_ERROR", "no text"} :
               asked' = [asked EXCEPT ![c].at = "done", ![c].result = result]
    BY <1>3 DEF ActorRefused, GeminiHasNoText
  <2>1. PICK q : q = [p EXCEPT !.at = "done", !.result = result]
    OBVIOUS
  <2>2. asked' = [asked EXCEPT ![c] = q]
    BY <2>0, <2>1 DEF ModelInv
  <2>3. q.at = "done" /\ q.result \in Unjudged /\ q.result # "text" /\ q.fates = p.fates
    BY <1>1, <2>1 DEF CallRecords, Unjudged
  <2>4. q \in CallRecords
    <3>1. result \in CallResults
      BY DEF CallResults
    <3> QED
      BY <1>1, <2>1, <3>1 DEF CallRecords
  <2>5. WellTried(q)
    BY <1>2, <2>3
  <2> HIDE DEF p
  <2> QED
    BY <2>2, <2>3, <2>4, <2>5, CallChanges
<1>4. ASSUME NEW content \in ModelReplies, NEW a \in Actors, NEW result,
             Answered(c, a, content, result),
             \/ a \in {"anthropic", "openai"} /\ result = WithEvidence(content, ParseModelOutput(content, p.offered))
             \/ a = "grok" /\ result = ParseDecision(content, p.offered)
             \/ a = "gemini" /\ result = ParseDecision(Clean(content), p.offered)
      PROVE  ModelInv'
  <2>1. PICK q : q = [p EXCEPT !.at = "done", !.content = content, !.result = result]
    OBVIOUS
  <2>2. asked' = [asked EXCEPT ![c] = q]
    BY <1>4, <2>1 DEF ModelInv, Answered
  <2>3. /\ q.at = "done" /\ q.result = result /\ q.fates = p.fates /\ q.content = content
        /\ q.adapter = a /\ q.offered = p.offered /\ p.offered \in SUBSET Signals
    BY <1>1, <1>4, <2>1 DEF CallRecords, Answered
  <2> HIDE DEF p
  <2>4. q.result \in Decisions /\ WellJudged(q)
    <3>1. CASE a \in {"anthropic", "openai"} /\ result = WithEvidence(content, ParseModelOutput(content, p.offered))
      BY <2>3, <3>1, ActorsAnswerWell
    <3>2. CASE a = "grok" /\ result = ParseDecision(content, p.offered)
      BY <2>3, <3>2, ActorsAnswerWell
    <3>3. CASE a = "gemini" /\ result = ParseDecision(Clean(content), p.offered)
      BY <2>3, <3>3, ActorsAnswerWell
    <3> QED
      BY <1>4, <3>1, <3>2, <3>3
  <2>5. result \in CallResults /\ q.result # "text"
    BY <2>3, <2>4 DEF CallResults, Decisions
  <2>6. q \in CallRecords
    BY <1>1, <2>1, <2>5 DEF CallRecords
  <2>7. WellTried(q)
    BY <1>2, <2>3, <2>5
  <2> QED
    BY <2>2, <2>3, <2>4, <2>6, <2>7, CallChanges
<1>5. ASSUME NEW content \in ModelReplies,
             Anthropic(c, content) \/ OpenAI(c, content) \/ Grok(c, content) \/ Gemini(c, content)
      PROVE  ModelInv'
  <2> DEFINE parsed == WithEvidence(content, ParseModelOutput(content, p.offered))
             decided == ParseDecision(content, p.offered)
             cleaned == ParseDecision(Clean(content), p.offered)
  <2>1. \/ Answered(c, "anthropic", content, parsed)
        \/ Answered(c, "openai", content, parsed)
        \/ Answered(c, "grok", content, decided)
        \/ Answered(c, "gemini", content, cleaned)
    BY <1>5 DEF Anthropic, OpenAI, Grok, Gemini
  <2> QED
    BY <1>4, <2>1 DEF Actors
<1> QED
  BY <1>3, <1>5

(* An attempt of the Perplexity adapter.                                   *)
LEMMA AttemptKeepsInv ==
  ASSUME ModelInv, NEW c \in ModelCallers, NEW fate \in Fates, Attempt(c, fate)
  PROVE  ModelInv'
<1> DEFINE p == asked[c]
<1>1. /\ p \in CallRecords /\ p.at = "sent" /\ p.adapter = "perplexity" /\ p.result = "none"
      /\ WellTried(p) /\ p.fates \in Seq(Fates)
  BY DEF ModelInv, Attempt, CallRecords
<1>2. PICK tried : tried = Append(p.fates, fate)
  OBVIOUS
<1>3. /\ tried \in Seq(Fates) /\ Len(tried) = Len(p.fates) + 1 /\ tried[Len(tried)] = fate
      /\ \A i \in DOMAIN tried : i < Len(tried) => i \in DOMAIN p.fates /\ tried[i] = p.fates[i]
  BY <1>1, <1>2
<1>4. Len(p.fates) \in Nat /\ Len(p.fates) <= ModelRetries
  BY <1>1 DEF WellTried
<1>5. \A i \in DOMAIN tried : i < Len(tried) => tried[i] \in Passing
  BY <1>1, <1>3 DEF WellTried
<1>6. CASE RetriedAt(fate, Len(p.fates))
  <2>1. PICK q : q = [p EXCEPT !.fates = tried]
    OBVIOUS
  <2>2. asked' = [asked EXCEPT ![c] = q]
    BY <1>2, <1>6, <2>1 DEF ModelInv, Attempt
  <2>3. q.at = "sent" /\ q.result = "none" /\ q.fates = tried
    BY <1>1, <2>1 DEF CallRecords
  <2>4. q \in CallRecords
    BY <1>1, <1>3, <2>1 DEF CallRecords
  <2>5. fate \in Passing /\ Len(p.fates) < ModelRetries
    BY <1>6 DEF RetriedAt, ShouldRetryStatus, Passing
  <2>6. WellTried(q)
    <3>1. Len(tried) <= ModelRetries
      BY <1>3, <1>4, <2>5, ModelAssumption
    <3>2. ASSUME NEW i \in DOMAIN tried PROVE tried[i] \in Passing
      BY <1>3, <1>5, <2>5
    <3> QED
      BY <2>3, <3>1, <3>2 DEF WellTried
  <2> HIDE DEF p
  <2> QED
    BY <2>2, <2>3, <2>4, <2>6, CallChanges
<1>7. CASE ~RetriedAt(fate, Len(p.fates))
  <2>1. PICK q : q = [p EXCEPT !.at = "done", !.fates = tried,
                               !.result = Outcome(fate), !.retryable = Retryable(fate)]
    OBVIOUS
  <2>2. asked' = [asked EXCEPT ![c] = q]
    <3>1. asked \in [ModelCallers -> CallRecords]
      BY DEF ModelInv
    <3>2. asked' = [asked EXCEPT ![c] =
                      [asked[c] EXCEPT !.at = "done", !.fates = Append(asked[c].fates, fate),
                                       !.result = Outcome(fate), !.retryable = Retryable(fate)]]
      BY <1>7 DEF Attempt
    <3> QED
      BY <1>2, <2>1, <3>2
  <2>3. q.at = "done" /\ q.result = Outcome(fate) /\ q.fates = tried /\ q.adapter = "perplexity"
    BY <1>1, <2>1 DEF CallRecords
  <2>4. Outcome(fate) \in CallResults /\ Retryable(fate) \in BOOLEAN
    BY DEF Outcome, CallResults, Retryable, ShouldRetryStatus
  <2>5. q \in CallRecords
    BY <1>1, <1>3, <2>1, <2>4 DEF CallRecords
  <2>6. Outcome(fate) = "text" => fate = "ok"
    BY DEF Outcome, Fates
  <2>7. WellTried(q)
    <3>1. Len(tried) <= ModelRetries + 1 /\ tried # <<>>
      BY <1>3, <1>4, ModelAssumption
    <3>2. q.result = "text" => tried[Len(tried)] = "ok"
      BY <1>3, <2>3, <2>6
    <3> QED
      BY <1>5, <2>3, <3>1, <3>2 DEF WellTried
  <2>8. q.adapter \notin Actors
    BY <2>3 DEF Actors
  <2> HIDE DEF p
  <2> QED
    BY <2>2, <2>3, <2>5, <2>7, <2>8, CallChanges
<1> QED
  BY <1>6, <1>7

(* The four actor adapters accept the same answers, those that are sound,  *)
(* a code fence apart, and the Perplexity adapter tries again only after   *)
(* failures that may pass and no more than `retries` times, for any        *)
(* signals, percents and number of retries and of calls (ai.ts, the        *)
(* parsers of the adapters, PerplexityAdapter.invoke).                     *)
THEOREM AdaptersAnswerSoundly == ModelSpec => []ModelAnswersAreSound
<1>1. ModelInit => ModelInv
  <2> SUFFICES ASSUME ModelInit PROVE ModelInv
    OBVIOUS
  <2>1. NotAsked \in CallRecords
    BY DEF NotAsked, CallRecords, CallResults
  <2>2. /\ NotAsked.at = "none" /\ NotAsked.result = "none" /\ NotAsked.fates = <<>>
        /\ DOMAIN NotAsked.fates = {} /\ Len(NotAsked.fates) = 0
    BY DEF NotAsked
  <2>3. WellTried(NotAsked)
    BY <2>2, ModelAssumption DEF WellTried
  <2>4. \A c \in ModelCallers : asked[c] = NotAsked
    BY DEF ModelInit
  <2>5. asked \in [ModelCallers -> CallRecords]
    BY <2>1 DEF ModelInit
  <2> QED
    BY <2>2, <2>3, <2>4, <2>5 DEF ModelInv
<1>2. ModelInv /\ [ModelNext]_modelVars => ModelInv'
  <2>1. ModelInv /\ UNCHANGED modelVars => ModelInv'
    BY DEF ModelInv, WellTried, WellJudged, Sound, modelVars
  <2> QED
    BY <2>1, AskKeepsInv, ActorKeepsInv, AttemptKeepsInv DEF ModelNext
<1>3. ModelInv => ModelAnswersAreSound
  <2> SUFFICES ASSUME ModelInv, NEW c \in ModelCallers
               PROVE  LET q == asked[c]  n == Len(q.fates) IN
                 /\ (q.at = "done" /\ q.adapter \in Actors /\ q.result \notin Unjudged) =>
                      WellJudged(q)
                 /\ n <= ModelRetries + 1
                 /\ \A i \in 1..(n - 1) :
                      q.fates[i] \notin {"ok", "garbled", "textless", "network", "400", "401", "502"}
                 /\ q.result = "text" => q.fates[n] = "ok"
    BY DEF ModelAnswersAreSound, WellJudged, Unjudged
  <2>6. asked[c] \in CallRecords
    BY DEF ModelInv
  <2>1. asked[c].fates \in Seq(Fates) /\ Len(asked[c].fates) \in Nat
    BY <2>6 DEF CallRecords
  <2>2. WellTried(asked[c])
    BY DEF ModelInv
  <2>3. Len(asked[c].fates) <= ModelRetries + 1
    BY <2>1, <2>2, ModelAssumption DEF WellTried
  <2>4. \A i \in 1..(Len(asked[c].fates) - 1) : asked[c].fates[i] \in Passing
    BY <2>1, <2>2 DEF WellTried
  <2>5. \A f \in Passing : f \notin {"ok", "garbled", "textless", "network", "400", "401", "502"}
    BY DEF Passing
  <2> QED
    BY <2>2, <2>3, <2>4, <2>5 DEF ModelInv, WellTried
<1> QED
  BY <1>1, <1>2, <1>3, PTL DEF ModelSpec

-----------------------------------------------------------------------------
(* GovernedEvidence.                                                       *)

(* What a provider proposed is under its own hash.                         *)
SoundProposal(p) ==
  DOMAIN p = EntryFields /\ p.values \in Contents /\ p.hash = ContentHash(p.values)

(* A commit that passed: what it submitted, and what is inserted for it.   *)
SoundPair(batch, persisted) ==
  /\ DOMAIN persisted = DOMAIN batch
  /\ \A i \in DOMAIN persisted :
       /\ PersistedErrors(persisted[i]) = {}
       /\ persisted[i].values \in Contents
       /\ persisted[i].hash = ContentHash(persisted[i].values)
       /\ batch[i].hash \in {Missing, persisted[i].hash}
       /\ \A j \in DOMAIN persisted \ {i} : persisted[i].key # persisted[j].key

EvidenceInv ==
  /\ commits \in Nat
  /\ DOMAIN commit = {"stage", "batch", "persisted", "reason"}
  /\ \A p \in proposals : SoundProposal(p)
  /\ \A c \in rows : SoundPair(c.batch, c.persisted)
  /\ commit.stage \in {"inserting", "committed"} => SoundPair(commit.batch, commit.persisted)
  /\ commit.stage = "committed" => \E c \in rows : c.persisted = commit.persisted

(* A submission has the fields of its proposal, and perhaps other values.  *)
LEMMA SubmissionsAreEntries ==
  ASSUME NEW p, SoundProposal(p), NEW s \in Submissions(p)
  PROVE  DOMAIN s = EntryFields /\ s.values \in Contents \cup {Missing}
<1>1. DOMAIN p = EntryFields /\ p.values \in Contents
  BY DEF SoundProposal
<1>2. {"hash", "values", "sequence", "versions", "system"} \subseteq DOMAIN p
  BY <1>1 DEF EntryFields
<1>3. CASE s = p
  BY <1>1, <1>3
<1>4. ASSUME NEW h, s = [p EXCEPT !.hash = h]
      PROVE  DOMAIN s = EntryFields /\ s.values \in Contents \cup {Missing}
  BY <1>1, <1>2, <1>4
<1>5. ASSUME NEW v \in Contents \cup {Missing}, s = [p EXCEPT !.values = v]
      PROVE  DOMAIN s = EntryFields /\ s.values \in Contents \cup {Missing}
  BY <1>1, <1>2, <1>5
<1>6. ASSUME NEW v \in Contents, s = [p EXCEPT !.values = v, !.hash = Missing]
      PROVE  DOMAIN s = EntryFields /\ s.values \in Contents \cup {Missing}
  BY <1>1, <1>2, <1>6
<1>7. ASSUME s \in {[p EXCEPT !.sequence = -1], [p EXCEPT !.versions = Missing], [p EXCEPT !.system = Missing]}
      PROVE  DOMAIN s = EntryFields /\ s.values \in Contents \cup {Missing}
  BY <1>1, <1>2, <1>7
<1> QED
  BY <1>3, <1>4, <1>5, <1>6, <1>7 DEF Submissions

(* What CommitErrors looks at but the hash.                                *)
LEMMA NoErrors ==
  ASSUME NEW s, CommitErrors(s) = {}
  PROVE  /\ ~\E f \in TextFields : s[f] = Missing
         /\ s.values # Missing
         /\ s.hash # Missing => IsHash(s.hash)
<1>1. /\ Code(\E f \in TextFields : s[f] = Missing, "missing_provenance") = {}
      /\ Code(s.values = Missing, "invalid_values") = {}
      /\ Code(s.hash # Missing /\ ~IsHash(s.hash), "invalid_content_sha256") = {}
  BY DEF CommitErrors
<1> QED
  BY <1>1 DEF Code

(* A batch that is not refused is inserted soundly.                        *)
LEMMA UnrefusedIsSound ==
  ASSUME EvidenceInv, NEW batch \in Batches, CommitRefusal(batch) = "none"
  PROVE  SoundPair(batch, Persisted(batch))
<1>1. PICK n \in 0..MaxBatch : batch \in [1..n -> UNION {Submissions(p) : p \in proposals}]
  BY DEF Batches
<1>2. \A i \in 1..n : DOMAIN batch[i] = EntryFields /\ batch[i].values \in Contents \cup {Missing}
  <2> SUFFICES ASSUME NEW i \in 1..n
               PROVE  DOMAIN batch[i] = EntryFields /\ batch[i].values \in Contents \cup {Missing}
    OBVIOUS
  <2>1. PICK p \in proposals : batch[i] \in Submissions(p)
    BY <1>1
  <2> QED
    BY <2>1, SubmissionsAreEntries DEF EvidenceInv
<1>3. /\ BatchErrors(batch) = {}
      /\ ~\E i \in DOMAIN batch : ~Canonicalizable(batch[i].values) \/ HashMismatch(batch[i])
  BY DEF CommitRefusal
<1>4. \A i \in DOMAIN batch : CommitErrors(batch[i]) = {}
  BY <1>3 DEF BatchErrors
<1>5. ~RepeatedKey(batch)
  <2>1. Code(RepeatedKey(batch), "duplicate_snapshot_key") = {}
    BY <1>3 DEF BatchErrors
  <2> QED
    BY <2>1 DEF Code
<1> DEFINE persisted == Persisted(batch)
<1>6. DOMAIN persisted = 1..n /\ DOMAIN batch = 1..n
  BY <1>1 DEF Persisted
<1>7. ASSUME NEW i \in 1..n
      PROVE  /\ DOMAIN persisted[i] = EntryFields \cup {"id"}
             /\ persisted[i].id = <<commits + 1, i>>
             /\ persisted[i].hash = ContentHash(batch[i].values)
             /\ \A f \in EntryFields \ {"hash"} : persisted[i][f] = batch[i][f]
  <2>1. persisted[i] = [f \in EntryFields \cup {"id"} |->
                          CASE f = "id" -> <<commits + 1, i>>
                            [] f = "hash" -> ContentHash(batch[i].values)
                            [] OTHER -> batch[i][f]]
    BY <1>2, <1>6 DEF Persisted
  <2>2. "hash" \in EntryFields /\ "id" \notin EntryFields
    BY DEF EntryFields
  <2> QED
    BY <2>1, <2>2
<1> HIDE DEF persisted
<1>8. ASSUME NEW i \in 1..n
      PROVE  /\ persisted[i].values \in Contents
             /\ persisted[i].values = batch[i].values
             /\ persisted[i].hash = ContentHash(persisted[i].values)
             /\ persisted[i].key = batch[i].key /\ persisted[i].key # Missing
             /\ batch[i].hash \in {Missing, persisted[i].hash}
  <2>1. persisted[i].values = batch[i].values /\ persisted[i].key = batch[i].key
    BY <1>7 DEF EntryFields
  <2>2. batch[i].values # Missing /\ batch[i].key # Missing
    BY <1>4, <1>6, NoErrors DEF TextFields
  <2>3. ~HashMismatch(batch[i])
    BY <1>3, <1>6
  <2> QED
    BY <1>2, <1>7, <2>1, <2>2, <2>3 DEF HashMismatch
<1>9. ASSUME NEW i \in 1..n PROVE PersistedErrors(persisted[i]) = {}
  <2>1. IsHash(persisted[i].hash)
    BY <1>8 DEF IsHash
  <2>2. CommitErrors(persisted[i]) = CommitErrors(batch[i])
    <3>1. /\ persisted[i].values = batch[i].values /\ persisted[i].versions = batch[i].versions
          /\ persisted[i].lineage = batch[i].lineage /\ persisted[i].sequence = batch[i].sequence
          /\ persisted[i].at = batch[i].at
      BY <1>7 DEF EntryFields
    <3>2. \A f \in TextFields : persisted[i][f] = batch[i][f]
      BY <1>7 DEF EntryFields, TextFields
    <3>3. /\ Code(persisted[i].hash # Missing /\ ~IsHash(persisted[i].hash), "invalid_content_sha256") = {}
          /\ Code(batch[i].hash # Missing /\ ~IsHash(batch[i].hash), "invalid_content_sha256") = {}
      BY <1>4, <1>6, <2>1, NoErrors DEF Code
    <3>4. /\ VersionErrors(persisted[i]) = VersionErrors(batch[i])
          /\ LineageErrors(persisted[i]) = LineageErrors(batch[i])
      BY <3>1 DEF VersionErrors, LineageErrors
    <3>5. (\E f \in TextFields : persisted[i][f] = Missing) <=> (\E f \in TextFields : batch[i][f] = Missing)
      BY <3>2
    <3>6. Code(\E f \in TextFields : persisted[i][f] = Missing, "missing_provenance") =
            Code(\E f \in TextFields : batch[i][f] = Missing, "missing_provenance")
      BY <3>5 DEF Code
    <3> QED
      BY <3>1, <3>3, <3>4, <3>6 DEF CommitErrors
  <2>3. persisted[i].id # Missing
    <3>1. commits + 1 \in Nat /\ i \in Nat
      BY DEF EvidenceInv
    <3>2. <<commits + 1, i>> \in Nat \X Nat
      BY <3>1
    <3>3. Missing \notin Nat \X Nat
      BY EvidenceAssumption
    <3> QED
      BY <1>7, <3>2, <3>3
  <2>4. CommitErrors(persisted[i]) = {}
    BY <1>4, <1>6, <2>2
  <2> QED
    BY <2>1, <2>3, <2>4 DEF PersistedErrors, Code
<1>10. ASSUME NEW i \in 1..n, NEW j \in 1..n, i # j PROVE persisted[i].key # persisted[j].key
  <2>1. i < j \/ j < i
    BY <1>10
  <2> QED
    BY <1>5, <1>6, <1>8, <2>1 DEF RepeatedKey
<1> QED
  BY <1>6, <1>8, <1>9, <1>10 DEF SoundPair, persisted

LEMMA ProposeKeepsInv ==
  ASSUME EvidenceInv, NEW e \in Entries, NEW k \in Keys \cup {Missing}, NEW a, Propose(e, k, a)
  PROVE  EvidenceInv'
<1>1. SoundProposal(Proposal(e, k, a))
  <2>1. DOMAIN e = EntryFields /\ e.values \in Contents \cup {Missing}
    BY EvidenceAssumption
  <2>2. PICK p : p = Proposal(e, k, a)
    OBVIOUS
  <2>3. /\ p.values = e.values /\ DOMAIN p = EntryFields
        /\ p.hash = ContentHash(e.values)
    <3>1. \A f \in {"key", "at", "by", "hash", "values"} : f \in DOMAIN e
      BY <2>1 DEF EntryFields
    <3> QED
      BY <2>1, <2>2, <3>1 DEF Proposal
  <2>4. p.values # Missing
    <3>1. ProposedErrors(p) = {}
      BY <2>2 DEF Propose
    <3>2. Code(p.values = Missing, "invalid_values") = {}
      BY <3>1 DEF ProposedErrors
    <3> QED
      BY <3>2 DEF Code
  <2> QED
    BY <2>1, <2>2, <2>3, <2>4 DEF SoundProposal
<1>2. /\ proposals' = proposals \cup {Proposal(e, k, a)}
      /\ UNCHANGED <<commit, rows, commits>>
  BY DEF Propose
<1>3. \A p \in proposals' : SoundProposal(p)
  BY <1>1, <1>2 DEF EvidenceInv
<1> QED
  BY <1>2, <1>3 DEF EvidenceInv

LEMMA CommitKeepsInv ==
  ASSUME EvidenceInv, NEW batch \in Batches, Commit(batch)
  PROVE  EvidenceInv'
<1>1. UNCHANGED <<proposals, rows>> /\ commits' \in Nat
  BY DEF Commit, EvidenceInv
<1>2. CASE CommitRefusal(batch) = "none"
  <2>1. commit' = [stage |-> "inserting", batch |-> batch, persisted |-> Persisted(batch), reason |-> "none"]
    BY <1>2 DEF Commit
  <2>2. /\ commit'.stage = "inserting" /\ commit'.batch = batch /\ commit'.persisted = Persisted(batch)
        /\ DOMAIN commit' = {"stage", "batch", "persisted", "reason"}
    BY <2>1
  <2>3. SoundPair(commit'.batch, commit'.persisted)
    BY <1>2, <2>2, UnrefusedIsSound
  <2> QED
    BY <1>1, <2>2, <2>3 DEF EvidenceInv
<1>3. CASE CommitRefusal(batch) # "none"
  <2>1. commit'.stage = "refused" /\ DOMAIN commit' = {"stage", "batch", "persisted", "reason"}
    BY <1>3 DEF Commit
  <2> QED
    BY <1>1, <2>1 DEF EvidenceInv
<1> QED
  BY <1>2, <1>3

LEMMA InsertKeepsInv ==
  ASSUME EvidenceInv, Insert \/ InsertFails
  PROVE  EvidenceInv'
<1>1. /\ UNCHANGED <<proposals, commits>> /\ SoundPair(commit.batch, commit.persisted)
      /\ DOMAIN commit = {"stage", "batch", "persisted", "reason"}
  BY DEF Insert, InsertFails, EvidenceInv
<1>2. CASE InsertFails
  <2>1. commit' = [commit EXCEPT !.stage = "rejected"] /\ rows' = rows
    BY <1>2 DEF InsertFails
  <2>2. commit'.stage = "rejected" /\ DOMAIN commit' = DOMAIN commit
    BY <1>1, <2>1
  <2> QED
    BY <1>1, <2>1, <2>2 DEF EvidenceInv
<1>3. CASE Insert
  <2>1. PICK stage \in {"committed", "rejected"} : commit' = [commit EXCEPT !.stage = stage]
    BY <1>3 DEF Insert
  <2>2. /\ commit'.stage = stage /\ DOMAIN commit' = DOMAIN commit
        /\ commit'.batch = commit.batch /\ commit'.persisted = commit.persisted
    BY <1>1, <2>1
  <2>3. PICK c : c = [batch |-> commit.batch, persisted |-> commit.persisted]
    OBVIOUS
  <2>4. rows' = rows \cup {c} /\ c.batch = commit.batch /\ c.persisted = commit.persisted
    BY <1>3, <2>3 DEF Insert
  <2> QED
    BY <1>1, <2>2, <2>4 DEF EvidenceInv
<1> QED
  BY <1>2, <1>3

(* What the snapshot store holds of evidence is valid, under its own hash  *)
(* and under keys of its own, and an acknowledged commit is there, for any *)
(* catalog, keys, values, size of a batch and number of commits            *)
(* (commitGovernedEvidenceSnapshots).                                      *)
THEOREM CommittedEvidenceIsSound == EvidenceSpec => []StoredEvidenceIsSound
<1>1. EvidenceInit => EvidenceInv
  BY DEF EvidenceInit, EvidenceInv, NoCommit
<1>2. EvidenceInv /\ [EvidenceNext]_evidenceVars => EvidenceInv'
  <2>1. EvidenceInv /\ UNCHANGED evidenceVars => EvidenceInv'
    BY DEF EvidenceInv, evidenceVars
  <2> QED
    BY <2>1, ProposeKeepsInv, CommitKeepsInv, InsertKeepsInv DEF EvidenceNext
<1>3. EvidenceInv => StoredEvidenceIsSound
  <2> SUFFICES ASSUME EvidenceInv PROVE StoredEvidenceIsSound
    OBVIOUS
  <2>1. ASSUME NEW c \in rows, NEW i \in DOMAIN c.persisted, NEW p \in proposals,
               c.batch[i].hash = p.hash
        PROVE  c.persisted[i].values = p.values
    <3>1. SoundPair(c.batch, c.persisted) /\ SoundProposal(p)
      BY DEF EvidenceInv
    <3>2. p.hash \in {"sha256"} \X Contents
      BY <3>1 DEF SoundProposal, ContentHash
    <3>3. p.hash # Missing
      BY <3>2, EvidenceAssumption
    <3>4. p.hash = ContentHash(c.persisted[i].values) /\ p.hash = ContentHash(p.values)
      BY <2>1, <3>1, <3>3 DEF SoundPair, SoundProposal
    <3> QED
      BY <3>4 DEF ContentHash
  <2>2. ASSUME NEW c \in rows, NEW i \in DOMAIN c.persisted
        PROVE  /\ PersistedErrors(c.persisted[i]) = {}
               /\ c.persisted[i].hash = ContentHash(c.persisted[i].values)
               /\ c.batch[i].hash \in {Missing, c.persisted[i].hash}
               /\ \A j \in DOMAIN c.persisted \ {i} : c.persisted[i].key # c.persisted[j].key
    BY DEF EvidenceInv, SoundPair
  <2>3. commit.stage = "committed" => \E c \in rows : c.persisted = commit.persisted
    BY DEF EvidenceInv
  <2> QED
    BY <2>1, <2>2, <2>3 DEF StoredEvidenceIsSound
<1> QED
  BY <1>1, <1>2, <1>3, PTL DEF EvidenceSpec

-----------------------------------------------------------------------------
(* RunReads.                                                               *)

OrAbsent == RunStates \cup {Absent}

Rows ==
  [call : TracedCalls, type : {"transition.completed", "transition.blocked"}, from : OrAbsent,
   to : OrAbsent, actor : MoveActors \cup {"human"}, input : Inputs \cup {"nothing"},
   evidence : {"nothing", "status"}, failures : {0, 1}, blocked : BOOLEAN]

Summaries == [stepCount : Nat, blockedCount : Nat]

Spans == [state : OrAbsent, entered : Nat, exited : Nat]

Walks == [spans : Seq(Spans), current : OrAbsent, entered : Nat, time : Nat]

(* The rows of a run whose transitions followed each other: each executed  *)
(* one leads from where the executed one before it led.                    *)
Shaped(rs) ==
  \A i \in DOMAIN rs : /\ rs[i].blocked => rs[i].to = Absent
                       /\ ~rs[i].blocked => rs[i].from \in RunStates /\ rs[i].to \in RunStates

Follows(rs, i, j) ==
  /\ i < j
  /\ \A k \in ExecutedRows(rs) : ~(i < k /\ k < j)

Chained(rs) == \A i, j \in ExecutedRows(rs) : Follows(rs, i, j) => rs[j].from = rs[i].to

(* What computeStateResidency has collected after n rows.                  *)
ExecutedUpTo(rs, n) == {i \in 1..n : ~rs[i].blocked}

Walked(a, rs, n) ==
  LET done == ExecutedUpTo(rs, n) IN
  /\ a \in Walks
  /\ a.time = n + 1
  /\ \A i \in DOMAIN a.spans :
       a.spans[i].entered \in 1..n /\ a.spans[i].state = rs[a.spans[i].entered].to
  /\ \A i \in 1..Len(a.spans) - 1 : a.spans[i].exited = a.spans[i + 1].entered
  /\ done = {} => a.current = Absent /\ a.spans = <<>>
  /\ done # {} => /\ a.entered \in done
                  /\ \A i \in done : i <= a.entered
                  /\ a.current = rs[a.entered].to
                  /\ Len(a.spans) + 1 = Cardinality(done)
                  /\ a.spans # <<>> => a.spans[Len(a.spans)].exited = a.entered

IsStays(f, rs, n) == f = [k \in 0..n |-> IF k = 0 THEN NoStay ELSE Stay(f[k - 1], rs[k])]

LEMMA StaysExist ==
  ASSUME NEW rs, NEW n \in Nat
  PROVE  \E f : IsStays(f, rs, n)
<1> DEFINE Bad == {m \in Nat : ~\E f : IsStays(f, rs, m)}
<1>1. ASSUME Bad # {} PROVE FALSE
  <2>1. PICK m \in Bad : \A k \in Bad : m <= k
    BY <1>1, LeastNumber
  <2>2. CASE m = 0
    <3>1. PICK f : f = [k \in 0..m |-> NoStay]
      OBVIOUS
    <3>2. IsStays(f, rs, m)
      BY <2>2, <3>1 DEF IsStays
    <3> QED
      BY <2>1, <3>2
  <2>3. CASE m # 0
    <3>1. m \in Nat /\ m - 1 \in Nat /\ m - 1 \notin Bad
      <4>1. m \in Nat
        BY <2>1
      <4> HIDE DEF Bad
      <4>2. m - 1 \in Bad => m <= m - 1
        BY <2>1
      <4> QED
        BY <2>3, <4>1, <4>2
    <3>2. PICK g : IsStays(g, rs, m - 1)
      BY <3>1
    <3>3. PICK f : f = [k \in 0..m |-> IF k < m THEN g[k] ELSE Stay(g[m - 1], rs[m])]
      OBVIOUS
    <3>4. \A k \in 0..m : f[k] = IF k = 0 THEN NoStay ELSE Stay(f[k - 1], rs[k])
      <4> SUFFICES ASSUME NEW k \in 0..m PROVE f[k] = IF k = 0 THEN NoStay ELSE Stay(f[k - 1], rs[k])
        OBVIOUS
      <4>1. CASE k = m
        BY <2>3, <3>1, <3>3, <4>1
      <4>2. CASE k # m
        <5>1. k \in 0..(m - 1) /\ k < m /\ (k # 0 => k - 1 \in 0..m /\ k - 1 < m)
          BY <3>1, <4>2
        <5>2. g[k] = IF k = 0 THEN NoStay ELSE Stay(g[k - 1], rs[k])
          BY <3>2, <5>1 DEF IsStays
        <5> QED
          BY <3>3, <5>1, <5>2
      <4> QED
        BY <4>1, <4>2
    <3>5. IsStays(f, rs, m)
      BY <3>3, <3>4 DEF IsStays
    <3> QED
      BY <2>1, <3>5
  <2> QED
    BY <2>2, <2>3
<1>2. n \notin Bad
  BY <1>1
<1> QED
  BY <1>2

(* What Residency makes of the end of the walk.                            *)
Closed(end) ==
  IF end.current = Absent THEN end.spans
  ELSE Append(end.spans, [state |-> end.current, entered |-> end.entered, exited |-> 0])

LEMMA ResidencyIsWalk ==
  ASSUME NEW rs \in Seq(Rows)
  PROVE  \E f : IsStays(f, rs, Len(rs)) /\ Residency(rs) = Closed(f[Len(rs)])
<1>1. PICK f : f = CHOOSE g : IsStays(g, rs, Len(rs))
  OBVIOUS
<1>2. IsStays(f, rs, Len(rs))
  BY <1>1, StaysExist
<1>3. Residency(rs) = Closed(f[Len(rs)])
  BY <1>1 DEF Residency, Closed, IsStays
<1> QED
  BY <1>2, <1>3

(* One more row.                                                           *)
LEMMA NextRow ==
  ASSUME NEW rs \in Seq(Rows), NEW m \in DOMAIN rs
  PROVE  /\ m \in Nat /\ m >= 1 /\ m - 1 \in Nat /\ 1..(m - 1) \subseteq 1..m
         /\ 1..m \subseteq DOMAIN rs
         /\ rs[m].blocked => ExecutedUpTo(rs, m) = ExecutedUpTo(rs, m - 1)
         /\ ~rs[m].blocked => /\ ExecutedUpTo(rs, m) = ExecutedUpTo(rs, m - 1) \cup {m}
                              /\ m \notin ExecutedUpTo(rs, m - 1)
         /\ ExecutedUpTo(rs, m) \subseteq ExecutedRows(rs)
         /\ IsFiniteSet(ExecutedUpTo(rs, m - 1))
<1>1. m \in Nat /\ m >= 1 /\ m - 1 \in Nat /\ 1..(m - 1) \subseteq 1..m /\ 1..m \subseteq DOMAIN rs
      /\ 1..m = 1..(m - 1) \cup {m} /\ m \notin 1..(m - 1)
  OBVIOUS
<1>2. IsFiniteSet(1..(m - 1))
  BY <1>1, FS_Interval
<1>3. ExecutedUpTo(rs, m - 1) \in SUBSET (1..(m - 1))
  BY DEF ExecutedUpTo
<1>4. IsFiniteSet(ExecutedUpTo(rs, m - 1))
  BY <1>2, <1>3, FS_Subset
<1>5. ExecutedUpTo(rs, m) \subseteq ExecutedRows(rs)
  BY <1>1 DEF ExecutedUpTo, ExecutedRows
<1>6. rs[m].blocked => ExecutedUpTo(rs, m) = ExecutedUpTo(rs, m - 1)
  BY <1>1 DEF ExecutedUpTo
<1>7. ~rs[m].blocked => /\ ExecutedUpTo(rs, m) = ExecutedUpTo(rs, m - 1) \cup {m}
                        /\ m \notin ExecutedUpTo(rs, m - 1)
  BY <1>1 DEF ExecutedUpTo
<1> QED
  BY <1>1, <1>4, <1>5, <1>6, <1>7

LEMMA BlockedRowWalks ==
  ASSUME NEW rs \in Seq(Rows), Shaped(rs), NEW m \in DOMAIN rs, rs[m].blocked,
         NEW a, Walked(a, rs, m - 1)
  PROVE  Walked(Stay(a, rs[m]), rs, m)
<1>1. PICK b : b = [a EXCEPT !.time = @ + 1] /\ Stay(a, rs[m]) = b
  BY DEF Shaped, Stay
<1>2. a \in Walks /\ a.time = m - 1 + 1 /\ m \in Nat /\ 1..(m - 1) \subseteq 1..m
  BY NextRow DEF Walked
<1>3. b \in Walks /\ b.time = m + 1 /\ b.spans = a.spans /\ b.current = a.current /\ b.entered = a.entered
  BY <1>1, <1>2 DEF Walks
<1>4. ExecutedUpTo(rs, m) = ExecutedUpTo(rs, m - 1)
  BY NextRow
<1>5. Walked(b, rs, m)
  BY <1>2, <1>3, <1>4 DEF Walked
<1> QED
  BY <1>1, <1>5

LEMMA ExecutedRowWalks ==
  ASSUME NEW rs \in Seq(Rows), Shaped(rs), Chained(rs), NEW m \in DOMAIN rs, ~rs[m].blocked,
         NEW a, Walked(a, rs, m - 1)
  PROVE  Walked(Stay(a, rs[m]), rs, m)
<1> DEFINE done == ExecutedUpTo(rs, m - 1)
<1>1. a \in Walks /\ a.time = m /\ m \in Nat /\ m - 1 \in Nat /\ m >= 1 /\ 1..(m - 1) \subseteq 1..m
      /\ m \in 1..m
  BY NextRow DEF Walked
<1>2. rs[m].from \in RunStates /\ rs[m].to \in RunStates /\ rs[m].from # Absent /\ rs[m].to # Absent
  BY ReadsAssumption DEF Shaped
<1>3. /\ ExecutedUpTo(rs, m) = done \cup {m} /\ m \notin done /\ IsFiniteSet(done)
      /\ done \subseteq 1..(m - 1) /\ done \cup {m} \subseteq ExecutedRows(rs)
  BY NextRow DEF ExecutedUpTo
<1>4. PICK span : span = [state |-> a.current, entered |-> a.entered, exited |-> a.time]
  OBVIOUS
<1>5. PICK spans : spans = IF a.current = rs[m].from THEN Append(a.spans, span) ELSE a.spans
  OBVIOUS
<1>6. PICK b : b = [spans |-> spans, current |-> rs[m].to, entered |-> a.time, time |-> a.time + 1]
  OBVIOUS
<1>7. Stay(a, rs[m]) = b
  BY <1>2, <1>4, <1>5, <1>6 DEF Stay
<1>8. b.spans = spans /\ b.current = rs[m].to /\ b.entered = m /\ b.time = m + 1
  BY <1>1, <1>6
<1>9. span \in Spans /\ span.state = a.current /\ span.entered = a.entered /\ span.exited = m
  BY <1>1, <1>4 DEF Walks, Spans
<1>10. spans \in Seq(Spans)
  BY <1>1, <1>5, <1>9 DEF Walks
<1>11. b \in Walks
  BY <1>1, <1>2, <1>6, <1>10 DEF Walks, OrAbsent
<1> HIDE DEF done
<1>12. /\ \A i \in DOMAIN a.spans :
            a.spans[i].entered \in 1..(m - 1) /\ a.spans[i].state = rs[a.spans[i].entered].to
       /\ \A i \in 1..Len(a.spans) - 1 : a.spans[i].exited = a.spans[i + 1].entered
       /\ done = {} => a.current = Absent /\ a.spans = <<>>
       /\ done # {} => /\ a.entered \in done
                       /\ \A i \in done : i <= a.entered
                       /\ a.current = rs[a.entered].to
                       /\ Len(a.spans) + 1 = Cardinality(done)
                       /\ a.spans # <<>> => a.spans[Len(a.spans)].exited = a.entered
  BY DEF Walked, done
<1>13. Cardinality(done \cup {m}) = Cardinality(done) + 1 /\ Cardinality(done) \in Nat
  BY <1>3, FS_AddElement, FS_CardinalityType
<1>14. \A i \in done \cup {m} : i <= m
  BY <1>1, <1>3
<1>15. CASE done = {}
  <2>1. spans = <<>>
    BY <1>2, <1>5, <1>12, <1>15
  <2>2. Cardinality(done \cup {m}) = 1
    BY <1>13, <1>15, FS_EmptySet
  <2>3. Len(<<>>) = 0 /\ DOMAIN <<>> = {}
    OBVIOUS
  <2>4. /\ b.spans = <<>> /\ Len(b.spans) + 1 = Cardinality(done \cup {m})
        /\ \A i \in DOMAIN b.spans :
             b.spans[i].entered \in 1..m /\ b.spans[i].state = rs[b.spans[i].entered].to
        /\ \A i \in 1..Len(b.spans) - 1 : b.spans[i].exited = b.spans[i + 1].entered
    BY <1>8, <2>1, <2>2, <2>3
  <2>5. done \cup {m} # {} /\ b.entered \in done \cup {m} /\ \A i \in done \cup {m} : i <= b.entered
    BY <1>8, <1>14
  <2>6. Walked(b, rs, m)
    BY <1>3, <1>8, <1>11, <2>4, <2>5 DEF Walked
  <2> QED
    BY <1>7, <2>6
<1>16. CASE done # {}
  <2>1. rs[m].from = rs[a.entered].to
    <3>1. a.entered \in ExecutedRows(rs) /\ m \in ExecutedRows(rs) /\ a.entered \in 1..(m - 1)
      BY <1>3, <1>12, <1>16
    <3>2. ASSUME NEW k \in ExecutedRows(rs), a.entered < k, k < m PROVE FALSE
      <4>1. k \in 1..(m - 1) /\ ~rs[k].blocked
        BY <1>1, <3>2 DEF ExecutedRows
      <4>2. k \in done
        BY <4>1 DEF done, ExecutedUpTo
      <4>3. k <= a.entered
        BY <1>12, <1>16, <4>2
      <4> QED
        BY <3>1, <3>2, <4>1, <4>3
    <3>3. a.entered < m
      BY <1>1, <3>1
    <3>4. Follows(rs, a.entered, m)
      BY <3>2, <3>3 DEF Follows
    <3> QED
      BY <3>1, <3>4 DEF Chained
  <2>2. spans = Append(a.spans, span)
    BY <1>5, <1>12, <1>16, <2>1
  <2>3. PICK n \in Nat : n = Len(a.spans) /\ DOMAIN a.spans = 1..n /\ a.spans \in Seq(Spans)
    BY <1>1 DEF Walks
  <2>4. /\ Len(spans) = n + 1 /\ DOMAIN spans = 1..(n + 1) /\ spans[n + 1] = span
        /\ \A i \in 1..n : spans[i] = a.spans[i]
    BY <1>9, <2>2, <2>3
  <2>5. \A i \in DOMAIN spans : spans[i].entered \in 1..m /\ spans[i].state = rs[spans[i].entered].to
    <3>1. ASSUME NEW i \in 1..n PROVE spans[i].entered \in 1..m /\ spans[i].state = rs[spans[i].entered].to
      BY <1>1, <1>12, <2>3, <2>4
    <3>2. spans[n + 1].entered \in 1..m /\ spans[n + 1].state = rs[spans[n + 1].entered].to
      BY <1>1, <1>3, <1>9, <1>12, <1>16, <2>4
    <3>3. \A i \in 1..(n + 1) : i \in 1..n \/ i = n + 1
      OBVIOUS
    <3> QED
      BY <2>4, <3>1, <3>2, <3>3
  <2>6. \A i \in 1..Len(spans) - 1 : spans[i].exited = spans[i + 1].entered
    <3> SUFFICES ASSUME NEW i \in 1..n PROVE spans[i].exited = spans[i + 1].entered
      BY <2>4
    <3>1. CASE i = n
      <4>1. a.spans # <<>> /\ a.spans[n].exited = a.entered
        BY <1>12, <1>16, <2>3, <3>1
      <4> QED
        BY <1>9, <2>4, <3>1, <4>1
    <3>2. CASE i # n
      <4>1. i \in 1..(n - 1) /\ i + 1 \in 1..n
        BY <3>2
      <4> QED
        BY <1>12, <2>3, <2>4, <4>1
    <3> QED
      BY <3>1, <3>2
  <2>7. spans[Len(spans)].exited = m /\ Len(spans) + 1 = Cardinality(done \cup {m})
    BY <1>9, <1>12, <1>13, <1>16, <2>3, <2>4
  <2>8. Walked(b, rs, m)
    BY <1>1, <1>3, <1>8, <1>11, <1>14, <2>5, <2>6, <2>7 DEF Walked
  <2> QED
    BY <1>7, <2>8
<1> QED
  BY <1>15, <1>16

LEMMA RowsAreWalked ==
  ASSUME NEW rs \in Seq(Rows), Shaped(rs), Chained(rs), NEW f, IsStays(f, rs, Len(rs))
  PROVE  Walked(f[Len(rs)], rs, Len(rs))
<1> DEFINE n == Len(rs)
           Good(k) == Walked(f[k], rs, k)
           Bad == {k \in 0..n : ~Good(k)}
<1>1. n \in Nat /\ DOMAIN rs = 1..n /\ Bad \in SUBSET Nat
  OBVIOUS
<1>2. f[0] = NoStay /\ \A k \in 1..n : f[k] = Stay(f[k - 1], rs[k])
  <2>1. \A k \in 0..n : f[k] = IF k = 0 THEN NoStay ELSE Stay(f[k - 1], rs[k])
    BY DEF IsStays
  <2> QED
    BY <1>1, <2>1
<1>3. ASSUME Bad # {} PROVE FALSE
  <2>1. PICK m \in Bad : \A k \in Bad : m <= k
    BY <1>1, <1>3, LeastNumber
  <2>2. CASE m = 0
    <3>1. ExecutedUpTo(rs, 0) = {}
      BY DEF ExecutedUpTo
    <3>2. NoStay \in Walks /\ NoStay.time = 0 + 1 /\ NoStay.spans = <<>> /\ NoStay.current = Absent
      BY DEF NoStay, Walks, OrAbsent
    <3>3. Len(<<>>) = 0 /\ DOMAIN <<>> = {} /\ 1..(0 - 1) = {}
      OBVIOUS
    <3>4. Walked(NoStay, rs, 0)
      BY <3>1, <3>2, <3>3 DEF Walked
    <3>5. Good(0)
      BY <1>2, <3>4
    <3> QED
      BY <2>1, <2>2, <3>5
  <2>3. CASE m # 0
    <3>1. m \in 1..n /\ m - 1 \in 0..n /\ m - 1 < m
      BY <1>1, <2>1, <2>3
    <3>2. m - 1 \notin Bad
      <4>1. m - 1 \in Bad => m <= m - 1
        BY <2>1
      <4> QED
        BY <3>1, <4>1
    <3>3. PICK a : a = f[m - 1] /\ Walked(a, rs, m - 1)
      BY <3>1, <3>2
    <3>4. f[m] = Stay(a, rs[m]) /\ m \in DOMAIN rs
      BY <1>1, <1>2, <3>1, <3>3
    <3>5. Good(m)
      BY <3>3, <3>4, BlockedRowWalks, ExecutedRowWalks
    <3> QED
      BY <2>1, <3>5
  <2> QED
    BY <2>2, <2>3
<1>4. Good(n)
  BY <1>1, <1>3
<1> QED
  BY <1>4

(* The stays of such a run, one for each executed transition, the last one *)
(* in the state that the last of them led to.                              *)
LEMMA ResidencyIsTrue ==
  ASSUME NEW rs \in Seq(Rows), Shaped(rs), Chained(rs), NEW spans, spans = Residency(rs)
  PROVE  /\ Len(spans) = Cardinality(ExecutedRows(rs))
         /\ \A i \in DOMAIN spans : spans[i].state = rs[spans[i].entered].to
         /\ \A i \in 1 .. Len(spans) - 1 : spans[i].exited = spans[i + 1].entered
         /\ spans # <<>> => \E i \in ExecutedRows(rs) :
              (\A j \in ExecutedRows(rs) : j <= i) /\ Last(spans).state = rs[i].to
<1> DEFINE done == ExecutedRows(rs)
<1>1. PICK f : IsStays(f, rs, Len(rs)) /\ Residency(rs) = Closed(f[Len(rs)])
  BY ResidencyIsWalk
<1>2. PICK a : a = f[Len(rs)] /\ Walked(a, rs, Len(rs)) /\ spans = Closed(a)
  BY <1>1, RowsAreWalked
<1>3. done = ExecutedUpTo(rs, Len(rs))
  BY DEF ExecutedUpTo, ExecutedRows
<1>4. \A i \in done : rs[i].to \in RunStates /\ rs[i].to # Absent
  BY ReadsAssumption DEF ExecutedRows, Shaped
<1> HIDE DEF done
<1>5. /\ a \in Walks
      /\ \A i \in DOMAIN a.spans : a.spans[i].state = rs[a.spans[i].entered].to
      /\ \A i \in 1..Len(a.spans) - 1 : a.spans[i].exited = a.spans[i + 1].entered
      /\ done = {} => a.current = Absent /\ a.spans = <<>>
      /\ done # {} => /\ a.entered \in done
                      /\ \A i \in done : i <= a.entered
                      /\ a.current = rs[a.entered].to
                      /\ Len(a.spans) + 1 = Cardinality(done)
                      /\ a.spans # <<>> => a.spans[Len(a.spans)].exited = a.entered
  BY <1>2, <1>3 DEF Walked
<1>6. CASE done = {}
  <2>1. spans = <<>>
    BY <1>2, <1>5, <1>6 DEF Closed
  <2>2. Cardinality(done) = 0
    BY <1>6, FS_EmptySet
  <2>3. Len(<<>>) = 0 /\ DOMAIN <<>> = {} /\ 1..(0 - 1) = {}
    OBVIOUS
  <2> QED
    BY <2>1, <2>2, <2>3 DEF done
<1>7. CASE done # {}
  <2>1. PICK span : span = [state |-> a.current, entered |-> a.entered, exited |-> 0]
    OBVIOUS
  <2>2. spans = Append(a.spans, span)
    BY <1>2, <1>4, <1>5, <1>7, <2>1 DEF Closed
  <2>3. PICK n \in Nat : n = Len(a.spans) /\ DOMAIN a.spans = 1..n /\ a.spans \in Seq(Spans)
    BY <1>5 DEF Walks
  <2>4. span \in Spans /\ span.state = rs[a.entered].to /\ span.entered = a.entered
    BY <1>5, <1>7, <2>1 DEF Walks, Spans
  <2>5. /\ Len(spans) = n + 1 /\ DOMAIN spans = 1..(n + 1) /\ spans[n + 1] = span
        /\ \A i \in 1..n : spans[i] = a.spans[i]
    BY <2>2, <2>3, <2>4
  <2>6. \A i \in 1..(n + 1) : i \in 1..n \/ i = n + 1
    OBVIOUS
  <2>7. \A i \in DOMAIN spans : spans[i].state = rs[spans[i].entered].to
    BY <1>5, <2>3, <2>4, <2>5, <2>6
  <2>8. \A i \in 1..Len(spans) - 1 : spans[i].exited = spans[i + 1].entered
    <3> SUFFICES ASSUME NEW i \in 1..n PROVE spans[i].exited = spans[i + 1].entered
      BY <2>5
    <3>1. CASE i = n
      <4>1. a.spans # <<>> /\ a.spans[n].exited = a.entered
        BY <1>5, <1>7, <2>3, <3>1
      <4> QED
        BY <2>4, <2>5, <3>1, <4>1
    <3>2. CASE i # n
      <4>1. i \in 1..(n - 1) /\ i + 1 \in 1..n
        BY <3>2
      <4> QED
        BY <1>5, <2>3, <2>5, <4>1
    <3> QED
      BY <3>1, <3>2
  <2>9. Last(spans).state = rs[a.entered].to
    BY <2>4, <2>5 DEF Last
  <2>10. Len(spans) = Cardinality(done)
    BY <1>5, <1>7, <2>3, <2>5
  <2> QED
    BY <1>5, <1>7, <2>7, <2>8, <2>9, <2>10 DEF done
<1> QED
  BY <1>6, <1>7

(* How many of the first n rows are blocked.                               *)
BlockedUpTo(rs, n) == Cardinality({i \in 1..n : rs[i].blocked})

LEMMA OneMoreCounted ==
  ASSUME NEW rs \in Seq(Rows), NEW row \in Rows, NEW n, n = Len(rs)
  PROVE  /\ Append(rs, row) \in Seq(Rows) /\ Len(Append(rs, row)) = n + 1 /\ n \in Nat
         /\ DOMAIN Append(rs, row) = 1..(n + 1) /\ DOMAIN rs = 1..n
         /\ Append(rs, row)[n + 1] = row
         /\ \A i \in 1..n : Append(rs, row)[i] = rs[i]
         /\ \A k \in 0..n : BlockedUpTo(Append(rs, row), k) = BlockedUpTo(rs, k)
         /\ BlockedUpTo(rs, n) \in Nat
         /\ BlockedUpTo(Append(rs, row), n + 1) = BlockedUpTo(rs, n) + (IF row.blocked THEN 1 ELSE 0)
<1>1. PICK more : more = Append(rs, row)
  OBVIOUS
<1>2. /\ more \in Seq(Rows) /\ Len(more) = n + 1 /\ n \in Nat
      /\ DOMAIN more = 1..(n + 1) /\ DOMAIN rs = 1..n
      /\ more[n + 1] = row
      /\ \A i \in 1..n : more[i] = rs[i]
  BY <1>1
<1>3. \A k \in 0..n : BlockedUpTo(more, k) = BlockedUpTo(rs, k)
  <2> SUFFICES ASSUME NEW k \in 0..n PROVE BlockedUpTo(more, k) = BlockedUpTo(rs, k)
    OBVIOUS
  <2>1. 1..k \subseteq 1..n
    BY <1>2
  <2>2. {i \in 1..k : more[i].blocked} = {i \in 1..k : rs[i].blocked}
    BY <1>2, <2>1
  <2> QED
    BY <2>2 DEF BlockedUpTo
<1>4. PICK B : B = {i \in 1..n : rs[i].blocked}
  OBVIOUS
<1>5. IsFiniteSet(B) /\ Cardinality(B) \in Nat
  <2>1. IsFiniteSet(1..n)
    BY <1>2, FS_Interval
  <2>2. B \in SUBSET (1..n)
    BY <1>4
  <2> QED
    BY <2>1, <2>2, FS_Subset, FS_CardinalityType
<1>6. BlockedUpTo(rs, n) = Cardinality(B)
  BY <1>4 DEF BlockedUpTo
<1>7. n + 1 \notin B /\ 1..(n + 1) = 1..n \cup {n + 1}
  BY <1>2, <1>4
<1>8. CASE row.blocked
  <2>1. {i \in 1..(n + 1) : more[i].blocked} = B \cup {n + 1}
    BY <1>2, <1>4, <1>7, <1>8
  <2>2. Cardinality(B \cup {n + 1}) = Cardinality(B) + 1
    BY <1>5, <1>7, FS_AddElement
  <2>3. BlockedUpTo(more, n + 1) = Cardinality(B) + 1
    BY <2>1, <2>2 DEF BlockedUpTo
  <2> QED
    BY <1>1, <1>2, <1>3, <1>5, <1>6, <1>8, <2>3
<1>9. CASE ~row.blocked
  <2>1. {i \in 1..(n + 1) : more[i].blocked} = B
    BY <1>2, <1>4, <1>7, <1>9
  <2>2. BlockedUpTo(more, n + 1) = Cardinality(B)
    BY <2>1 DEF BlockedUpTo
  <2> QED
    BY <1>1, <1>2, <1>3, <1>5, <1>6, <1>9, <2>2
<1> QED
  BY <1>8, <1>9

MoveRecords ==
  [at : {"none", "running", "tracing", "traced", "lost"}, from : OrAbsent, to : OrAbsent,
   status : {"none", "executed", "guard_failed", "rejected", "threw"},
   actor : MoveActors \cup {"human"}, input : Inputs \cup {"nothing"}]

ReadRecords ==
  [at : {"none", "summary", "trace", "answered"}, since : Nat, summary : {Absent} \cup Summaries,
   rows : Seq(Rows), status : {0, 200, 404}]

MoveIsTold(q) ==
  /\ q.at \in {"none", "running"} => q.status = "none"
  /\ q.at = "running" => q.from \in RunStates
  /\ q.at \in {"tracing", "traced"} => q.status # "none"
  /\ q.status = "executed" => q.from \in RunStates /\ q.to \in RunStates
  /\ q.status # "executed" => q.to = Absent

Begun == {c \in TracedCalls : moves[c].at # "none"}

RunTypes ==
  /\ runState \in RunStates
  /\ moves \in [TracedCalls -> MoveRecords]
  /\ \A c \in TracedCalls : MoveIsTold(moves[c])
  /\ IsFiniteSet(Begun)
  /\ traceRows \in Seq(Rows)
  /\ reads \in [ReadRequests -> ReadRecords]
  /\ alone \in BOOLEAN

(* A row tells what became of a transition that was traced, and no two     *)
(* tell of the same.                                                       *)
RowsAreTold ==
  /\ \A i \in DOMAIN traceRows :
       moves[traceRows[i].call].at = "traced" /\ traceRows[i] = RecordOf(traceRows[i].call)
  /\ \A i, j \in DOMAIN traceRows : traceRows[i].call = traceRows[j].call => i = j

SummaryIsTold ==
  /\ traceRows = <<>> => runSummary = Absent
  /\ traceRows # <<>> => /\ runSummary \in Summaries
                         /\ runSummary.stepCount = Len(traceRows)
                         /\ runSummary.blockedCount = BlockedUpTo(traceRows, Len(traceRows))

(* What a read holds is of a beginning of the rows.                        *)
ReadIsTold(q, rs) ==
  /\ q.since <= Len(rs)
  /\ q.status = 404 => q.since = 0
  /\ q.at # "answered" => q.status = 0
  /\ q.at = "trace" \/ q.status = 200 =>
       /\ q.summary \in Summaries
       /\ q.since <= q.summary.stepCount /\ q.summary.stepCount <= Len(rs)
       /\ q.summary.blockedCount = BlockedUpTo(rs, q.summary.stepCount)
  /\ q.status = 200 =>
       /\ q.summary.stepCount <= Len(q.rows) /\ Len(q.rows) <= Len(rs)
       /\ \A i \in 1..Len(q.rows) : q.rows[i] = rs[i]

(* Where the last executed row led, if there is one, is s.                 *)
Ends(rs, s) ==
  \A i \in ExecutedRows(rs) : (\A j \in ExecutedRows(rs) : j <= i) => rs[i].to = s

Hanging(c) == moves[c].at \in {"running", "tracing"}

Unrecorded(c) == moves[c].at = "tracing" /\ moves[c].status = "executed"

(* Transitions one after the other: the rows lead to the state of the run, *)
(* but for the one that is not traced yet.                                 *)
AloneIsTold ==
  alone =>
    /\ \A c, d \in TracedCalls : Hanging(c) /\ Hanging(d) => c = d
    /\ Chained(traceRows)
    /\ \A c \in TracedCalls : moves[c].at # "lost"
    /\ \A c \in TracedCalls : moves[c].at = "running" => moves[c].from = runState
    /\ \A c \in TracedCalls : Unrecorded(c) => Ends(traceRows, moves[c].from) /\ moves[c].to = runState
    /\ (\A c \in TracedCalls : ~Unrecorded(c)) => Ends(traceRows, runState)

ReadsInv ==
  /\ RunTypes
  /\ RowsAreTold
  /\ SummaryIsTold
  /\ \A r \in ReadRequests : ReadIsTold(reads[r], traceRows)
  /\ AloneIsTold

LEMMA RecordIsRow ==
  ASSUME NEW c \in TracedCalls, moves[c] \in MoveRecords, MoveIsTold(moves[c]),
         moves[c].at \in {"tracing", "traced"}, NEW row, row = RecordOf(c)
  PROVE  /\ row \in Rows /\ row.call = c
         /\ row.from = moves[c].from /\ row.to = moves[c].to /\ row.input = moves[c].input
         /\ row.evidence \in {"nothing", "status"}
         /\ row.failures = (IF moves[c].status = "guard_failed" THEN 1 ELSE 0)
         /\ row.blocked = (moves[c].status # "executed")
         /\ row.blocked => row.to = Absent
         /\ ~row.blocked => row.from \in RunStates /\ row.to \in RunStates
<1>1. PICK q \in MoveRecords : q = moves[c] /\ MoveIsTold(q)
  OBVIOUS
<1>2. PICK type, evidence, failures, blocked :
        /\ type = Type(q)
        /\ evidence = IF q.status = "threw" THEN "nothing" ELSE "status"
        /\ failures = IF q.status = "guard_failed" THEN 1 ELSE 0
        /\ blocked = (q.status # "executed")
  OBVIOUS
<1>3. type \in {"transition.completed", "transition.blocked"}
  BY <1>2 DEF Type
<1>4. evidence \in {"nothing", "status"} /\ failures \in {0, 1} /\ blocked \in BOOLEAN
  BY <1>2
<1>5. row = [call |-> c, type |-> type, from |-> q.from, to |-> q.to, actor |-> q.actor,
             input |-> q.input, evidence |-> evidence, failures |-> failures, blocked |-> blocked]
  BY <1>1, <1>2 DEF RecordOf
<1>6. /\ q.from \in OrAbsent /\ q.to \in OrAbsent /\ q.actor \in MoveActors \cup {"human"}
      /\ q.input \in Inputs \cup {"nothing"}
  BY DEF MoveRecords
<1>7. row \in Rows
  BY <1>3, <1>4, <1>5, <1>6 DEF Rows
<1>8. /\ row.call = c /\ row.from = q.from /\ row.to = q.to /\ row.input = q.input
      /\ row.evidence = evidence /\ row.failures = failures /\ row.blocked = blocked
  BY <1>5
<1>9. blocked => q.to = Absent
  BY <1>1, <1>2 DEF MoveIsTold
<1>10. ~blocked => q.from \in RunStates /\ q.to \in RunStates
  BY <1>1, <1>2 DEF MoveIsTold
<1> QED
  BY <1>1, <1>2, <1>4, <1>7, <1>8, <1>9, <1>10

LEMMA TracedAreShaped ==
  ASSUME RunTypes, RowsAreTold
  PROVE  Shaped(traceRows)
<1> SUFFICES ASSUME NEW i \in DOMAIN traceRows
             PROVE  /\ traceRows[i].blocked => traceRows[i].to = Absent
                    /\ ~traceRows[i].blocked => traceRows[i].from \in RunStates /\ traceRows[i].to \in RunStates
  BY DEF Shaped
<1>0. traceRows[i] \in Rows
  BY DEF RunTypes
<1>1. PICK c \in TracedCalls : c = traceRows[i].call
  BY <1>0 DEF Rows
<1>2. moves[c] \in MoveRecords /\ MoveIsTold(moves[c]) /\ moves[c].at = "traced" /\ traceRows[i] = RecordOf(c)
  BY <1>1 DEF RunTypes, RowsAreTold
<1> QED
  BY <1>2, RecordIsRow

(* What AnswersAgree says of an answer.                                    *)
Agrees(since, s, rs) ==
  /\ since <= s.stepCount /\ s.stepCount <= Len(rs)
  /\ s.blockedCount = Cardinality({i \in 1 .. s.stepCount : History(rs)[i].blocked})
  /\ \A i \in DOMAIN rs : Submitted(rs[i]) = moves[rs[i].call].input
  /\ Cardinality({i \in DOMAIN rs : rs[i].failures > 0}) =
       Cardinality({i \in DOMAIN rs : moves[rs[i].call].status = "guard_failed"})

(* The answers that the invariant allows.                                  *)
LEMMA ToldReadsAgree == ReadsInv => AnswersAgree
<1> SUFFICES ASSUME ReadsInv PROVE AnswersAgree
  OBVIOUS
<1>1. \A r \in ReadRequests : reads[r] \in ReadRecords /\ ReadIsTold(reads[r], traceRows)
  BY DEF ReadsInv, RunTypes
<1>2. \A r \in ReadRequests : reads[r].status = 404 => reads[r].since = 0
  BY <1>1 DEF ReadIsTold
<1>3. ASSUME NEW r \in ReadRequests, reads[r].status = 200,
             NEW rs, rs = reads[r].rows, NEW s, s = reads[r].summary
      PROVE  Agrees(reads[r].since, s, rs)
  <2>1. /\ s \in Summaries /\ rs \in Seq(Rows)
        /\ reads[r].since <= s.stepCount /\ s.stepCount <= Len(traceRows)
        /\ s.blockedCount = BlockedUpTo(traceRows, s.stepCount)
        /\ s.stepCount <= Len(rs) /\ Len(rs) <= Len(traceRows)
        /\ \A i \in 1..Len(rs) : rs[i] = traceRows[i]
    BY <1>1, <1>3 DEF ReadIsTold, ReadRecords
  <2>2. traceRows \in Seq(Rows) /\ DOMAIN traceRows = 1..Len(traceRows) /\ DOMAIN rs = 1..Len(rs)
        /\ Len(rs) \in Nat /\ Len(traceRows) \in Nat /\ s.stepCount \in Nat
    BY <2>1 DEF ReadsInv, RunTypes, Summaries
  <2>3. \A i \in 1..s.stepCount : History(rs)[i].blocked = traceRows[i].blocked
    BY <2>1, <2>2 DEF History
  <2>4. s.blockedCount = Cardinality({i \in 1 .. s.stepCount : History(rs)[i].blocked})
    <3>1. {i \in 1 .. s.stepCount : History(rs)[i].blocked} = {i \in 1..s.stepCount : traceRows[i].blocked}
      BY <2>3
    <3> QED
      BY <2>1, <3>1 DEF BlockedUpTo
  <2>5. ASSUME NEW i \in DOMAIN rs
        PROVE  /\ Submitted(rs[i]) = moves[rs[i].call].input
               /\ rs[i].failures > 0 <=> moves[rs[i].call].status = "guard_failed"
    <3>1. i \in DOMAIN traceRows /\ rs[i] = traceRows[i] /\ traceRows[i] \in Rows
      BY <2>1, <2>2
    <3>2. PICK c \in TracedCalls : c = rs[i].call
      BY <3>1 DEF Rows
    <3>3. moves[c] \in MoveRecords /\ MoveIsTold(moves[c]) /\ moves[c].at = "traced" /\ rs[i] = RecordOf(c)
      BY <3>1, <3>2 DEF ReadsInv, RunTypes, RowsAreTold
    <3>4. /\ rs[i].input = moves[c].input /\ rs[i].evidence \in {"nothing", "status"}
          /\ rs[i].failures = (IF moves[c].status = "guard_failed" THEN 1 ELSE 0)
      BY <3>3, RecordIsRow
    <3>5. Submitted(rs[i]) = rs[i].input
      BY <3>4 DEF Submitted
    <3> QED
      BY <3>2, <3>4, <3>5
  <2>6. {i \in DOMAIN rs : rs[i].failures > 0} = {i \in DOMAIN rs : moves[rs[i].call].status = "guard_failed"}
    BY <2>5
  <2> QED
    BY <2>1, <2>4, <2>5, <2>6 DEF Agrees
<1>4. ASSUME NEW r \in Answers
      PROVE  LET rs == reads[r].rows
                 d == Detail(reads[r].summary, rs)
                 items == EvidenceItems(rs)
             IN
             /\ reads[r].since <= d.stepCount /\ d.stepCount <= d.traceStepCount
             /\ d.blockedCount = Cardinality({i \in 1 .. d.stepCount : History(rs)[i].blocked})
             /\ \A i \in DOMAIN items : items[i].evidence = moves[items[i].call].input
             /\ ReplaySummary(rs).guardBlockCount =
                  Cardinality({i \in DOMAIN rs : moves[rs[i].call].status = "guard_failed"})
  <2>1. PICK rs, s : rs = reads[r].rows /\ s = reads[r].summary
    OBVIOUS
  <2>2. r \in ReadRequests /\ reads[r].status = 200
    BY DEF Answers
  <2>0. Agrees(reads[r].since, s, rs)
    BY <1>3, <2>1, <2>2
  <2>3. /\ reads[r].since <= s.stepCount /\ s.stepCount <= Len(rs)
        /\ s.blockedCount = Cardinality({i \in 1 .. s.stepCount : History(rs)[i].blocked})
        /\ \A i \in DOMAIN rs : Submitted(rs[i]) = moves[rs[i].call].input
        /\ Cardinality({i \in DOMAIN rs : rs[i].failures > 0}) =
             Cardinality({i \in DOMAIN rs : moves[rs[i].call].status = "guard_failed"})
    BY <2>0 DEF Agrees
  <2>4. PICK d : d = Detail(s, rs)
    OBVIOUS
  <2>5. d.stepCount = s.stepCount /\ d.blockedCount = s.blockedCount /\ d.traceStepCount = Len(rs)
    BY <2>4 DEF Detail
  <2>6. PICK items : items = EvidenceItems(rs)
    OBVIOUS
  <2>7. DOMAIN items = DOMAIN rs
        /\ \A i \in DOMAIN rs : items[i].evidence = Submitted(rs[i]) /\ items[i].call = rs[i].call
    BY <2>6 DEF EvidenceItems
  <2>8. ReplaySummary(rs).guardBlockCount = Cardinality({i \in DOMAIN rs : rs[i].failures > 0})
    BY DEF ReplaySummary
  <2>9. \A i \in DOMAIN items : items[i].evidence = moves[items[i].call].input
    BY <2>3, <2>7
  <2>10. /\ reads[r].since <= d.stepCount /\ d.stepCount <= d.traceStepCount
         /\ d.blockedCount = Cardinality({i \in 1 .. d.stepCount : History(rs)[i].blocked})
    BY <2>3, <2>5
  <2> QED
    BY <2>1, <2>3, <2>4, <2>6, <2>8, <2>9, <2>10
<1> QED
  BY <1>2, <1>4 DEF AnswersAgree

(* Rows that are as many as the transitions are all of the rows, and then  *)
(* no transition is under way.                                             *)
LEMMA AllAreTraced ==
  ASSUME RunTypes, RowsAreTold, NEW n \in Nat, n <= Len(traceRows), n = Cardinality(Begun)
  PROVE  n = Len(traceRows) /\ \A c \in TracedCalls : moves[c].at \in {"none", "traced"}
<1>1. PICK m \in Nat : m = Len(traceRows) /\ DOMAIN traceRows = 1..m
  BY DEF RunTypes
<1>2. PICK f : f = [i \in 1..m |-> traceRows[i].call]
  OBVIOUS
<1>3. \A i \in 1..m : traceRows[i].call \in TracedCalls
  <2>1. \A i \in 1..m : traceRows[i] \in Rows
    BY <1>1 DEF RunTypes
  <2> QED
    BY <2>1 DEF Rows
<1>4. \A i \in 1..m : moves[f[i]].at = "traced" /\ f[i] \in Begun
  BY <1>1, <1>2, <1>3 DEF RowsAreTold, Begun
<1>5. f \in [1..m -> Begun]
  BY <1>2, <1>4
<1>6. \A i, j \in 1..m : f[i] = f[j] => i = j
  BY <1>1, <1>2 DEF RowsAreTold
<1>7. f \in Injection(1..m, Begun)
  BY <1>5, <1>6 DEF Injection, IsInjective
<1>8. IsFiniteSet(Begun) /\ IsFiniteSet(1..m) /\ Cardinality(1..m) = m
  BY IntervalSize DEF RunTypes
<1>9. m <= n /\ (m = n <=> f \in Surjection(1..m, Begun))
  <2>1. Cardinality(1..m) <= Cardinality(Begun)
        /\ (Cardinality(1..m) = Cardinality(Begun) <=> f \in Surjection(1..m, Begun))
    BY <1>7, <1>8, FS_Injection
  <2> QED
    BY <1>8, <2>1
<1>10. m = n
  BY <1>1, <1>9
<1>11. \A c \in Begun : \E i \in 1..m : f[i] = c
  BY <1>9, <1>10 DEF Surjection
<1>12. ASSUME NEW c \in TracedCalls, moves[c].at # "none" PROVE moves[c].at = "traced"
  BY <1>4, <1>11, <1>12 DEF Begun
<1> QED
  BY <1>1, <1>10, <1>12

LEMMA ToldReadsFollow == ReadsInv => ResidencyFollowsRun
<1> SUFFICES ASSUME ReadsInv, alone, NEW r \in Answers
             PROVE  LET rs == reads[r].rows
                        spans == Timeline(rs).stateResidency
                    IN
                    /\ Len(spans) = Cardinality(ExecutedRows(rs))
                    /\ \A i \in DOMAIN spans : spans[i].state = rs[spans[i].entered].to
                    /\ \A i \in 1 .. Len(spans) - 1 : spans[i].exited = spans[i + 1].entered
                    /\ Len(rs) = Cardinality({c \in TracedCalls : moves[c].at # "none"}) /\ spans # <<>> =>
                         Last(spans).state = runState
  BY DEF ResidencyFollowsRun
<1>0. PICK rs, spans : rs = reads[r].rows /\ spans = Residency(rs)
  OBVIOUS
<1>1. RunTypes /\ RowsAreTold /\ Chained(traceRows) /\ traceRows \in Seq(Rows)
  BY DEF ReadsInv, AloneIsTold, RunTypes
<1>2. r \in ReadRequests /\ reads[r].status = 200 /\ reads[r] \in ReadRecords
      /\ ReadIsTold(reads[r], traceRows)
  BY <1>1 DEF Answers, ReadsInv, RunTypes
<1>3. rs \in Seq(Rows) /\ Len(rs) <= Len(traceRows) /\ \A i \in 1..Len(rs) : rs[i] = traceRows[i]
  BY <1>0, <1>2 DEF ReadIsTold, ReadRecords
<1>4. PICK n \in Nat, m \in Nat : /\ n = Len(rs) /\ DOMAIN rs = 1..n
                                  /\ m = Len(traceRows) /\ DOMAIN traceRows = 1..m /\ n <= m
  BY <1>1, <1>3
<1>5. \A i \in 1..n : i \in 1..m /\ rs[i] = traceRows[i]
  BY <1>3, <1>4
<1>6. Shaped(traceRows)
  BY <1>1, TracedAreShaped
<1>7. Shaped(rs)
  BY <1>4, <1>5, <1>6 DEF Shaped
<1>8. Chained(rs)
  <2> SUFFICES ASSUME NEW i \in ExecutedRows(rs), NEW j \in ExecutedRows(rs), Follows(rs, i, j)
               PROVE  rs[j].from = rs[i].to
    BY DEF Chained
  <2>1. i \in 1..n /\ j \in 1..n /\ i \in ExecutedRows(traceRows) /\ j \in ExecutedRows(traceRows)
    BY <1>4, <1>5 DEF ExecutedRows
  <2>2. ASSUME NEW k \in ExecutedRows(traceRows), i < k, k < j PROVE FALSE
    <3>1. k \in 1..m /\ k \in 1..n
      BY <1>4, <2>1, <2>2 DEF ExecutedRows
    <3>2. k \in ExecutedRows(rs)
      BY <1>4, <1>5, <3>1 DEF ExecutedRows
    <3> QED
      BY <2>2, <3>2 DEF Follows
  <2>3. Follows(traceRows, i, j)
    BY <2>2 DEF Follows
  <2>4. traceRows[j].from = traceRows[i].to
    BY <1>1, <2>1, <2>3 DEF Chained
  <2> QED
    BY <1>5, <2>1, <2>4
<1>9. /\ Len(spans) = Cardinality(ExecutedRows(rs))
      /\ \A i \in DOMAIN spans : spans[i].state = rs[spans[i].entered].to
      /\ \A i \in 1 .. Len(spans) - 1 : spans[i].exited = spans[i + 1].entered
      /\ spans # <<>> => \E i \in ExecutedRows(rs) :
           (\A j \in ExecutedRows(rs) : j <= i) /\ Last(spans).state = rs[i].to
  BY <1>0, <1>3, <1>7, <1>8, ResidencyIsTrue
<1>10. ASSUME Len(rs) = Cardinality(Begun), spans # <<>> PROVE Last(spans).state = runState
  <2>1. n = m /\ \A c \in TracedCalls : moves[c].at \in {"none", "traced"}
    BY <1>1, <1>4, <1>10, AllAreTraced
  <2>2. ExecutedRows(rs) = ExecutedRows(traceRows)
    BY <1>4, <1>5, <2>1 DEF ExecutedRows
  <2>3. Ends(traceRows, runState)
    <3>1. \A c \in TracedCalls : ~Unrecorded(c)
      BY <2>1 DEF Unrecorded
    <3> QED
      BY <3>1 DEF ReadsInv, AloneIsTold
  <2>4. PICK i \in ExecutedRows(rs) : (\A j \in ExecutedRows(rs) : j <= i) /\ Last(spans).state = rs[i].to
    BY <1>9, <1>10
  <2>5. traceRows[i].to = runState
    BY <2>2, <2>3, <2>4 DEF Ends
  <2>6. rs[i] = traceRows[i]
    BY <1>4, <1>5 DEF ExecutedRows
  <2> QED
    BY <2>4, <2>5, <2>6
<1>11. Timeline(rs).stateResidency = spans
  BY <1>0 DEF Timeline
<1> QED
  BY <1>0, <1>9, <1>10, <1>11 DEF Begun

(* The steps of a transition: q is what becomes of c.                      *)
LEMMA MoveChanges ==
  ASSUME RunTypes, NEW c \in TracedCalls, NEW q \in MoveRecords, MoveIsTold(q), q.at # "none",
         moves' = [moves EXCEPT ![c] = q]
  PROVE  /\ moves' \in [TracedCalls -> MoveRecords]
         /\ \A d \in TracedCalls : MoveIsTold(moves'[d])
         /\ IsFiniteSet(Begun')
         /\ moves'[c] = q /\ \A d \in TracedCalls \ {c} : moves'[d] = moves[d]
<1>1. moves \in [TracedCalls -> MoveRecords] /\ \A d \in TracedCalls : MoveIsTold(moves[d])
  BY DEF RunTypes
<1>2. moves' \in [TracedCalls -> MoveRecords]
      /\ moves'[c] = q /\ \A d \in TracedCalls \ {c} : moves'[d] = moves[d]
  BY <1>1
<1>3. \A d \in TracedCalls : MoveIsTold(moves'[d])
  BY <1>1, <1>2
<1>4. Begun' = Begun \cup {c}
  BY <1>2 DEF Begun
<1>5. IsFiniteSet(Begun \cup {c})
  BY FS_AddElement DEF RunTypes
<1> QED
  BY <1>2, <1>3, <1>4, <1>5

(* The rows stay true of transitions that were traced.                     *)
LEMMA RowsStayTold ==
  ASSUME RunTypes, RowsAreTold, NEW c \in TracedCalls, moves[c].at # "traced",
         \A d \in TracedCalls \ {c} : moves'[d] = moves[d], UNCHANGED traceRows
  PROVE  RowsAreTold'
<1>1. \A i \in DOMAIN traceRows : traceRows[i] \in Rows
  BY DEF RunTypes
<1>2. \A i \in DOMAIN traceRows : traceRows[i].call \in TracedCalls
  BY <1>1 DEF Rows
<1>3. \A i \in DOMAIN traceRows : moves'[traceRows[i].call] = moves[traceRows[i].call]
  BY <1>2 DEF RowsAreTold
<1>4. \A i \in DOMAIN traceRows : RecordOf(traceRows[i].call)' = RecordOf(traceRows[i].call)
  BY <1>3 DEF RecordOf
<1> QED
  BY <1>3, <1>4 DEF RowsAreTold

LEMMA BeginningKeepsReads ==
  ASSUME ReadsInv, NEW c \in TracedCalls, NEW actor \in MoveActors, NEW input \in Inputs,
         MoveBegins(c, actor, input)
  PROVE  ReadsInv'
<1>1. /\ RunTypes /\ RowsAreTold /\ SummaryIsTold /\ AloneIsTold
      /\ \A r \in ReadRequests : ReadIsTold(reads[r], traceRows)
  BY DEF ReadsInv
<1>2. PICK q : q = [NoMove EXCEPT !.at = "running", !.from = runState, !.actor = actor, !.input = input]
               /\ moves' = [moves EXCEPT ![c] = q]
  BY DEF MoveBegins
<1>3. /\ moves[c].at = "none" /\ UNCHANGED <<runState, traceRows, runSummary, reads>>
      /\ alone' = (alone /\ \A d \in TracedCalls : moves[d].at \notin {"running", "tracing"})
  BY DEF MoveBegins
<1>4. q = [at |-> "running", from |-> runState, to |-> Absent, status |-> "none",
           actor |-> actor, input |-> input]
  <2>1. PICK x1 : x1 = [NoMove EXCEPT !.at = "running"]
    OBVIOUS
  <2>2. PICK x2 : x2 = [x1 EXCEPT !.from = runState]
    OBVIOUS
  <2>3. PICK x3 : x3 = [x2 EXCEPT !.actor = actor]
    OBVIOUS
  <2>4. q = [x3 EXCEPT !.input = input]
    BY <1>2, <2>1, <2>2, <2>3
  <2>5. x1 = [at |-> "running", from |-> Absent, to |-> Absent, status |-> "none",
              actor |-> "human", input |-> "nothing"]
    BY <2>1 DEF NoMove
  <2>6. x2 = [at |-> "running", from |-> runState, to |-> Absent, status |-> "none",
              actor |-> "human", input |-> "nothing"]
    BY <2>2, <2>5
  <2>7. x3 = [at |-> "running", from |-> runState, to |-> Absent, status |-> "none",
              actor |-> actor, input |-> "nothing"]
    BY <2>3, <2>6
  <2> QED
    BY <2>4, <2>7
<1>5. q \in MoveRecords /\ MoveIsTold(q) /\ q.at = "running" /\ q.from = runState
  BY <1>1, <1>4 DEF MoveRecords, MoveIsTold, RunTypes, OrAbsent
<1>6. /\ moves' \in [TracedCalls -> MoveRecords]
      /\ \A d \in TracedCalls : MoveIsTold(moves'[d])
      /\ IsFiniteSet(Begun')
      /\ moves'[c] = q /\ \A d \in TracedCalls \ {c} : moves'[d] = moves[d]
  BY <1>1, <1>2, <1>5, MoveChanges
<1>7. RunTypes'
  BY <1>1, <1>3, <1>6 DEF RunTypes
<1>8. RowsAreTold'
  BY <1>1, <1>3, <1>6, RowsStayTold
<1>9. SummaryIsTold' /\ \A r \in ReadRequests : ReadIsTold(reads'[r], traceRows')
  BY <1>1, <1>3 DEF SummaryIsTold
<1>10. AloneIsTold'
  <2> SUFFICES ASSUME alone'
               PROVE  /\ \A d, e \in TracedCalls : Hanging(d)' /\ Hanging(e)' => d = e
                      /\ Chained(traceRows)
                      /\ \A d \in TracedCalls : moves'[d].at # "lost"
                      /\ \A d \in TracedCalls : moves'[d].at = "running" => moves'[d].from = runState
                      /\ \A d \in TracedCalls :
                           Unrecorded(d)' => Ends(traceRows, moves'[d].from) /\ moves'[d].to = runState
                      /\ (\A d \in TracedCalls : ~Unrecorded(d)') => Ends(traceRows, runState)
    BY <1>3 DEF AloneIsTold
  <2>1. alone /\ \A d \in TracedCalls : ~Hanging(d) /\ ~Unrecorded(d)
    BY <1>3 DEF Hanging, Unrecorded
  <2>2. \A d \in TracedCalls : (Hanging(d)' => d = c) /\ ~Unrecorded(d)'
    BY <1>5, <1>6, <2>1 DEF Hanging, Unrecorded
  <2>3. /\ Chained(traceRows) /\ Ends(traceRows, runState)
        /\ \A d \in TracedCalls : moves[d].at # "lost"
        /\ \A d \in TracedCalls : moves[d].at = "running" => moves[d].from = runState
    BY <1>1, <2>1 DEF AloneIsTold
  <2> QED
    BY <1>5, <1>6, <2>2, <2>3
<1> QED
  BY <1>7, <1>8, <1>9, <1>10 DEF ReadsInv

LEMMA ExecutionKeepsReads ==
  ASSUME ReadsInv, NEW c \in TracedCalls, NEW s \in RunStates, Executed(c, s)
  PROVE  ReadsInv'
<1>1. /\ RunTypes /\ RowsAreTold /\ SummaryIsTold /\ AloneIsTold
      /\ \A r \in ReadRequests : ReadIsTold(reads[r], traceRows)
  BY DEF ReadsInv
<1>2. PICK p, q :
        /\ p \in MoveRecords /\ p = moves[c] /\ MoveIsTold(p)
        /\ q = [p EXCEPT !.at = "tracing", !.to = s, !.status = "executed"]
        /\ moves' = [moves EXCEPT ![c] = q]
  <2>1. moves' = [moves EXCEPT ![c] = [moves[c] EXCEPT !.at = "tracing", !.to = s, !.status = "executed"]]
    BY <1>1 DEF Executed, RunTypes
  <2> QED
    BY <1>1, <2>1 DEF RunTypes
<1>3. /\ p.at = "running" /\ runState' = s /\ UNCHANGED <<traceRows, runSummary, reads, alone>>
      /\ p.from \in RunStates
  BY <1>2 DEF Executed, MoveIsTold
<1>4. q \in MoveRecords /\ q.at = "tracing" /\ q.to = s /\ q.status = "executed" /\ q.from = p.from
  <2>0. p \in MoveRecords
    BY <1>2
  <2>1. PICK x1 : x1 = [p EXCEPT !.at = "tracing"]
    OBVIOUS
  <2>2. PICK x2 : x2 = [x1 EXCEPT !.to = s]
    OBVIOUS
  <2>3. q = [x2 EXCEPT !.status = "executed"]
    BY <1>2, <2>1, <2>2
  <2>4. x1 \in MoveRecords /\ x1.at = "tracing" /\ x1.from = p.from
    BY <2>0, <2>1 DEF MoveRecords
  <2>5. x2 \in MoveRecords /\ x2.at = "tracing" /\ x2.from = p.from /\ x2.to = s
    BY <2>2, <2>4 DEF MoveRecords, OrAbsent
  <2> QED
    BY <2>3, <2>5 DEF MoveRecords
<1>5. MoveIsTold(q)
  BY <1>3, <1>4 DEF MoveIsTold
<1>6. /\ moves' \in [TracedCalls -> MoveRecords]
      /\ \A d \in TracedCalls : MoveIsTold(moves'[d])
      /\ IsFiniteSet(Begun')
      /\ moves'[c] = q /\ \A d \in TracedCalls \ {c} : moves'[d] = moves[d]
  BY <1>1, <1>2, <1>4, <1>5, MoveChanges
<1>7. RunTypes'
  BY <1>1, <1>3, <1>6 DEF RunTypes
<1>8. RowsAreTold'
  BY <1>1, <1>2, <1>3, <1>6, RowsStayTold
<1>9. SummaryIsTold' /\ \A r \in ReadRequests : ReadIsTold(reads'[r], traceRows')
  BY <1>1, <1>3 DEF SummaryIsTold
<1>10. AloneIsTold'
  <2> SUFFICES ASSUME alone
               PROVE  /\ \A d, e \in TracedCalls : Hanging(d)' /\ Hanging(e)' => d = e
                      /\ Chained(traceRows)
                      /\ \A d \in TracedCalls : moves'[d].at # "lost"
                      /\ \A d \in TracedCalls : moves'[d].at = "running" => moves'[d].from = s
                      /\ \A d \in TracedCalls :
                           Unrecorded(d)' => Ends(traceRows, moves'[d].from) /\ moves'[d].to = s
                      /\ (\A d \in TracedCalls : ~Unrecorded(d)') => Ends(traceRows, s)
    BY <1>3 DEF AloneIsTold
  <2>1. \A d \in TracedCalls : Hanging(d) => d = c
    BY <1>1, <1>2, <1>3 DEF AloneIsTold, Hanging
  <2>2. \A d \in TracedCalls : ~Unrecorded(d)
    BY <1>2, <1>3, <2>1 DEF Hanging, Unrecorded
  <2>3. /\ Chained(traceRows) /\ Ends(traceRows, runState) /\ p.from = runState
        /\ \A d \in TracedCalls : moves[d].at # "lost"
    BY <1>1, <1>2, <1>3, <2>2 DEF AloneIsTold
  <2>4. \A d \in TracedCalls : Hanging(d)' => d = c
    BY <1>6, <2>1 DEF Hanging
  <2>5. \A d \in TracedCalls : moves'[d].at # "running" /\ moves'[d].at # "lost"
    BY <1>4, <1>6, <2>1, <2>3 DEF Hanging
  <2>6. Unrecorded(c)' /\ \A d \in TracedCalls : Unrecorded(d)' => d = c
    BY <1>4, <1>6, <2>2 DEF Unrecorded
  <2> QED
    BY <1>4, <1>6, <2>3, <2>4, <2>5, <2>6
<1> QED
  BY <1>7, <1>8, <1>9, <1>10 DEF ReadsInv

LEMMA RefusalKeepsReads ==
  ASSUME ReadsInv, NEW c \in TracedCalls, NEW status \in {"guard_failed", "rejected", "threw"},
         NotExecuted(c, status)
  PROVE  ReadsInv'
<1>1. /\ RunTypes /\ RowsAreTold /\ SummaryIsTold /\ AloneIsTold
      /\ \A r \in ReadRequests : ReadIsTold(reads[r], traceRows)
  BY DEF ReadsInv
<1>2. PICK p, from, q :
        /\ p \in MoveRecords /\ p = moves[c] /\ MoveIsTold(p)
        /\ from = IF status = "threw" THEN Absent ELSE p.from
        /\ q = [p EXCEPT !.at = "tracing", !.status = status, !.from = from]
        /\ moves' = [moves EXCEPT ![c] = q]
  <2>1. moves' = [moves EXCEPT ![c] =
          [moves[c] EXCEPT !.at = "tracing", !.status = status,
                           !.from = IF status = "threw" THEN Absent ELSE moves[c].from]]
    BY <1>1 DEF NotExecuted, RunTypes, MoveRecords
  <2> QED
    BY <1>1, <2>1 DEF RunTypes
<1>3. p.at = "running" /\ UNCHANGED <<runState, traceRows, runSummary, reads, alone>>
  BY <1>2 DEF NotExecuted
<1>4. q \in MoveRecords /\ q.at = "tracing" /\ q.to = p.to /\ q.status = status
  <2>0. p \in MoveRecords
    BY <1>2
  <2>1. PICK x1 : x1 = [p EXCEPT !.at = "tracing"]
    OBVIOUS
  <2>2. PICK x2 : x2 = [x1 EXCEPT !.status = status]
    OBVIOUS
  <2>3. q = [x2 EXCEPT !.from = from]
    BY <1>2, <2>1, <2>2
  <2>4. x1 \in MoveRecords /\ x1.at = "tracing" /\ x1.to = p.to /\ x1.from = p.from
    BY <2>0, <2>1 DEF MoveRecords
  <2>5. x2 \in MoveRecords /\ x2.at = "tracing" /\ x2.to = p.to /\ x2.status = status
    BY <2>2, <2>4 DEF MoveRecords
  <2>6. from \in OrAbsent
    BY <1>2 DEF MoveRecords, OrAbsent
  <2> QED
    BY <2>3, <2>5, <2>6 DEF MoveRecords
<1>5. MoveIsTold(q)
  <2>1. p.to = Absent
    BY <1>2, <1>3 DEF MoveIsTold
  <2> QED
    BY <1>4, <2>1 DEF MoveIsTold
<1>6. /\ moves' \in [TracedCalls -> MoveRecords]
      /\ \A d \in TracedCalls : MoveIsTold(moves'[d])
      /\ IsFiniteSet(Begun')
      /\ moves'[c] = q /\ \A d \in TracedCalls \ {c} : moves'[d] = moves[d]
  BY <1>1, <1>2, <1>4, <1>5, MoveChanges
<1>7. RunTypes'
  BY <1>1, <1>3, <1>6 DEF RunTypes
<1>8. RowsAreTold'
  BY <1>1, <1>2, <1>3, <1>6, RowsStayTold
<1>9. SummaryIsTold' /\ \A r \in ReadRequests : ReadIsTold(reads'[r], traceRows')
  BY <1>1, <1>3 DEF SummaryIsTold
<1>10. AloneIsTold'
  <2> SUFFICES ASSUME alone
               PROVE  /\ \A d, e \in TracedCalls : Hanging(d)' /\ Hanging(e)' => d = e
                      /\ Chained(traceRows)
                      /\ \A d \in TracedCalls : moves'[d].at # "lost"
                      /\ \A d \in TracedCalls : moves'[d].at = "running" => moves'[d].from = runState
                      /\ \A d \in TracedCalls :
                           Unrecorded(d)' => Ends(traceRows, moves'[d].from) /\ moves'[d].to = runState
                      /\ (\A d \in TracedCalls : ~Unrecorded(d)') => Ends(traceRows, runState)
    BY <1>3 DEF AloneIsTold
  <2>1. \A d \in TracedCalls : Hanging(d) => d = c
    BY <1>1, <1>2, <1>3 DEF AloneIsTold, Hanging
  <2>2. \A d \in TracedCalls : ~Unrecorded(d)
    BY <1>2, <1>3, <2>1 DEF Hanging, Unrecorded
  <2>3. /\ Chained(traceRows) /\ Ends(traceRows, runState)
        /\ \A d \in TracedCalls : moves[d].at # "lost"
    BY <1>1, <2>2 DEF AloneIsTold
  <2>4. \A d \in TracedCalls : Hanging(d)' => d = c
    BY <1>6, <2>1 DEF Hanging
  <2>5. \A d \in TracedCalls : moves'[d].at # "running" /\ moves'[d].at # "lost"
    BY <1>4, <1>6, <2>1, <2>3 DEF Hanging
  <2>6. \A d \in TracedCalls : ~Unrecorded(d)'
    BY <1>4, <1>6, <2>2 DEF Unrecorded
  <2> QED
    BY <2>3, <2>4, <2>5, <2>6
<1> QED
  BY <1>7, <1>8, <1>9, <1>10 DEF ReadsInv

LEMMA LossKeepsReads ==
  ASSUME ReadsInv, NEW c \in TracedCalls, TraceLost(c)
  PROVE  ReadsInv'
<1>1. /\ RunTypes /\ RowsAreTold /\ SummaryIsTold
      /\ \A r \in ReadRequests : ReadIsTold(reads[r], traceRows)
  BY DEF ReadsInv
<1>2. PICK p, q : /\ p \in MoveRecords /\ p = moves[c] /\ MoveIsTold(p) /\ q = [p EXCEPT !.at = "lost"]
                                  /\ moves' = [moves EXCEPT ![c] = q]
  BY <1>1 DEF TraceLost, RunTypes
<1>3. p.at = "tracing" /\ alone' = FALSE /\ UNCHANGED <<runState, traceRows, runSummary, reads>>
  BY <1>2 DEF TraceLost
<1>4. q \in MoveRecords /\ q.at = "lost" /\ q.from = p.from /\ q.to = p.to /\ q.status = p.status
  BY <1>2 DEF MoveRecords
<1>5. MoveIsTold(q)
  BY <1>2, <1>4 DEF MoveIsTold
<1>6. /\ moves' \in [TracedCalls -> MoveRecords]
      /\ \A d \in TracedCalls : MoveIsTold(moves'[d])
      /\ IsFiniteSet(Begun')
      /\ moves'[c] = q /\ \A d \in TracedCalls \ {c} : moves'[d] = moves[d]
  BY <1>1, <1>2, <1>4, <1>5, MoveChanges
<1>7. RunTypes'
  BY <1>1, <1>3, <1>6 DEF RunTypes
<1>8. RowsAreTold'
  BY <1>1, <1>2, <1>3, <1>6, RowsStayTold
<1>9. SummaryIsTold' /\ \A r \in ReadRequests : ReadIsTold(reads'[r], traceRows')
  BY <1>1, <1>3 DEF SummaryIsTold
<1> QED
  BY <1>3, <1>7, <1>8, <1>9 DEF ReadsInv, AloneIsTold

(* A read keeps telling of a beginning of the rows as they grow.           *)
LEMMA ReadStaysTold ==
  ASSUME NEW rs \in Seq(Rows), NEW row \in Rows, NEW q \in ReadRecords, ReadIsTold(q, rs)
  PROVE  ReadIsTold(q, Append(rs, row))
<1>1. PICK n, more : n = Len(rs) /\ more = Append(rs, row)
  OBVIOUS
<1>2. /\ Len(more) = n + 1 /\ n \in Nat
      /\ \A i \in 1..n : more[i] = rs[i]
      /\ \A k \in 0..n : BlockedUpTo(more, k) = BlockedUpTo(rs, k)
  BY <1>1, OneMoreCounted
<1>3. q.since \in Nat /\ Len(q.rows) \in Nat
  BY DEF ReadRecords
<1>4. q.at = "trace" \/ q.status = 200 =>
        q.summary.stepCount \in 0..n /\ q.summary.stepCount <= Len(more)
  BY <1>1, <1>2 DEF ReadIsTold, Summaries
<1>5. q.status = 200 => /\ Len(q.rows) <= Len(more)
                        /\ \A i \in 1..Len(q.rows) : q.rows[i] = more[i]
  BY <1>1, <1>2, <1>3 DEF ReadIsTold
<1>6. q.since <= Len(more)
  BY <1>1, <1>2, <1>3 DEF ReadIsTold
<1>7. q.at = "trace" \/ q.status = 200 =>
        /\ q.summary \in Summaries
        /\ q.since <= q.summary.stepCount
        /\ q.summary.blockedCount = BlockedUpTo(more, q.summary.stepCount)
  BY <1>2, <1>4 DEF ReadIsTold
<1>8. /\ q.status = 404 => q.since = 0
      /\ q.at # "answered" => q.status = 0
      /\ q.status = 200 => q.summary.stepCount <= Len(q.rows)
  BY DEF ReadIsTold
<1>9. ReadIsTold(q, more)
  BY <1>4, <1>5, <1>6, <1>7, <1>8 DEF ReadIsTold
<1> QED
  BY <1>1, <1>9

LEMMA WritingKeepsReads ==
  ASSUME ReadsInv, NEW c \in TracedCalls, TraceWritten(c)
  PROVE  ReadsInv'
<1>1. /\ RunTypes /\ RowsAreTold /\ SummaryIsTold /\ AloneIsTold
      /\ \A r \in ReadRequests : ReadIsTold(reads[r], traceRows)
  BY DEF ReadsInv
<1>2. PICK p, q : /\ p \in MoveRecords /\ p = moves[c] /\ MoveIsTold(p) /\ q = [p EXCEPT !.at = "traced"]
                                  /\ moves' = [moves EXCEPT ![c] = q]
  BY <1>1 DEF TraceWritten, RunTypes
<1>3. p.at = "tracing" /\ UNCHANGED <<runState, reads, alone>>
  BY <1>2 DEF TraceWritten
<1>4. /\ q \in MoveRecords /\ q.at = "traced" /\ q.from = p.from /\ q.to = p.to /\ q.status = p.status
      /\ q.actor = p.actor /\ q.input = p.input
  BY <1>2 DEF MoveRecords
<1>5. MoveIsTold(q)
  BY <1>2, <1>3, <1>4 DEF MoveIsTold
<1>6. /\ moves' \in [TracedCalls -> MoveRecords]
      /\ \A d \in TracedCalls : MoveIsTold(moves'[d])
      /\ IsFiniteSet(Begun')
      /\ moves'[c] = q /\ \A d \in TracedCalls \ {c} : moves'[d] = moves[d]
  BY <1>1, <1>2, <1>4, <1>5, MoveChanges
<1>7. PICK row, n, more :
        /\ row = RecordOf(c) /\ n = Len(traceRows) /\ more = Append(traceRows, row)
        /\ traceRows' = more /\ runSummary' = Counted(runSummary, row)
  BY DEF TraceWritten
<1>8. /\ row \in Rows /\ row.call = c
      /\ row.from = p.from /\ row.to = p.to
      /\ row.blocked = (p.status # "executed")
      /\ ~row.blocked => row.from \in RunStates /\ row.to \in RunStates
  BY <1>2, <1>3, <1>7, RecordIsRow
<1>9. traceRows \in Seq(Rows)
  BY <1>1 DEF RunTypes
<1>10. /\ more \in Seq(Rows) /\ Len(more) = n + 1 /\ n \in Nat
       /\ DOMAIN more = 1..(n + 1) /\ DOMAIN traceRows = 1..n
       /\ more[n + 1] = row
       /\ \A i \in 1..n : more[i] = traceRows[i]
       /\ BlockedUpTo(traceRows, n) \in Nat
       /\ BlockedUpTo(more, n + 1) = BlockedUpTo(traceRows, n) + (IF row.blocked THEN 1 ELSE 0)
  BY <1>7, <1>8, <1>9, OneMoreCounted
<1>11. \A i \in 1..(n + 1) : i \in 1..n \/ i = n + 1
  BY <1>10
<1>12. RunTypes'
  BY <1>1, <1>3, <1>6, <1>7, <1>10 DEF RunTypes
<1>13. RowsAreTold'
  <2>1. \A i \in 1..n : traceRows[i].call \in TracedCalls
    <3>1. \A i \in 1..n : traceRows[i] \in Rows
      BY <1>9, <1>10
    <3> QED
      BY <3>1 DEF Rows
  <2>2. \A i \in 1..n : moves[traceRows[i].call].at = "traced" /\ traceRows[i].call # c
    BY <1>1, <1>2, <1>3, <1>10 DEF RowsAreTold
  <2>3. \A i \in 1..n : moves'[traceRows[i].call] = moves[traceRows[i].call]
    BY <1>6, <2>1, <2>2
  <2>4. ASSUME NEW i \in 1..n
        PROVE  moves'[more[i].call].at = "traced" /\ more[i] = RecordOf(more[i].call)'
    <3>1. PICK d \in TracedCalls : d = more[i].call /\ d = traceRows[i].call
      BY <1>10, <2>1
    <3>2. moves'[d] = moves[d] /\ moves[d].at = "traced"
      BY <2>2, <2>3, <3>1
    <3>3. RecordOf(d)' = RecordOf(d)
      BY <3>2 DEF RecordOf
    <3>4. traceRows[i] = RecordOf(d)
      BY <1>1, <1>10, <3>1 DEF RowsAreTold
    <3>5. more[i] = RecordOf(d)'
      BY <1>10, <3>3, <3>4
    <3> QED
      BY <3>1, <3>2, <3>5
  <2>5. RecordOf(c)' = row
    <3>1. RecordOf(c)' = RecordOf(c)
      BY <1>2, <1>4, <1>6 DEF RecordOf, Type
    <3> QED
      BY <1>7, <3>1
  <2>6. \A i \in 1..(n + 1) : moves'[more[i].call].at = "traced" /\ more[i] = RecordOf(more[i].call)'
    <3>1. moves'[more[n + 1].call].at = "traced" /\ more[n + 1] = RecordOf(more[n + 1].call)'
      BY <1>4, <1>6, <1>8, <1>10, <2>5
    <3> QED
      BY <1>11, <2>4, <3>1
  <2>7. ASSUME NEW i \in 1..(n + 1), NEW j \in 1..(n + 1), more[i].call = more[j].call
        PROVE  i = j
    <3>1. CASE i \in 1..n /\ j \in 1..n
      BY <1>1, <1>10, <2>7, <3>1 DEF RowsAreTold
    <3>2. CASE i = n + 1 /\ j = n + 1
      BY <3>2
    <3>3. CASE i \in 1..n /\ j = n + 1
      BY <1>8, <1>10, <2>2, <2>7, <3>3
    <3>4. CASE i = n + 1 /\ j \in 1..n
      BY <1>8, <1>10, <2>2, <2>7, <3>4
    <3> QED
      BY <1>11, <3>1, <3>2, <3>3, <3>4
  <2> QED
    BY <1>7, <1>10, <2>6, <2>7 DEF RowsAreTold
<1>14. SummaryIsTold'
  <2>1. more # <<>> /\ Len(more) = n + 1
    BY <1>10
  <2>2. PICK s, blocked : /\ s = Counted(runSummary, row) /\ blocked = (IF row.blocked THEN 1 ELSE 0)
                          /\ blocked \in Nat
    OBVIOUS
  <2>3. s = IF runSummary = Absent THEN [stepCount |-> 1, blockedCount |-> blocked]
            ELSE [stepCount |-> runSummary.stepCount + 1,
                  blockedCount |-> runSummary.blockedCount + blocked]
    BY <2>2 DEF Counted
  <2>4. s \in Summaries /\ s.stepCount = n + 1 /\ s.blockedCount = BlockedUpTo(traceRows, n) + blocked
    <3>1. CASE traceRows = <<>>
      <4>1. runSummary = Absent /\ n = 0
        BY <1>1, <1>7, <3>1 DEF SummaryIsTold
      <4>2. BlockedUpTo(traceRows, 0) = 0
        <5>1. {i \in 1..0 : traceRows[i].blocked} = {}
          OBVIOUS
        <5> QED
          BY <5>1, FS_EmptySet DEF BlockedUpTo
      <4>3. s = [stepCount |-> 1, blockedCount |-> blocked]
        BY <2>3, <4>1
      <4> QED
        BY <2>2, <4>1, <4>2, <4>3 DEF Summaries
    <3>2. CASE traceRows # <<>>
      <4>1. /\ runSummary \in Summaries /\ runSummary.stepCount = n
            /\ runSummary.blockedCount = BlockedUpTo(traceRows, n)
        BY <1>1, <1>7, <3>2 DEF SummaryIsTold
      <4>2. runSummary # Absent
        BY <4>1, ReadsAssumption DEF Summaries
      <4>3. s = [stepCount |-> n + 1, blockedCount |-> BlockedUpTo(traceRows, n) + blocked]
        BY <2>3, <4>1, <4>2
      <4> QED
        BY <1>10, <2>2, <4>3 DEF Summaries
    <3> QED
      BY <3>1, <3>2
  <2>5. s.blockedCount = BlockedUpTo(more, n + 1)
    BY <1>10, <2>2, <2>4
  <2> QED
    BY <1>7, <2>1, <2>2, <2>4, <2>5 DEF SummaryIsTold
<1>15. \A r \in ReadRequests : ReadIsTold(reads'[r], traceRows')
  <2>1. \A r \in ReadRequests : reads[r] \in ReadRecords /\ reads'[r] = reads[r]
    BY <1>1, <1>3 DEF RunTypes
  <2>2. \A r \in ReadRequests : ReadIsTold(reads[r], more)
    BY <1>1, <1>7, <1>8, <1>9, <2>1, ReadStaysTold
  <2> QED
    BY <1>7, <2>1, <2>2
<1>16. AloneIsTold'
  <2> SUFFICES ASSUME alone
               PROVE  /\ \A d, e \in TracedCalls : Hanging(d)' /\ Hanging(e)' => d = e
                      /\ Chained(more)
                      /\ \A d \in TracedCalls : moves'[d].at # "lost"
                      /\ \A d \in TracedCalls : moves'[d].at = "running" => moves'[d].from = runState
                      /\ \A d \in TracedCalls :
                           Unrecorded(d)' => Ends(more, moves'[d].from) /\ moves'[d].to = runState
                      /\ (\A d \in TracedCalls : ~Unrecorded(d)') => Ends(more, runState)
    BY <1>3, <1>7 DEF AloneIsTold
  <2>1. \A d \in TracedCalls : Hanging(d) => d = c
    BY <1>1, <1>2, <1>3 DEF AloneIsTold, Hanging
  <2>2. \A d \in TracedCalls : moves[d].at # "lost"
    BY <1>1 DEF AloneIsTold
  <2>3. \A d \in TracedCalls : ~Hanging(d)' /\ moves'[d].at # "lost"
    BY <1>4, <1>6, <2>1, <2>2 DEF Hanging
  <2>4. \A d \in TracedCalls : moves'[d].at # "running" /\ ~Unrecorded(d)'
    BY <2>3 DEF Hanging, Unrecorded
  <2>5. Chained(traceRows)
    BY <1>1 DEF AloneIsTold
  <2>6. CASE row.blocked
    <3>1. ExecutedRows(more) = ExecutedRows(traceRows) /\ ExecutedRows(traceRows) \subseteq 1..n
      BY <1>10, <1>11, <2>6 DEF ExecutedRows
    <3>2. Chained(more)
      <4>1. \A i, j \in ExecutedRows(more) : Follows(more, i, j) => Follows(traceRows, i, j)
        BY <3>1 DEF Follows
      <4> QED
        BY <1>10, <2>5, <3>1, <4>1 DEF Chained
    <3>3. Ends(traceRows, runState)
      <4>1. \A d \in TracedCalls : ~Unrecorded(d)
        BY <1>2, <1>8, <2>1, <2>6 DEF Hanging, Unrecorded
      <4> QED
        BY <1>1, <4>1 DEF AloneIsTold
    <3>4. Ends(more, runState)
      BY <1>10, <3>1, <3>3 DEF Ends
    <3> QED
      BY <2>3, <2>4, <3>2, <3>4
  <2>7. CASE ~row.blocked
    <3>1. /\ ExecutedRows(more) = ExecutedRows(traceRows) \cup {n + 1}
          /\ ExecutedRows(traceRows) \subseteq 1..n
      BY <1>10, <1>11, <2>7 DEF ExecutedRows
    <3>2. Unrecorded(c)
      BY <1>2, <1>3, <1>8, <2>7 DEF Unrecorded
    <3>3. Ends(traceRows, p.from) /\ p.to = runState
      BY <1>1, <1>2, <3>2 DEF AloneIsTold
    <3>4. Chained(more)
      <4> SUFFICES ASSUME NEW i \in ExecutedRows(more), NEW j \in ExecutedRows(more), Follows(more, i, j)
                   PROVE  more[j].from = more[i].to
        BY DEF Chained
      <4>1. i < j /\ \A k \in ExecutedRows(more) : ~(i < k /\ k < j)
        BY DEF Follows
      <4>2. i \in ExecutedRows(traceRows) /\ i \in 1..n
        <5>1. \A k \in 1..n : k < n + 1
          BY <1>10
        <5>2. i # n + 1
          BY <1>10, <3>1, <4>1
        <5> QED
          BY <3>1, <5>2
      <4>3. CASE j \in ExecutedRows(traceRows)
        <5>1. Follows(traceRows, i, j)
          BY <3>1, <4>1 DEF Follows
        <5>2. traceRows[j].from = traceRows[i].to
          BY <2>5, <4>2, <4>3, <5>1 DEF Chained
        <5> QED
          BY <1>10, <3>1, <4>2, <4>3, <5>2
      <4>4. CASE j = n + 1
        <5>1. \A k \in ExecutedRows(traceRows) : k <= i
          <6> SUFFICES ASSUME NEW k \in ExecutedRows(traceRows) PROVE k <= i
            OBVIOUS
          <6>1. k \in 1..n /\ k \in ExecutedRows(more) /\ k < n + 1
            BY <1>10, <3>1
          <6>2. ~(i < k)
            BY <4>1, <4>4, <6>1
          <6> QED
            BY <4>2, <6>1, <6>2
        <5>2. traceRows[i].to = p.from
          BY <3>3, <4>2, <5>1 DEF Ends
        <5> QED
          BY <1>8, <1>10, <4>2, <4>4, <5>2
      <4> QED
        BY <3>1, <4>3, <4>4
    <3>5. Ends(more, runState)
      <4> SUFFICES ASSUME NEW i \in ExecutedRows(more), \A j \in ExecutedRows(more) : j <= i
                   PROVE  more[i].to = runState
        BY DEF Ends
      <4>1. n + 1 <= i
        BY <3>1
      <4>2. i = n + 1
        BY <1>10, <3>1, <4>1
      <4> QED
        BY <1>8, <1>10, <3>3, <4>2
    <3> QED
      BY <2>3, <2>4, <3>4, <3>5
  <2>8. row.blocked \in BOOLEAN
    BY <1>8
  <2> QED
    BY <2>6, <2>7, <2>8
<1> QED
  BY <1>12, <1>13, <1>14, <1>15, <1>16 DEF ReadsInv

(* The locals of a read change one field at a time.                        *)
LEMMA ReadStageChanges ==
  ASSUME NEW p \in ReadRecords, NEW v \in {"none", "summary", "trace", "answered"},
         NEW q, q = [p EXCEPT !.at = v]
  PROVE  /\ q \in ReadRecords /\ q.at = v
         /\ q.since = p.since /\ q.summary = p.summary /\ q.rows = p.rows /\ q.status = p.status
  BY DEF ReadRecords

LEMMA SinceChanges ==
  ASSUME NEW p \in ReadRecords, NEW v \in Nat, NEW q, q = [p EXCEPT !.since = v]
  PROVE  /\ q \in ReadRecords /\ q.since = v
         /\ q.at = p.at /\ q.summary = p.summary /\ q.rows = p.rows /\ q.status = p.status
  BY DEF ReadRecords

LEMMA SummaryChanges ==
  ASSUME NEW p \in ReadRecords, NEW v \in {Absent} \cup Summaries, NEW q, q = [p EXCEPT !.summary = v]
  PROVE  /\ q \in ReadRecords /\ q.summary = v
         /\ q.at = p.at /\ q.since = p.since /\ q.rows = p.rows /\ q.status = p.status
  BY DEF ReadRecords

LEMMA RowsChange ==
  ASSUME NEW p \in ReadRecords, NEW v \in Seq(Rows), NEW q, q = [p EXCEPT !.rows = v]
  PROVE  /\ q \in ReadRecords /\ q.rows = v
         /\ q.at = p.at /\ q.since = p.since /\ q.summary = p.summary /\ q.status = p.status
  BY DEF ReadRecords

LEMMA ReadStatusChanges ==
  ASSUME NEW p \in ReadRecords, NEW v \in {0, 200, 404}, NEW q, q = [p EXCEPT !.status = v]
  PROVE  /\ q \in ReadRecords /\ q.status = v
         /\ q.at = p.at /\ q.since = p.since /\ q.summary = p.summary /\ q.rows = p.rows
  BY DEF ReadRecords

(* The statements of a read.                                               *)
LEMMA ReadingKeepsReads ==
  ASSUME ReadsInv, NEW r \in ReadRequests, ReadBegins(r) \/ ReadSummary(r) \/ ReadTrace(r)
  PROVE  ReadsInv'
<1>1. /\ RunTypes /\ RowsAreTold /\ SummaryIsTold /\ AloneIsTold
      /\ \A s \in ReadRequests : ReadIsTold(reads[s], traceRows)
  BY DEF ReadsInv
<1>2. PICK p \in ReadRecords, n \in Nat :
        /\ p = reads[r] /\ ReadIsTold(p, traceRows) /\ n = Len(traceRows) /\ DOMAIN traceRows = 1..n
        /\ traceRows \in Seq(Rows)
  BY <1>1 DEF RunTypes
<1>3. UNCHANGED <<runState, moves, traceRows, runSummary, alone>>
  BY DEF ReadBegins, ReadSummary, ReadTrace
<1>4. \E q \in ReadRecords : ReadIsTold(q, traceRows) /\ reads' = [reads EXCEPT ![r] = q]
  <2>1. CASE ReadBegins(r)
    <3>1. PICK a, q : a = [p EXCEPT !.at = "summary"] /\ q = [a EXCEPT !.since = n]
                      /\ reads' = [reads EXCEPT ![r] = q]
      <4>1. reads' = [reads EXCEPT ![r] = [reads[r] EXCEPT !.at = "summary", !.since = n]]
        BY <1>1, <1>2, <2>1 DEF ReadBegins, RunTypes
      <4>2. PICK a : a = [p EXCEPT !.at = "summary"]
        OBVIOUS
      <4>3. PICK q : q = [a EXCEPT !.since = n]
        OBVIOUS
      <4>4. q = [p EXCEPT !.at = "summary", !.since = n]
        BY <4>2, <4>3 DEF ReadRecords
      <4> QED
        BY <1>2, <4>1, <4>2, <4>3, <4>4
    <3>2. p.status = 0
      BY <1>2, <2>1 DEF ReadBegins, ReadIsTold
    <3>3. a \in ReadRecords /\ a.at = "summary" /\ a.status = p.status
      BY <3>1, ReadStageChanges
    <3>4. q \in ReadRecords /\ q.at = "summary" /\ q.status = 0 /\ q.since = n
      <4>1. a \in ReadRecords /\ q = [a EXCEPT !.since = n]
        BY <3>1, <3>3
      <4>2. n \in Nat
        BY <1>2
      <4>3. /\ q \in ReadRecords /\ q.since = n
            /\ q.at = a.at /\ q.summary = a.summary /\ q.rows = a.rows /\ q.status = a.status
        BY <4>1, <4>2, SinceChanges
      <4> QED
        BY <3>2, <3>3, <4>3
    <3>5. ReadIsTold(q, traceRows)
      BY <1>2, <3>4 DEF ReadIsTold
    <3> QED
      BY <3>1, <3>4, <3>5
  <2>2. CASE ReadSummary(r) /\ runSummary = Absent
    <3>1. PICK a, q : a = [p EXCEPT !.at = "answered"] /\ q = [a EXCEPT !.status = 404]
                      /\ reads' = [reads EXCEPT ![r] = q]
      <4>1. reads' = [reads EXCEPT ![r] = [reads[r] EXCEPT !.at = "answered", !.status = 404]]
        BY <1>1, <2>2 DEF ReadSummary, RunTypes
      <4>2. PICK a : a = [p EXCEPT !.at = "answered"]
        OBVIOUS
      <4>3. PICK q : q = [a EXCEPT !.status = 404]
        OBVIOUS
      <4>4. q = [p EXCEPT !.at = "answered", !.status = 404]
        BY <4>2, <4>3 DEF ReadRecords
      <4> QED
        BY <1>2, <4>1, <4>2, <4>3, <4>4
    <3>2. traceRows = <<>>
      BY <1>1, <2>2, ReadsAssumption DEF SummaryIsTold, Summaries
    <3>3. a \in ReadRecords /\ a.at = "answered" /\ a.since = p.since
      BY <3>1, ReadStageChanges
    <3>4. q \in ReadRecords /\ q.at = "answered" /\ q.status = 404 /\ q.since = p.since
      <4>1. a \in ReadRecords /\ q = [a EXCEPT !.status = 404]
        BY <3>1, <3>3
      <4>2. 404 \in {0, 200, 404}
        OBVIOUS
      <4>3. /\ q \in ReadRecords /\ q.status = 404
            /\ q.at = a.at /\ q.since = a.since /\ q.summary = a.summary /\ q.rows = a.rows
        BY <4>1, <4>2, ReadStatusChanges
      <4> QED
        BY <3>3, <4>3
    <3>5. p.since = 0
      <4>1. p.since <= Len(traceRows) /\ p.since \in Nat /\ Len(traceRows) = 0
        BY <1>2, <3>2 DEF ReadIsTold, ReadRecords
      <4> QED
        BY <4>1
    <3>6. ReadIsTold(q, traceRows)
      BY <1>2, <3>4, <3>5 DEF ReadIsTold
    <3> QED
      BY <3>1, <3>4, <3>6
  <2>3. CASE ReadSummary(r) /\ runSummary # Absent
    <3>1. PICK a, q : a = [p EXCEPT !.at = "trace"] /\ q = [a EXCEPT !.summary = runSummary]
                      /\ reads' = [reads EXCEPT ![r] = q]
      <4>1. reads' = [reads EXCEPT ![r] = [reads[r] EXCEPT !.at = "trace", !.summary = runSummary]]
        BY <1>1, <2>3 DEF ReadSummary, RunTypes
      <4>2. PICK a : a = [p EXCEPT !.at = "trace"]
        OBVIOUS
      <4>3. PICK q : q = [a EXCEPT !.summary = runSummary]
        OBVIOUS
      <4>4. q = [p EXCEPT !.at = "trace", !.summary = runSummary]
        BY <4>2, <4>3 DEF ReadRecords
      <4> QED
        BY <1>2, <4>1, <4>2, <4>3, <4>4
    <3>2. /\ runSummary \in Summaries /\ runSummary.stepCount = n
          /\ runSummary.blockedCount = BlockedUpTo(traceRows, n)
      BY <1>1, <1>2, <2>3 DEF SummaryIsTold
    <3>3. p.status = 0 /\ p.since <= n
      BY <1>2, <2>3 DEF ReadSummary, ReadIsTold
    <3>4. a \in ReadRecords /\ a.at = "trace" /\ a.since = p.since /\ a.status = 0
      BY <3>1, <3>3, ReadStageChanges
    <3>5. /\ q \in ReadRecords /\ q.at = "trace" /\ q.status = 0 /\ q.since = p.since
          /\ q.summary = runSummary
      <4>1. a \in ReadRecords /\ q = [a EXCEPT !.summary = runSummary]
        BY <3>1, <3>4
      <4>2. runSummary \in {Absent} \cup Summaries
        BY <3>2
      <4>3. /\ q \in ReadRecords /\ q.summary = runSummary
            /\ q.at = a.at /\ q.since = a.since /\ q.rows = a.rows /\ q.status = a.status
        BY <4>1, <4>2, SummaryChanges
      <4> QED
        BY <3>4, <4>3
    <3>6. ReadIsTold(q, traceRows)
      BY <1>2, <3>2, <3>3, <3>5 DEF ReadIsTold
    <3> QED
      BY <3>1, <3>5, <3>6
  <2>4. CASE ReadTrace(r)
    <3>1. PICK a, b, q : /\ a = [p EXCEPT !.at = "answered"] /\ b = [a EXCEPT !.rows = traceRows]
                         /\ q = [b EXCEPT !.status = 200] /\ reads' = [reads EXCEPT ![r] = q]
      <4>1. reads' = [reads EXCEPT ![r] =
              [reads[r] EXCEPT !.at = "answered", !.rows = traceRows, !.status = 200]]
        BY <1>1, <2>4 DEF ReadTrace, RunTypes
      <4>2. PICK a : a = [p EXCEPT !.at = "answered"]
        OBVIOUS
      <4>3. PICK b : b = [a EXCEPT !.rows = traceRows]
        OBVIOUS
      <4>4. PICK q : q = [b EXCEPT !.status = 200]
        OBVIOUS
      <4>5. q = [p EXCEPT !.at = "answered", !.rows = traceRows, !.status = 200]
        BY <4>2, <4>3, <4>4 DEF ReadRecords
      <4> QED
        BY <1>2, <4>1, <4>2, <4>3, <4>4, <4>5
    <3>2. /\ p.summary \in Summaries /\ p.since <= p.summary.stepCount /\ p.summary.stepCount <= n
          /\ p.summary.blockedCount = BlockedUpTo(traceRows, p.summary.stepCount) /\ p.since <= n
      BY <1>2, <2>4 DEF ReadTrace, ReadIsTold
    <3>3. a \in ReadRecords /\ a.at = "answered" /\ a.since = p.since /\ a.summary = p.summary
      BY <3>1, ReadStageChanges
    <3>4. /\ b \in ReadRecords /\ b.at = "answered" /\ b.since = p.since /\ b.summary = p.summary
          /\ b.rows = traceRows
      <4>1. a \in ReadRecords /\ b = [a EXCEPT !.rows = traceRows]
        BY <3>1, <3>3
      <4>2. traceRows \in Seq(Rows)
        BY <1>2
      <4>3. /\ b \in ReadRecords /\ b.rows = traceRows
            /\ b.at = a.at /\ b.since = a.since /\ b.summary = a.summary /\ b.status = a.status
        BY <4>1, <4>2, RowsChange
      <4> QED
        BY <3>3, <4>3
    <3>5. /\ q \in ReadRecords /\ q.at = "answered" /\ q.since = p.since /\ q.summary = p.summary
          /\ q.rows = traceRows /\ q.status = 200
      <4>1. b \in ReadRecords /\ q = [b EXCEPT !.status = 200]
        BY <3>1, <3>4
      <4>2. 200 \in {0, 200, 404}
        OBVIOUS
      <4>3. /\ q \in ReadRecords /\ q.status = 200
            /\ q.at = b.at /\ q.since = b.since /\ q.summary = b.summary /\ q.rows = b.rows
        BY <4>1, <4>2, ReadStatusChanges
      <4> QED
        BY <3>4, <4>3
    <3>6. ReadIsTold(q, traceRows)
      BY <1>2, <3>2, <3>5 DEF ReadIsTold
    <3> QED
      BY <3>1, <3>5, <3>6
  <2> QED
    BY <2>1, <2>2, <2>3, <2>4
<1>5. PICK q \in ReadRecords : ReadIsTold(q, traceRows) /\ reads' = [reads EXCEPT ![r] = q]
  BY <1>4
<1>6. reads' \in [ReadRequests -> ReadRecords] /\ \A s \in ReadRequests : ReadIsTold(reads'[s], traceRows)
  BY <1>1, <1>5 DEF RunTypes
<1>7. RunTypes'
  BY <1>1, <1>3, <1>6 DEF RunTypes, Begun
<1>8. RowsAreTold' /\ SummaryIsTold' /\ AloneIsTold'
  BY <1>1, <1>3 DEF RowsAreTold, RecordOf, SummaryIsTold, AloneIsTold, Hanging, Unrecorded
<1> QED
  BY <1>3, <1>6, <1>7, <1>8 DEF ReadsInv

(* Whatever transitions are traced or lost between the two statements of a *)
(* read, what it answers of a run is true of it: the counts are those of a *)
(* beginning of its rows, and the stays of an undisturbed run lead through *)
(* its states without a gap (build-run-responses.ts, trace-timeline.ts).   *)
THEOREM AnswersToReadsAreTrue == ReadsSpec => []ReadsAreFaithful
<1>1. ReadsInit => ReadsInv
  <2> SUFFICES ASSUME ReadsInit PROVE ReadsInv
    OBVIOUS
  <2>1. /\ runState = FirstState /\ moves = [c \in TracedCalls |-> NoMove] /\ traceRows = <<>>
        /\ runSummary = Absent /\ reads = [r \in ReadRequests |-> NoRead] /\ alone = TRUE
    BY DEF ReadsInit
  <2>2. NoMove \in MoveRecords /\ MoveIsTold(NoMove) /\ NoMove.at = "none" /\ NoMove.status = "none"
    BY DEF NoMove, MoveRecords, MoveIsTold, OrAbsent
  <2>3. NoRead \in ReadRecords /\ NoRead.at = "none" /\ NoRead.status = 0 /\ NoRead.since = 0
    BY DEF NoRead, ReadRecords
  <2>4. <<>> \in Seq(Rows) /\ Len(<<>>) = 0 /\ DOMAIN <<>> = {}
    OBVIOUS
  <2>5. Begun = {}
    BY <2>1, <2>2 DEF Begun
  <2>6. RunTypes
    BY <2>1, <2>2, <2>3, <2>4, <2>5, FS_EmptySet, ReadsAssumption DEF RunTypes
  <2>7. RowsAreTold /\ SummaryIsTold
    BY <2>1, <2>4 DEF RowsAreTold, SummaryIsTold
  <2>8. \A r \in ReadRequests : ReadIsTold(reads[r], traceRows)
    BY <2>1, <2>3, <2>4 DEF ReadIsTold
  <2>9. ExecutedRows(<<>>) = {}
    BY <2>4 DEF ExecutedRows
  <2>10. AloneIsTold
    BY <2>1, <2>2, <2>9 DEF AloneIsTold, Hanging, Unrecorded, Chained, Ends
  <2> QED
    BY <2>6, <2>7, <2>8, <2>10 DEF ReadsInv
<1>2. ReadsInv /\ [ReadsNext]_readVars => ReadsInv'
  <2>1. ReadsInv /\ UNCHANGED readVars => ReadsInv'
    BY DEF ReadsInv, RunTypes, Begun, RowsAreTold, RecordOf, SummaryIsTold, AloneIsTold, Hanging, Unrecorded,
           readVars
  <2>2. ASSUME ReadsInv, NEW c \in TracedCalls,
               \/ \E actor \in MoveActors, input \in Inputs : MoveBegins(c, actor, input)
               \/ \E s \in RunStates : Executed(c, s)
               \/ \E status \in {"guard_failed", "rejected", "threw"} : NotExecuted(c, status)
               \/ TraceWritten(c)
               \/ TraceLost(c)
        PROVE  ReadsInv'
    BY <2>2, BeginningKeepsReads, ExecutionKeepsReads, RefusalKeepsReads, WritingKeepsReads,
       LossKeepsReads
  <2>3. ASSUME ReadsInv, NEW r \in ReadRequests, ReadBegins(r) \/ ReadSummary(r) \/ ReadTrace(r)
        PROVE  ReadsInv'
    BY <2>3, ReadingKeepsReads
  <2> QED
    BY <2>1, <2>2, <2>3 DEF ReadsNext
<1>3. ReadsInv => ReadsAreFaithful
  BY ToldReadsAgree, ToldReadsFollow DEF ReadsAreFaithful
<1> QED
  BY <1>1, <1>2, <1>3, PTL DEF ReadsSpec

=============================================================================
