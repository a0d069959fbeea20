---------------------------- MODULE DefinitionProofs ----------------------------
(***************************************************************************)
(* Proofs about the parts that DefinitionServices runs side by side:       *)
(* RegistryClient, LocalRegistry, DefinitionBuilder and                    *)
(* DefinitionResolver, each with an inductive invariant of its own, for    *)
(* any catalogs, directories, rows, drafts, calls, times and bounds.       *)
(*                                                                         *)
(* Where a fact needs induction on a number (the breadth-first search of   *)
(* the validator), it goes by a least counterexample: LeastNumber below is *)
(* about sets, which the provers can instantiate, and not about an         *)
(* operator, which they cannot.                                            *)
(***************************************************************************)
EXTENDS RegistryClient, LocalRegistry, DefinitionBuilder, DefinitionResolver, FiniteSetTheorems,
        SequenceTheorems, WellFoundedInduction, TLAPS

-----------------------------------------------------------------------------
(* RegistryClient.                                                         *)

AskFields ==
  {"stage", "op", "id", "began", "attempt", "want", "version", "data", "reply", "result"}

(* The server held version v of i (0: none) at time b or later; and at     *)
(* that time or less than a time to live before it.                        *)
Seen(i, v, b) == \E t \in 0..now : t >= b /\ <<i, v>> \in held[t]

Recent(i, v, b) == \E t \in 0..now : (t >= b \/ t > b - Ttl) /\ <<i, v>> \in held[t]

UnderWay == {"sent", "replied"}

OneVersion == {"loop", "summary", "page", "artifact"}

(* What a request under way asks for, of which kind of server.             *)
AskedRightly(q) ==
  /\ q.id \in LoopNames
  /\ q.want \in {"loop", "list", "post", "delete"} => kind = "flat"
  /\ q.want \in {"summary", "page", "artifact"} => kind = "v0"
  /\ q.want \in OneVersion \cup {"list", "post", "delete"}
  /\ q.want = "post" => q.version \in Nat
  /\ q.want = "summary" => q.op = "get"

(* Version v of i is on the server, unless i was withdrawn since b.        *)
Still(i, v, b) == v <= catalog[i] \/ Seen(i, 0, b)

(* The version of an artifact was recommended during the call, and is      *)
(* still there unless the loop was withdrawn during the call.              *)
ArtifactWasThere(q) ==
  q.want = "artifact" =>
    q.version \in Nat /\ Seen(q.id, q.version, q.began) /\ Still(q.id, q.version, q.began)

(* The pages that a v0 list has read.                                      *)
PagesWereThere(q) ==
  q.op = "list" /\ q.want \in {"page", "artifact"} =>
    /\ DOMAIN q.data = LoopNames
    /\ \A j \in LoopNames : j < q.id => Seen(j, q.data[j], q.began)

ReplyWasTrue(q) ==
  /\ q.want \in OneVersion => q.reply.version \in Nat /\ Seen(q.id, q.reply.version, q.began)
  /\ q.want \in {"summary", "page"} => Still(q.id, q.reply.version, q.began)
  /\ q.want \in {"post", "delete"} => q.reply.status \in {201, 204, 404, 409}
  /\ q.want = "list" =>
       DOMAIN q.reply = LoopNames /\ \A i \in LoopNames : Seen(i, q.reply[i], q.began)

AskInv(q) ==
  /\ DOMAIN q = AskFields
  /\ q.stage \in Stages
  /\ q.stage # "idle" => q.began \in 0..now
  /\ q.stage \in UnderWay => AskedRightly(q) /\ ArtifactWasThere(q) /\ PagesWereThere(q)
  /\ q.stage = "replied" => ReplyWasTrue(q)
  /\ q.stage = "answered" /\ q.result \in {"found", "null"} =>
       \A i \in DOMAIN q.data : Recent(i, q.data[i], q.began)

CacheInv ==
  cached # NoList =>
    /\ cached.until \in Int
    /\ DOMAIN cached.data = LoopNames
    /\ \A i \in LoopNames : Seen(i, cached.data[i], cached.until - Ttl)

RegistryInv ==
  /\ kind \in {"flat", "v0"}
  /\ now \in Nat
  /\ catalog \in [LoopNames -> Nat]
  /\ DOMAIN held = 0..MaxTime /\ now <= MaxTime
  /\ \A i \in LoopNames : <<i, catalog[i]>> \in held[now]
  /\ CacheInv
  /\ DOMAIN asks = Requests
  /\ \A r \in Requests : AskInv(asks[r])

(* What the server and the clock may do to the rest.                       *)
Grows ==
  /\ kind' = kind
  /\ now <= now' /\ now' \in Nat
  /\ \A t \in 0..now : held[t] \subseteq held'[t]
  /\ catalog' \in [LoopNames -> Nat]
  /\ kind = "v0" => \A i \in LoopNames : catalog[i] <= catalog'[i] \/ <<i, 0>> \in held'[now]

LEMMA SeenStays ==
  ASSUME RegistryInv, Grows, NEW i, NEW v, NEW b
  PROVE  /\ Seen(i, v, b) => Seen(i, v, b)'
         /\ Recent(i, v, b) => Recent(i, v, b)'
<1>1. now \in Nat /\ now' \in Nat /\ now <= now' /\ \A t \in 0..now : held[t] \subseteq held'[t]
  BY DEF RegistryInv, Grows
<1>2. \A t \in 0..now : t \in 0..now'
  BY <1>1
<1> QED
  BY <1>1, <1>2 DEF Seen, Recent

LEMMA SeenIsRecent ==
  ASSUME NEW i, NEW v, NEW b
  PROVE  Seen(i, v, b) => Recent(i, v, b)
BY DEF Seen, Recent

LEMMA StillStays ==
  ASSUME RegistryInv, Grows, kind = "v0", NEW i \in LoopNames, NEW v \in Nat, NEW b \in 0..now,
         Still(i, v, b)
  PROVE  Still(i, v, b)'
<1>1. CASE Seen(i, 0, b)
  BY <1>1, SeenStays DEF Still
<1>2. CASE v <= catalog[i]
  <2>1. v <= catalog'[i] \/ <<i, 0>> \in held'[now]
    BY <1>2 DEF Grows, RegistryInv
  <2>2. now \in 0..now' /\ now >= b
    BY DEF Grows, RegistryInv
  <2> QED
    BY <2>1, <2>2 DEF Still, Seen
<1> QED
  BY <1>1, <1>2 DEF Still

(* A call that the step does not touch keeps its part of the invariant.    *)
LEMMA RestStays ==
  ASSUME RegistryInv, Grows, NEW q, AskInv(q)
  PROVE  AskInv(q)'
<1>1. \A i, v, b : Seen(i, v, b) => Seen(i, v, b)'
  BY SeenStays
<1>2. \A i, v, b : Recent(i, v, b) => Recent(i, v, b)'
  BY SeenStays
<1>3. q.stage # "idle" => q.began \in 0..now'
  BY DEF RegistryInv, Grows, AskInv
<1>4. q.stage \in UnderWay => q.began \in 0..now
  BY DEF AskInv, UnderWay
<1>5. AskedRightly(q) => AskedRightly(q)'
  BY DEF AskedRightly, Grows
<1>6. ASSUME AskedRightly(q), ArtifactWasThere(q), q.began \in 0..now PROVE ArtifactWasThere(q)'
  <2>1. q.want = "artifact" => kind = "v0" /\ q.id \in LoopNames
    BY <1>6 DEF AskedRightly
  <2> QED
    BY <1>1, <1>6, <2>1, StillStays DEF ArtifactWasThere
<1>7. PagesWereThere(q) => PagesWereThere(q)'
  BY <1>1 DEF PagesWereThere
<1>8. ASSUME AskedRightly(q), ReplyWasTrue(q), q.began \in 0..now PROVE ReplyWasTrue(q)'
  <2>1. q.want \in {"summary", "page"} => kind = "v0" /\ q.id \in LoopNames /\ q.want \in OneVersion
    BY <1>8 DEF AskedRightly, OneVersion
  <2> QED
    BY <1>1, <1>8, <2>1, StillStays DEF ReplyWasTrue
<1>9. q.stage = "replied" => q.stage \in UnderWay
  BY DEF UnderWay
<1> QED
  BY <1>2, <1>3, <1>4, <1>5, <1>6, <1>7, <1>8, <1>9 DEF AskInv

(* A set of naturals with a member has a least one.                        *)
LEMMA LeastNumber ==
  ASSUME NEW T \in SUBSET Nat, T # {}
  PROVE  \E n \in T : \A m \in T : n <= m
<1> DEFINE R == OpToRel(<, Nat)
<1>1. IsWellFoundedOn(R, Nat)
  BY NatLessThanWellFounded
<1>2. \A x, y \in Nat : <<y, x>> \in R <=> y < x
  BY DEF OpToRel
<1> HIDE DEF R
<1>3. \E x \in T : \A y \in T : ~(<<y, x>> \in R)
  BY <1>1, WFMin
<1>4. PICK x \in T : \A y \in T : ~(<<y, x>> \in R)
  BY <1>3
<1>5. \A y \in T : ~(y < x)
  BY <1>2, <1>4
<1>6. \A y \in T : x <= y
  BY <1>5
<1> QED
  BY <1>6

(* Ids are visited in order.                                               *)
LEMMA FirstLoopIsFirst == FirstLoop \in LoopNames /\ \A j \in LoopNames : ~(j < FirstLoop)
<1>1. \E i \in LoopNames : \A j \in LoopNames : i <= j
  BY RegistryAssumption, LeastNumber
<1>2. FirstLoop \in LoopNames /\ \A j \in LoopNames : FirstLoop <= j
  BY <1>1 DEF FirstLoop
<1> QED
  BY <1>2, RegistryAssumption

(* Steps that change one call, and nothing but the cache with it.          *)
Quiet == UNCHANGED <<kind, now, catalog, held>>

LEMMA QuietGrows ==
  ASSUME RegistryInv, Quiet
  PROVE  Grows
BY DEF RegistryInv, Quiet, Grows

(* A step keeps the invariant if it does for the call it is of, the server *)
(* and the cache.                                                          *)
LEMMA StepKeepsInv ==
  ASSUME RegistryInv, Grows, CacheInv', NEW r \in Requests,
         DOMAIN asks' = Requests, \A s \in Requests \ {r} : asks'[s] = asks[s],
         AskInv(asks[r])',
         catalog' \in [LoopNames -> Nat], DOMAIN held' = 0..MaxTime, now' <= MaxTime,
         \A i \in LoopNames : <<i, catalog'[i]>> \in held'[now']
  PROVE  RegistryInv'
<1>1. ASSUME NEW s \in Requests PROVE AskInv(asks[s])'
  <2>1. CASE s = r
    BY <2>1
  <2>2. CASE s # r
    <3>1. PICK q : q = asks[s]
      OBVIOUS
    <3>2. AskInv(q)
      BY <3>1 DEF RegistryInv
    <3>3. AskInv(q)'
      BY <3>2, RestStays
    <3>4. asks'[s] = q
      BY <2>2, <3>1
    <3> QED
      BY <3>3, <3>4
  <2> QED
    BY <2>1, <2>2
<1> QED
  BY <1>1 DEF RegistryInv, Grows

LEMMA QuietStepKeepsInv ==
  ASSUME RegistryInv, Quiet, CacheInv', NEW r \in Requests, NEW q,
         asks' = [asks EXCEPT ![r] = q], AskInv(q)
  PROVE  RegistryInv'
<1>1. Grows
  BY QuietGrows
<1>2. AskInv(q)'
  BY <1>1, RestStays
<1>3. /\ DOMAIN asks' = Requests /\ asks'[r] = q
      /\ \A s \in Requests \ {r} : asks'[s] = asks[s]
  BY DEF RegistryInv
<1>4. AskInv(asks[r])'
  BY <1>2, <1>3
<1>5. /\ catalog' \in [LoopNames -> Nat] /\ DOMAIN held' = 0..MaxTime /\ now' <= MaxTime
      /\ \A i \in LoopNames : <<i, catalog'[i]>> \in held'[now']
  BY DEF RegistryInv, Quiet
<1> QED
  BY <1>1, <1>3, <1>4, <1>5, StepKeepsInv

LEMMA CacheStays ==
  ASSUME RegistryInv, Grows, cached' = cached
  PROVE  CacheInv'
<1>1. ASSUME cached # NoList
      PROVE  /\ cached.until \in Int
             /\ DOMAIN cached.data = LoopNames
             /\ \A i \in LoopNames : Seen(i, cached.data[i], cached.until - Ttl)'
  <2>1. PICK c : c = cached
    OBVIOUS
  <2>2. /\ c.until \in Int /\ DOMAIN c.data = LoopNames
        /\ \A i \in LoopNames : Seen(i, c.data[i], c.until - Ttl)
    BY <1>1, <2>1 DEF RegistryInv, CacheInv
  <2>3. \A i \in LoopNames : Seen(i, c.data[i], c.until - Ttl)'
    BY <2>2, SeenStays
  <2>4. \A i \in LoopNames : Seen(i, cached.data[i], cached.until - Ttl)'
    BY <2>1, <2>3 DEF Seen
  <2> QED
    BY <2>1, <2>2, <2>4
<1> QED
  BY <1>1 DEF CacheInv, Seen

LEMMA WorldKeepsInv ==
  ASSUME RegistryInv, Tick \/ \E i \in LoopNames : Publish(i)
  PROVE  RegistryInv'
<1>0. MaxTime \in Nat
  BY RegistryAssumption
<1>1. /\ Grows /\ cached' = cached /\ asks' = asks
      /\ catalog' \in [LoopNames -> Nat] /\ DOMAIN held' = 0..MaxTime /\ now' <= MaxTime
      /\ \A i \in LoopNames : <<i, catalog'[i]>> \in held'[now']
  <2>1. CASE Tick
    BY <1>0, <2>1 DEF Tick, RegistryInv, Grows
  <2>2. ASSUME NEW i \in LoopNames, Publish(i)
        PROVE  /\ Grows /\ cached' = cached /\ asks' = asks
               /\ catalog' \in [LoopNames -> Nat] /\ DOMAIN held' = 0..MaxTime /\ now' <= MaxTime
               /\ \A j \in LoopNames : <<j, catalog'[j]>> \in held'[now']
    <3>1. PICK c : Store(c) /\ (c = [catalog EXCEPT ![i] = @ + 1] \/ c = [catalog EXCEPT ![i] = 0])
      BY <2>2 DEF Publish
    <3>2. /\ c \in [LoopNames -> Nat]
          /\ \A j \in LoopNames : catalog[j] <= c[j] \/ c[j] = 0
      BY <3>1 DEF RegistryInv
    <3>3. /\ catalog' = c
          /\ held' = [held EXCEPT ![now] = @ \cup {<<j, c[j]>> : j \in LoopNames}]
      BY <3>1 DEF Store
    <3>4. DOMAIN held' = 0..MaxTime /\ held'[now] = held[now] \cup {<<j, c[j]>> : j \in LoopNames}
      BY <1>0, <3>3 DEF RegistryInv
    <3>5. \A t \in 0..now : held[t] \subseteq held'[t]
      BY <1>0, <3>3, <3>4 DEF RegistryInv
    <3>6. UNCHANGED <<kind, now, cached, asks>>
      BY <2>2 DEF Publish
    <3> QED
      BY <3>2, <3>3, <3>4, <3>5, <3>6 DEF Grows, RegistryInv
  <2> QED
    BY <2>1, <2>2
<1>2. CacheInv'
  BY <1>1, CacheStays
<1>3. ASSUME NEW s \in Requests PROVE AskInv(asks[s])'
  <2>1. PICK q : q = asks[s]
    OBVIOUS
  <2>2. AskInv(q)
    BY <2>1 DEF RegistryInv
  <2>3. AskInv(q)'
    BY <1>1, <2>2, RestStays
  <2> QED
    BY <1>1, <2>1, <2>3
<1> QED
  BY <1>1, <1>2, <1>3 DEF RegistryInv, Grows

(* What the server holds now was seen during a call that began before.     *)
LEMMA HeldIsSeen ==
  ASSUME RegistryInv, NEW b \in 0..now, NEW i \in LoopNames
  PROVE  Seen(i, catalog[i], b)
<1>1. now \in 0..now /\ now >= b /\ <<i, catalog[i]>> \in held[now]
  BY DEF RegistryInv
<1> QED
  BY <1>1 DEF Seen

(* A reply that is true and changes nothing on the server.                 *)
LEMMA RepliesKeepInv ==
  ASSUME RegistryInv, NEW r \in Requests, NEW x, asks[r].stage = "sent",
         asks' = [asks EXCEPT ![r].stage = "replied", ![r].reply = x],
         Quiet, cached' = cached,
         asks[r].want \in OneVersion => x.version \in Nat /\ Seen(asks[r].id, x.version, asks[r].began),
         asks[r].want \in {"summary", "page"} => Still(asks[r].id, x.version, asks[r].began),
         asks[r].want \in {"post", "delete"} => x.status \in {201, 204, 404, 409},
         asks[r].want = "list" =>
           DOMAIN x = LoopNames /\ \A i \in LoopNames : Seen(i, x[i], asks[r].began)
  PROVE  RegistryInv'
<1>1. PICK p : p = asks[r]
  OBVIOUS
<1>2. AskInv(p) /\ p.stage = "sent"
  BY <1>1 DEF RegistryInv
<1>3. PICK q : q = [p EXCEPT !.stage = "replied", !.reply = x]
  OBVIOUS
<1>4. /\ DOMAIN q = AskFields /\ q.stage = "replied" /\ q.reply = x
      /\ q.op = p.op /\ q.id = p.id /\ q.began = p.began /\ q.want = p.want
      /\ q.version = p.version /\ q.data = p.data
  BY <1>2, <1>3 DEF AskInv, AskFields
<1>5. asks' = [asks EXCEPT ![r] = q]
  BY <1>1, <1>3 DEF RegistryInv
<1>6. AskedRightly(p) /\ ArtifactWasThere(p) /\ PagesWereThere(p)
  BY <1>2 DEF AskInv, UnderWay
<1>7. AskedRightly(q) /\ ArtifactWasThere(q) /\ PagesWereThere(q)
  BY <1>4, <1>6 DEF AskedRightly, ArtifactWasThere, PagesWereThere
<1>8. ReplyWasTrue(q)
  BY <1>1, <1>4 DEF ReplyWasTrue
<1>9. AskInv(q)
  BY <1>2, <1>4, <1>7, <1>8 DEF AskInv, Stages
<1> QED
  BY <1>5, <1>9, QuietGrows, CacheStays, QuietStepKeepsInv

(* A reply to register or remove, which changes the server.                *)
LEMMA ChangesKeepInv ==
  ASSUME RegistryInv, NEW r \in Requests, NEW x, asks[r].stage = "sent",
         asks' = [asks EXCEPT ![r].stage = "replied", ![r].reply = x],
         asks[r].want \in {"post", "delete"}, x.status \in {201, 204, 404, 409},
         NEW v \in Nat, Store([catalog EXCEPT ![asks[r].id] = v]),
         UNCHANGED <<kind, now, cached>>
  PROVE  RegistryInv'
<1>0. MaxTime \in Nat
  BY RegistryAssumption
<1>1. PICK p : p = asks[r]
  OBVIOUS
<1>2. AskInv(p) /\ p.stage = "sent" /\ p.want \in {"post", "delete"}
  BY <1>1 DEF RegistryInv
<1>3. AskedRightly(p) /\ p.id \in LoopNames /\ kind = "flat"
  BY <1>2 DEF AskInv, UnderWay, AskedRightly
<1>4. PICK c : c = [catalog EXCEPT ![p.id] = v]
  OBVIOUS
<1>5. c \in [LoopNames -> Nat]
  BY <1>4 DEF RegistryInv
<1>6. /\ catalog' = c
      /\ held' = [held EXCEPT ![now] = @ \cup {<<j, c[j]>> : j \in LoopNames}]
  BY <1>1, <1>4 DEF Store
<1>7. DOMAIN held' = 0..MaxTime /\ held'[now] = held[now] \cup {<<j, c[j]>> : j \in LoopNames}
  BY <1>0, <1>6 DEF RegistryInv
<1>8. \A t \in 0..now : held[t] \subseteq held'[t]
  BY <1>0, <1>6, <1>7 DEF RegistryInv
<1>9. Grows
  BY <1>3, <1>5, <1>6, <1>8 DEF Grows, RegistryInv
<1>10. PICK q : q = [p EXCEPT !.stage = "replied", !.reply = x]
  OBVIOUS
<1>11. /\ DOMAIN q = AskFields /\ q.stage = "replied"
       /\ q.id = p.id /\ q.began = p.began /\ q.want = p.want /\ q.version = p.version
       /\ q.reply = x
  BY <1>2, <1>10 DEF AskInv, AskFields
<1>12. asks' = [asks EXCEPT ![r] = q]
  BY <1>1, <1>10 DEF RegistryInv
<1>13. AskInv(q)
  <2>1. AskedRightly(q)
    BY <1>3, <1>11 DEF AskedRightly
  <2>2. ArtifactWasThere(q) /\ PagesWereThere(q) /\ ReplyWasTrue(q)
    BY <1>2, <1>11 DEF ArtifactWasThere, PagesWereThere, ReplyWasTrue, OneVersion
  <2> QED
    BY <1>2, <1>11, <2>1, <2>2 DEF AskInv, Stages
<1>14. AskInv(q)'
  BY <1>9, <1>13, RestStays
<1>15. /\ DOMAIN asks' = Requests /\ asks'[r] = q
       /\ \A s \in Requests \ {r} : asks'[s] = asks[s]
  BY <1>12 DEF RegistryInv
<1>16. AskInv(asks[r])'
  BY <1>14, <1>15
<1>17. CacheInv'
  BY <1>9, CacheStays
<1>18. /\ now' <= MaxTime
       /\ \A i \in LoopNames : <<i, catalog'[i]>> \in held'[now']
  BY <1>6, <1>7 DEF RegistryInv
<1> QED
  BY <1>5, <1>6, <1>7, <1>9, <1>15, <1>16, <1>17, <1>18, StepKeepsInv

LEMMA ServeKeepsInv ==
  ASSUME RegistryInv, NEW r \in Requests, Serve(r)
  PROVE  RegistryInv'
<1>1. PICK q : q = asks[r]
  OBVIOUS
<1>2. AskInv(q) /\ q.stage = "sent" /\ UNCHANGED <<kind, now, cached>>
  BY <1>1 DEF RegistryInv, Serve
<1>3. AskedRightly(q) /\ ArtifactWasThere(q) /\ q.id \in LoopNames /\ q.began \in 0..now
  BY <1>2 DEF AskInv, UnderWay, AskedRightly
<1>4. catalog[q.id] \in Nat /\ Seen(q.id, catalog[q.id], q.began)
  BY <1>3, HeldIsSeen DEF RegistryInv
<1>5. CASE /\ q.want \in {"loop", "summary", "page"}
           /\ asks' = [asks EXCEPT ![r].stage = "replied", ![r].reply = [version |-> catalog[q.id]]]
           /\ UNCHANGED <<kind, catalog, held>>
  <2>1. PICK x : x = [version |-> catalog[q.id]]
    OBVIOUS
  <2>2. x.version = catalog[q.id] /\ Still(q.id, x.version, q.began)
    BY <1>4, <2>1 DEF Still
  <2>3. q.want # "list" /\ q.want \notin {"post", "delete"}
    BY <1>5
  <2> QED
    BY <1>1, <1>2, <1>4, <1>5, <2>1, <2>2, <2>3, RepliesKeepInv DEF Quiet
<1>6. CASE /\ q.want = "list"
           /\ asks' = [asks EXCEPT ![r].stage = "replied", ![r].reply = catalog]
           /\ UNCHANGED <<kind, catalog, held>>
  <2>1. PICK x : x = catalog
    OBVIOUS
  <2>2. DOMAIN x = LoopNames /\ \A i \in LoopNames : Seen(i, x[i], q.began)
    BY <1>3, <2>1, HeldIsSeen DEF RegistryInv
  <2>3. q.want \notin OneVersion /\ q.want \notin {"summary", "page", "post", "delete"}
    BY <1>6 DEF OneVersion
  <2> QED
    BY <1>1, <1>2, <1>6, <2>1, <2>2, <2>3, RepliesKeepInv DEF Quiet
<1>7. CASE /\ q.want = "artifact"
           /\ asks' = [asks EXCEPT ![r].stage = "replied",
                        ![r].reply = [version |-> IF q.version <= catalog[q.id] THEN q.version ELSE 0]]
           /\ UNCHANGED <<kind, catalog, held>>
  <2>1. PICK x : x = [version |-> IF q.version <= catalog[q.id] THEN q.version ELSE 0]
    OBVIOUS
  <2>2. x.version \in Nat /\ Seen(q.id, x.version, q.began)
    BY <1>3, <1>7, <2>1 DEF ArtifactWasThere, Still
  <2>3. q.want # "list" /\ q.want \notin {"summary", "page", "post", "delete"}
    BY <1>7
  <2> QED
    BY <1>1, <1>2, <1>7, <2>1, <2>2, <2>3, RepliesKeepInv DEF Quiet
<1>8. CASE q.want = "post" /\ catalog[q.id] # q.version
  <2>4. PICK x : x = [status |-> IF catalog[q.id] # q.version THEN 201 ELSE 409]
    OBVIOUS
  <2>5. x.status \in {201, 204, 404, 409}
    BY <2>4
  <2>1. asks' = [asks EXCEPT ![r].stage = "replied", ![r].reply = x]
    BY <1>1, <1>8, <2>4 DEF Serve
  <2>2. Store([catalog EXCEPT ![q.id] = q.version])
    BY <1>1, <1>8 DEF Serve
  <2>3. q.version \in Nat /\ q.want \in {"post", "delete"}
    BY <1>3, <1>8 DEF AskedRightly
  <2> QED
    BY <1>1, <1>2, <2>1, <2>2, <2>3, <2>5, ChangesKeepInv
<1>9. CASE q.want = "post" /\ catalog[q.id] = q.version
  <2>4. PICK x : x = [status |-> IF catalog[q.id] # q.version THEN 201 ELSE 409]
    OBVIOUS
  <2>5. x.status \in {201, 204, 404, 409}
    BY <2>4
  <2>1. asks' = [asks EXCEPT ![r].stage = "replied", ![r].reply = x]
    BY <1>1, <1>9, <2>4 DEF Serve
  <2>2. Quiet
    BY <1>1, <1>2, <1>9 DEF Serve, Quiet
  <2>3. q.want \notin OneVersion /\ q.want # "list" /\ q.want \notin {"summary", "page"}
    BY <1>9 DEF OneVersion
  <2> QED
    BY <1>1, <1>2, <2>1, <2>2, <2>3, <2>5, RepliesKeepInv
<1>10. CASE q.want = "delete"
  <2>4. PICK x : x = [status |-> IF catalog[q.id] > 0 THEN 204 ELSE 404]
    OBVIOUS
  <2>5. x.status \in {201, 204, 404, 409}
    BY <2>4
  <2>1. asks' = [asks EXCEPT ![r].stage = "replied", ![r].reply = x]
    BY <1>1, <1>10, <2>4 DEF Serve
  <2>2. Store([catalog EXCEPT ![q.id] = 0])
    BY <1>1, <1>10 DEF Serve
  <2>3. q.want \in {"post", "delete"} /\ 0 \in Nat
    BY <1>10
  <2> QED
    BY <1>1, <1>2, <2>1, <2>2, <2>3, <2>5, ChangesKeepInv
<1> QED
  BY <1>1, <1>5, <1>6, <1>7, <1>8, <1>9, <1>10 DEF Serve

LEMMA BeginFields ==
  ASSUME NEW r, NEW op, NEW i, NEW v, NEW q, q = Begin(r, op, i, v)
  PROVE  /\ DOMAIN q = AskFields
         /\ q.stage = "idle" /\ q.op = op /\ q.id = i /\ q.began = now /\ q.version = v
         /\ q.result = "none"
<1>1. PICK idle : idle = Idle
  OBVIOUS
<1>2. DOMAIN idle = AskFields /\ idle.stage = "idle" /\ idle.result = "none"
  BY <1>1 DEF Idle, AskFields
<1>3. q = [idle EXCEPT !.op = op, !.id = i, !.began = now, !.version = v]
  BY <1>1 DEF Begin
<1> QED
  BY <1>2, <1>3 DEF AskFields

(* A list that is fresh when a call begins is recent for that call.        *)
LEMMA FreshIsRecent ==
  ASSUME RegistryInv, Fresh, NEW i \in LoopNames
  PROVE  Recent(i, cached.data[i], now)
<1>1. /\ now \in Nat /\ cached.until \in Int /\ cached.until > now /\ Ttl \in Nat
      /\ Seen(i, cached.data[i], cached.until - Ttl)
  BY RegistryAssumption DEF RegistryInv, Fresh, CacheInv
<1>2. PICK t \in 0..now : t >= cached.until - Ttl /\ <<i, cached.data[i]>> \in held[t]
  BY <1>1 DEF Seen
<1>3. t > now - Ttl
  BY <1>1, <1>2
<1> QED
  BY <1>2, <1>3 DEF Recent

(* A call is answered as it is made, or sends its first request.           *)
LEMMA AnsweredKeepsInv ==
  ASSUME RegistryInv, NEW r \in Requests, NEW p, NEW result, NEW data, Quiet, CacheInv',
         DOMAIN p = AskFields, p.began \in 0..now,
         asks' = [asks EXCEPT ![r] = [p EXCEPT !.stage = "answered", !.result = result, !.data = data]],
         result \in {"found", "null"} => \A i \in DOMAIN data : Recent(i, data[i], p.began)
  PROVE  RegistryInv'
<1>1. PICK q : q = [p EXCEPT !.stage = "answered", !.result = result, !.data = data]
  OBVIOUS
<1>2. /\ DOMAIN q = AskFields /\ q.stage = "answered" /\ q.result = result
      /\ q.data = data /\ q.began = p.began
  BY <1>1 DEF AskFields
<1>3. AskInv(q)
  BY <1>2 DEF AskInv, Stages, UnderWay
<1> QED
  BY <1>1, <1>3, QuietStepKeepsInv

LEMMA RefusedKeepsInv ==
  ASSUME RegistryInv, NEW r \in Requests, NEW p, NEW result, Quiet, CacheInv',
         DOMAIN p = AskFields, p.began \in 0..now, result \notin {"found", "null"},
         asks' = [asks EXCEPT ![r] = [p EXCEPT !.stage = "answered", !.result = result]]
  PROVE  RegistryInv'
<1>1. PICK q : q = [p EXCEPT !.stage = "answered", !.result = result]
  OBVIOUS
<1>2. /\ DOMAIN q = AskFields /\ q.stage = "answered" /\ q.result = result /\ q.began = p.began
  BY <1>1 DEF AskFields
<1>3. AskInv(q)
  BY <1>2 DEF AskInv, Stages, UnderWay
<1> QED
  BY <1>1, <1>3, QuietStepKeepsInv

LEMMA GetKeepsInv ==
  ASSUME RegistryInv, NEW r \in Requests, NEW i \in LoopNames, Get(r, i)
  PROVE  RegistryInv'
<1>1. PICK p : p = Begin(r, "get", i, 0)
  OBVIOUS
<1>2. /\ DOMAIN p = AskFields /\ p.op = "get" /\ p.id = i /\ p.began = now /\ now \in 0..now
  BY <1>1, BeginFields DEF RegistryInv
<1>3. Quiet /\ cached' = cached
  BY DEF Get, Quiet
<1>4. CacheInv'
  BY <1>3, QuietGrows, CacheStays
<1>5. CASE InCache(i)
  <2>1. PICK data : data = [j \in {i} |-> cached.data[i]]
    OBVIOUS
  <2>2. asks' = [asks EXCEPT ![r] = [p EXCEPT !.stage = "answered", !.result = "found", !.data = data]]
    BY <1>1, <1>5, <2>1 DEF Get
  <2>3. \A j \in DOMAIN data : Recent(j, data[j], now)
    BY <1>5, <2>1, FreshIsRecent DEF InCache
  <2> QED
    BY <1>2, <1>3, <1>4, <2>2, <2>3, AnsweredKeepsInv
<1>6. CASE ~InCache(i)
  <2>1. PICK want : want = IF kind = "flat" THEN "loop" ELSE "summary"
    OBVIOUS
  <2>2. PICK q : q = [p EXCEPT !.stage = "sent", !.want = want]
    OBVIOUS
  <2>3. asks' = [asks EXCEPT ![r] = q]
    BY <1>1, <1>6, <2>1, <2>2 DEF Get
  <2>4. /\ DOMAIN q = AskFields /\ q.stage = "sent" /\ q.want = want /\ q.op = "get"
        /\ q.id = i /\ q.began = now
    BY <1>2, <2>2 DEF AskFields
  <2>5. AskedRightly(q) /\ ArtifactWasThere(q) /\ PagesWereThere(q)
    BY <2>1, <2>4 DEF AskedRightly, ArtifactWasThere, PagesWereThere, OneVersion, RegistryInv
  <2>6. AskInv(q)
    BY <1>2, <2>4, <2>5 DEF AskInv, Stages
  <2> QED
    BY <1>3, <1>4, <2>3, <2>6, QuietStepKeepsInv
<1> QED
  BY <1>5, <1>6

LEMMA ListKeepsInv ==
  ASSUME RegistryInv, NEW r \in Requests, List(r)
  PROVE  RegistryInv'
<1>1. PICK p : p = Begin(r, "list", FirstLoop, 0)
  OBVIOUS
<1>2. /\ DOMAIN p = AskFields /\ p.op = "list" /\ p.id = FirstLoop /\ p.began = now /\ now \in 0..now
  BY <1>1, BeginFields DEF RegistryInv
<1>3. Quiet /\ cached' = cached
  BY DEF List, Quiet
<1>4. CacheInv'
  BY <1>3, QuietGrows, CacheStays
<1>5. CASE Fresh
  <2>1. PICK data : data = cached.data
    OBVIOUS
  <2>2. asks' = [asks EXCEPT ![r] = [p EXCEPT !.stage = "answered", !.result = "found", !.data = data]]
    BY <1>1, <1>5, <2>1 DEF List
  <2>3. DOMAIN data = LoopNames
    BY <1>5, <2>1 DEF Fresh, RegistryInv, CacheInv
  <2>4. \A j \in DOMAIN data : Recent(j, data[j], now)
    BY <1>5, <2>1, <2>3, FreshIsRecent
  <2> QED
    BY <1>2, <1>3, <1>4, <2>2, <2>4, AnsweredKeepsInv
<1>6. CASE ~Fresh
  <2>1. PICK want : want = IF kind = "flat" THEN "list" ELSE "page"
    OBVIOUS
  <2>2. PICK data : data = [j \in LoopNames |-> 0]
    OBVIOUS
  <2>3. PICK q : q = [p EXCEPT !.stage = "sent", !.data = data, !.want = want]
    OBVIOUS
  <2>4. asks' = [asks EXCEPT ![r] = q]
    BY <1>1, <1>6, <2>1, <2>2, <2>3 DEF List
  <2>5. /\ DOMAIN q = AskFields /\ q.stage = "sent" /\ q.want = want /\ q.op = "list"
        /\ q.id = FirstLoop /\ q.began = now /\ q.data = data /\ DOMAIN data = LoopNames
    BY <1>2, <2>2, <2>3 DEF AskFields
  <2>6. AskedRightly(q)
    BY <2>1, <2>5, FirstLoopIsFirst DEF AskedRightly, OneVersion, RegistryInv
  <2>7. ArtifactWasThere(q) /\ PagesWereThere(q)
    BY <2>1, <2>5, FirstLoopIsFirst DEF ArtifactWasThere, PagesWereThere
  <2>8. AskInv(q)
    BY <1>2, <2>5, <2>6, <2>7 DEF AskInv, Stages
  <2> QED
    BY <1>3, <1>4, <2>4, <2>8, QuietStepKeepsInv
<1> QED
  BY <1>5, <1>6

LEMMA ChangeKeepsInv ==
  ASSUME RegistryInv, NEW r \in Requests, NEW op \in {"register", "remove"},
         NEW i \in LoopNames, NEW v \in Nat, Change(r, op, i, v)
  PROVE  RegistryInv'
<1>1. PICK p : p = Begin(r, op, i, v)
  OBVIOUS
<1>2. /\ DOMAIN p = AskFields /\ p.op = op /\ p.id = i /\ p.version = v
      /\ p.began = now /\ now \in 0..now
  BY <1>1, BeginFields DEF RegistryInv
<1>3. Quiet /\ cached' = cached
  BY DEF Change, Quiet
<1>4. CacheInv'
  BY <1>3, QuietGrows, CacheStays
<1>5. CASE kind = "flat"
  <2>1. PICK want : want = IF op = "register" THEN "post" ELSE "delete"
    OBVIOUS
  <2>2. PICK q : q = [p EXCEPT !.stage = "sent", !.want = want]
    OBVIOUS
  <2>3. asks' = [asks EXCEPT ![r] = q]
    BY <1>1, <1>5, <2>1, <2>2 DEF Change
  <2>4. /\ DOMAIN q = AskFields /\ q.stage = "sent" /\ q.want = want
        /\ q.id = i /\ q.began = now /\ q.version = v
    BY <1>2, <2>2 DEF AskFields
  <2>5. AskedRightly(q) /\ ArtifactWasThere(q) /\ PagesWereThere(q)
    BY <1>5, <2>1, <2>4 DEF AskedRightly, ArtifactWasThere, PagesWereThere, OneVersion
  <2>6. AskInv(q)
    BY <1>2, <2>4, <2>5 DEF AskInv, Stages
  <2> QED
    BY <1>3, <1>4, <2>3, <2>6, QuietStepKeepsInv
<1>6. CASE kind # "flat"
  <2>1. PICK result : result = IF op = "register" THEN "error" ELSE "false"
    OBVIOUS
  <2>2. asks' = [asks EXCEPT ![r] = [p EXCEPT !.stage = "answered", !.result = result]]
    BY <1>1, <1>6, <2>1 DEF Change
  <2>3. result \notin {"found", "null"}
    BY <2>1
  <2> QED
    BY <1>2, <1>3, <1>4, <2>2, <2>3, RefusedKeepsInv
<1> QED
  BY <1>5, <1>6

(* A call gives up: what it answers says nothing of a loop.                *)
LEMMA GivingUpKeepsInv ==
  ASSUME RegistryInv, NEW r \in Requests, asks[r].stage \in UnderWay,
         asks' = [asks EXCEPT ![r] = GivenUp(@)], Quiet, cached' = cached
  PROVE  RegistryInv'
<1>1. PICK p : p = asks[r]
  OBVIOUS
<1>2. AskInv(p) /\ p.stage \in UnderWay /\ p.began \in 0..now
  BY <1>1 DEF RegistryInv, AskInv, UnderWay
<1>3. CacheInv'
  BY QuietGrows, CacheStays
<1>4. PICK q : q = [p EXCEPT !.stage = "answered", !.result = "error", !.data = <<>>, !.reply = <<>>]
  OBVIOUS
<1>5. asks' = [asks EXCEPT ![r] = q]
  BY <1>1, <1>4 DEF GivenUp
<1>6. /\ DOMAIN q = AskFields /\ q.stage = "answered" /\ q.result = "error" /\ q.began = p.began
  BY <1>2, <1>4 DEF AskFields, AskInv
<1>7. AskInv(q)
  BY <1>2, <1>6 DEF AskInv, Stages, UnderWay
<1> QED
  BY <1>3, <1>5, <1>7, QuietStepKeepsInv

LEMMA RefusedEndsCall ==
  ASSUME RegistryInv, NEW r \in Requests, Refused(r)
  PROVE  RegistryInv'
<1>1. asks[r].stage \in UnderWay /\ asks' = [asks EXCEPT ![r] = GivenUp(@)]
  BY DEF Refused, UnderWay
<1>2. Quiet /\ cached' = cached
  BY DEF Refused, Quiet
<1> QED
  BY <1>1, <1>2, GivingUpKeepsInv

LEMMA LoseKeepsInv ==
  ASSUME RegistryInv, NEW r \in Requests, Lose(r)
  PROVE  RegistryInv'
<1>1. PICK p : p = asks[r]
  OBVIOUS
<1>2. AskInv(p) /\ p.stage \in UnderWay
  BY <1>1 DEF RegistryInv, Lose, UnderWay
<1>3. AskedRightly(p) /\ ArtifactWasThere(p) /\ PagesWereThere(p) /\ p.began \in 0..now
  BY <1>2 DEF AskInv, UnderWay
<1>4. Quiet /\ cached' = cached
  BY DEF Lose, Quiet
<1>5. CacheInv'
  BY <1>4, QuietGrows, CacheStays
<1>6. CASE p.attempt < Retries
  <2>1. PICK q : q = [p EXCEPT !.stage = "sent", !.attempt = @ + 1, !.reply = <<>>]
    OBVIOUS
  <2>2. asks' = [asks EXCEPT ![r] = q]
    BY <1>1, <1>6, <2>1 DEF Lose, Retried
  <2>3. /\ DOMAIN q = AskFields /\ q.stage = "sent" /\ q.op = p.op /\ q.id = p.id
        /\ q.began = p.began /\ q.want = p.want /\ q.version = p.version /\ q.data = p.data
    BY <1>2, <2>1 DEF AskFields, AskInv
  <2>4. AskedRightly(q) /\ ArtifactWasThere(q) /\ PagesWereThere(q)
    BY <1>3, <2>3 DEF AskedRightly, ArtifactWasThere, PagesWereThere
  <2>5. AskInv(q)
    BY <1>3, <2>3, <2>4 DEF AskInv, Stages
  <2> QED
    BY <1>4, <1>5, <2>2, <2>5, QuietStepKeepsInv
<1>7. CASE ~(p.attempt < Retries)
  <2>1. asks' = [asks EXCEPT ![r] = GivenUp(@)]
    BY <1>1, <1>7 DEF Lose
  <2> QED
    BY <1>1, <1>2, <1>4, <2>1, GivingUpKeepsInv
<1> QED
  BY <1>6, <1>7

(* A call under way is answered.                                           *)
LEMMA AnswerKeepsInv ==
  ASSUME RegistryInv, NEW r \in Requests, NEW result, NEW data, Quiet, CacheInv',
         asks[r].began \in 0..now,
         Answer(r, result, data),
         result \in {"found", "null"} => \A i \in DOMAIN data : Recent(i, data[i], asks[r].began)
  PROVE  RegistryInv'
<1>1. PICK p : p = asks[r]
  OBVIOUS
<1>2. DOMAIN p = AskFields
  BY <1>1 DEF RegistryInv, AskInv
<1>3. PICK q : q = [p EXCEPT !.stage = "answered", !.result = result, !.data = data, !.reply = <<>>]
  OBVIOUS
<1>4. asks' = [asks EXCEPT ![r] = q]
  BY <1>1, <1>3 DEF Answer, RegistryInv
<1>5. /\ DOMAIN q = AskFields /\ q.stage = "answered" /\ q.result = result
      /\ q.data = data /\ q.began = p.began
  BY <1>2, <1>3 DEF AskFields
<1>6. AskInv(q)
  BY <1>1, <1>5 DEF AskInv, Stages, UnderWay
<1> QED
  BY <1>4, <1>6, QuietStepKeepsInv

(* A call under way sends its next request.                                *)
LEMMA SendKeepsInv ==
  ASSUME RegistryInv, NEW r \in Requests, NEW want, NEW i \in LoopNames, NEW v, NEW data, Quiet, CacheInv',
         NEW p, p = asks[r], p.stage \in UnderWay,
         Send(r, want, i, v, data), kind = "v0",
         \/ want = "artifact" /\ v \in Nat /\ Seen(i, v, p.began) /\ Still(i, v, p.began)
         \/ want = "page" /\ p.op = "list",
         p.op = "list" => /\ DOMAIN data = LoopNames
                          /\ \A j \in LoopNames : j < i => Seen(j, data[j], p.began)
  PROVE  RegistryInv'
<1>1. AskInv(p) /\ p.began \in 0..now
  BY DEF RegistryInv, AskInv, UnderWay
<1>2. PICK q : q = [p EXCEPT !.stage = "sent", !.attempt = 0, !.reply = <<>>,
                             !.want = want, !.id = i, !.version = v, !.data = data]
  OBVIOUS
<1>3. asks' = [asks EXCEPT ![r] = q]
  BY <1>2 DEF Send
<1>4. /\ DOMAIN q = AskFields /\ q.stage = "sent" /\ q.op = p.op /\ q.id = i
      /\ q.began = p.began /\ q.want = want /\ q.version = v /\ q.data = data
  BY <1>1, <1>2 DEF AskFields, AskInv
<1>5. AskedRightly(q)
  BY <1>4 DEF AskedRightly, OneVersion
<1>6. ArtifactWasThere(q) /\ PagesWereThere(q)
  BY <1>4 DEF ArtifactWasThere, PagesWereThere
<1>7. AskInv(q)
  BY <1>1, <1>4, <1>5, <1>6 DEF AskInv, Stages
<1> QED
  BY <1>3, <1>7, QuietStepKeepsInv

(* A reply has come: what is known of its call.                            *)
LEMMA RepliedCall ==
  ASSUME RegistryInv, NEW r \in Requests, NEW q, q = asks[r], q.stage = "replied"
  PROVE  /\ AskInv(q) /\ AskedRightly(q) /\ PagesWereThere(q) /\ ReplyWasTrue(q)
         /\ q.id \in LoopNames /\ q.began \in 0..now
BY DEF RegistryInv, AskInv, UnderWay, AskedRightly

LEMMA GetReplyKeepsInv ==
  ASSUME RegistryInv, NEW r \in Requests, GetReplied(r) \/ NoSummary(r)
  PROVE  RegistryInv'
<1>1. PICK q : q = asks[r]
  OBVIOUS
<1>2. q.stage = "replied" /\ q.want \in OneVersion
  BY <1>1 DEF GetReplied, NoSummary, OneVersion
<1>3. q.began \in 0..now /\ q.id \in LoopNames /\ q.reply.version \in Nat
      /\ Seen(q.id, q.reply.version, q.began)
  BY <1>1, <1>2, RepliedCall DEF ReplyWasTrue
<1>4. Quiet /\ cached' = cached
  BY DEF GetReplied, NoSummary, Quiet
<1>5. CacheInv'
  BY <1>4, QuietGrows, CacheStays
<1>6. ASSUME NEW data, data = [j \in {q.id} |-> q.reply.version], NEW result, Answer(r, result, data)
      PROVE  RegistryInv'
  <2>1. \A j \in DOMAIN data : Recent(j, data[j], q.began)
    BY <1>3, <1>6, SeenIsRecent
  <2> QED
    BY <1>1, <1>3, <1>4, <1>5, <1>6, <2>1, AnswerKeepsInv
<1>7. CASE NoSummary(r)
  <2>1. PICK data : data = [j \in {q.id} |-> q.reply.version]
    OBVIOUS
  <2>2. q.reply.version = 0
    BY <1>1, <1>7 DEF NoSummary
  <2>3. Answer(r, "null", data)
    BY <1>1, <1>7, <2>1, <2>2 DEF NoSummary
  <2> QED
    BY <1>6, <2>1, <2>3
<1>8. CASE GetReplied(r)
  <2>1. PICK data : data = [j \in {q.id} |-> q.reply.version]
    OBVIOUS
  <2>2. CASE q.reply.version = 0
    <3>1. Answer(r, "null", data)
      BY <1>1, <1>8, <2>1, <2>2 DEF GetReplied
    <3> QED
      BY <1>6, <2>1, <3>1
  <2>3. CASE q.reply.version # 0 /\ ~Parsed(q.id, q.reply.version)
    <3>1. Answer(r, "error", <<>>)
      BY <1>1, <1>8, <2>3 DEF GetReplied
    <3>2. "error" \notin {"found", "null"}
      OBVIOUS
    <3> QED
      BY <1>1, <1>3, <1>4, <1>5, <3>1, <3>2, AnswerKeepsInv
  <2>4. CASE q.reply.version # 0 /\ Parsed(q.id, q.reply.version)
    <3>1. Answer(r, "found", data)
      BY <1>1, <1>8, <2>1, <2>4 DEF GetReplied
    <3> QED
      BY <1>6, <2>1, <3>1
  <2> QED
    BY <2>2, <2>3, <2>4
<1> QED
  BY <1>7, <1>8

LEMMA RecommendedKeepsInv ==
  ASSUME RegistryInv, NEW r \in Requests, Recommended(r)
  PROVE  RegistryInv'
<1>1. PICK q : q = asks[r]
  OBVIOUS
<1>2. /\ q.stage = "replied" /\ q.want \in {"summary", "page"} /\ q.want \in OneVersion
      /\ Send(r, "artifact", q.id, q.reply.version, q.data)
  BY <1>1 DEF Recommended, OneVersion
<1>3. /\ q.id \in LoopNames /\ q.reply.version \in Nat /\ kind = "v0"
      /\ Seen(q.id, q.reply.version, q.began) /\ Still(q.id, q.reply.version, q.began)
  BY <1>1, <1>2, RepliedCall DEF ReplyWasTrue, AskedRightly
<1>4. Quiet /\ cached' = cached
  BY DEF Recommended, Quiet
<1>5. CacheInv'
  BY <1>4, QuietGrows, CacheStays
<1>6. q.op = "list" => /\ DOMAIN q.data = LoopNames
                       /\ \A j \in LoopNames : j < q.id => Seen(j, q.data[j], q.began)
  <2>1. q.want = "summary" => q.op # "list"
    BY <1>1, <1>2, RepliedCall DEF AskedRightly
  <2> QED
    BY <1>1, <1>2, <2>1, RepliedCall DEF PagesWereThere
<1>7. q.stage \in UnderWay
  BY <1>2 DEF UnderWay
<1> QED
  BY <1>1, <1>2, <1>3, <1>4, <1>5, <1>6, <1>7, SendKeepsInv

(* The end of a list: its answer, and what it leaves in the cache.         *)
LEMMA ListedKeepsInv ==
  ASSUME RegistryInv, NEW r \in Requests, NEW data, asks[r].began \in 0..now, Listed(r, data),
         \/ \E i \in LoopNames : data[i] > 0 /\ ~Parsed(i, data[i])
         \/ DOMAIN data = LoopNames /\ \A i \in LoopNames : Seen(i, data[i], asks[r].began)
  PROVE  RegistryInv'
<1>1. Quiet /\ Grows
  BY QuietGrows DEF Listed, Quiet
<1>2. CASE \E i \in LoopNames : data[i] > 0 /\ ~Parsed(i, data[i])
  <2>1. Answer(r, "error", <<>>) /\ cached' = cached
    BY <1>2 DEF Listed
  <2>2. CacheInv'
    BY <1>1, <2>1, CacheStays
  <2>3. "error" \notin {"found", "null"}
    OBVIOUS
  <2> QED
    BY <1>1, <2>1, <2>2, <2>3, AnswerKeepsInv
<1>3. CASE ~\E i \in LoopNames : data[i] > 0 /\ ~Parsed(i, data[i])
  <2>1. /\ Answer(r, "found", data)
        /\ cached' = IF Ttl > 0 THEN Entry(r, data) ELSE cached
    BY <1>3 DEF Listed
  <2>2. DOMAIN data = LoopNames /\ \A i \in LoopNames : Seen(i, data[i], asks[r].began)
    BY <1>3
  <2>3. \A i \in DOMAIN data : Recent(i, data[i], asks[r].began)
    BY <2>2, SeenIsRecent
  <2>4. CacheInv'
    <3>1. CASE Ttl > 0
      <4>1. PICK b : b = asks[r].began
        OBVIOUS
      <4>2. PICK c : c = [data |-> data, until |-> b + Ttl]
        OBVIOUS
      <4>3. cached' = c /\ c.data = data /\ c.until = b + Ttl
        BY <2>1, <3>1, <4>1, <4>2 DEF Entry
      <4>4. b \in Int /\ Ttl \in Int /\ b + Ttl - Ttl = b
        BY <4>1, RegistryAssumption DEF RegistryInv
      <4>5. \A i \in LoopNames : Seen(i, data[i], b)'
        BY <1>1, <2>2, <4>1, SeenStays
      <4> QED
        BY <2>2, <4>3, <4>4, <4>5 DEF CacheInv
    <3>2. CASE ~(Ttl > 0)
      BY <1>1, <2>1, <3>2, CacheStays
    <3> QED
      BY <3>1, <3>2
  <2> QED
    BY <1>1, <2>1, <2>3, <2>4, AnswerKeepsInv
<1> QED
  BY <1>2, <1>3

LEMMA ListReplyKeepsInv ==
  ASSUME RegistryInv, NEW r \in Requests, ListReplied(r)
  PROVE  RegistryInv'
<1>1. PICK q : q = asks[r]
  OBVIOUS
<1>2. q.stage = "replied" /\ q.want = "list"
  BY <1>1 DEF ListReplied
<1>3. PICK data : data = q.reply
  OBVIOUS
<1>4. Listed(r, data)
  BY <1>1, <1>3 DEF ListReplied
<1>5. q.began \in 0..now /\ DOMAIN data = LoopNames /\ \A i \in LoopNames : Seen(i, data[i], q.began)
  BY <1>1, <1>2, <1>3, RepliedCall DEF ReplyWasTrue
<1> QED
  BY <1>1, <1>4, <1>5, ListedKeepsInv

LEMMA PageKeepsInv ==
  ASSUME RegistryInv, NEW r \in Requests, PageDone(r)
  PROVE  RegistryInv'
<1>1. PICK q : q = asks[r]
  OBVIOUS
<1>2. PICK later : later = {j \in LoopNames : j > q.id}
  OBVIOUS
<1>3. PICK data : data = [q.data EXCEPT ![q.id] = q.reply.version]
  OBVIOUS
<1>4. /\ q.stage = "replied" /\ q.op = "list" /\ q.want \in {"artifact", "page"} /\ q.want \in OneVersion
      /\ IF later = {} \/ (data[q.id] > 0 /\ ~Parsed(q.id, data[q.id]))
         THEN Listed(r, data)
         ELSE /\ Send(r, "page", CHOOSE i \in later : \A j \in later : i <= j, 0, data)
              /\ UNCHANGED <<kind, now, catalog, held, cached, losses, published>>
  BY <1>1, <1>2, <1>3 DEF PageDone, OneVersion
<1>5. /\ q.id \in LoopNames /\ q.began \in 0..now /\ kind = "v0"
      /\ DOMAIN q.data = LoopNames /\ \A j \in LoopNames : j < q.id => Seen(j, q.data[j], q.began)
      /\ Seen(q.id, q.reply.version, q.began)
  BY <1>1, <1>4, RepliedCall DEF ReplyWasTrue, PagesWereThere, AskedRightly
<1>6. LoopNames \subseteq Nat
  BY RegistryAssumption
<1>7. /\ DOMAIN data = LoopNames
      /\ \A j \in LoopNames : j <= q.id => Seen(j, data[j], q.began)
  BY <1>3, <1>5, <1>6
<1>8. CASE data[q.id] > 0 /\ ~Parsed(q.id, data[q.id])
  <2>1. Listed(r, data) /\ \E i \in LoopNames : data[i] > 0 /\ ~Parsed(i, data[i])
    BY <1>4, <1>5, <1>8
  <2> QED
    BY <1>1, <1>5, <2>1, ListedKeepsInv
<1>9. CASE later = {}
  <2>1. Listed(r, data)
    BY <1>4, <1>9
  <2>2. \A i \in LoopNames : i <= q.id
    BY <1>2, <1>5, <1>6, <1>9
  <2>3. \A i \in LoopNames : Seen(i, data[i], q.began)
    BY <1>7, <2>2
  <2> QED
    BY <1>1, <1>5, <1>7, <2>1, <2>3, ListedKeepsInv
<1>10. CASE later # {} /\ ~(data[q.id] > 0 /\ ~Parsed(q.id, data[q.id]))
  <2>1. PICK next : next = CHOOSE i \in later : \A j \in later : i <= j
    OBVIOUS
  <2>2. \E i \in later : \A j \in later : i <= j
    <3>1. later \in SUBSET Nat /\ later # {}
      BY <1>2, <1>6, <1>10
    <3> QED
      BY <3>1, LeastNumber
  <2>3. next \in later /\ \A j \in later : next <= j
    BY <2>1, <2>2
  <2>4. next \in LoopNames /\ \A j \in LoopNames : j < next => j <= q.id
    <3>1. next \in LoopNames /\ next \in Nat /\ q.id \in Nat
      BY <1>2, <1>5, <1>6, <2>3
    <3>2. ASSUME NEW j \in LoopNames, j < next PROVE j <= q.id
      <4>1. j \in Nat /\ j \notin later
        BY <1>6, <2>3, <3>1, <3>2
      <4> QED
        BY <1>2, <3>1, <4>1
    <3> QED
      BY <3>1, <3>2
  <2>5. Send(r, "page", next, 0, data) /\ Quiet /\ cached' = cached
    BY <1>4, <1>10, <2>1 DEF Quiet
  <2>6. CacheInv'
    BY <2>5, QuietGrows, CacheStays
  <2>7. q.stage \in UnderWay
    BY <1>4 DEF UnderWay
  <2>8. \A j \in LoopNames : j < next => Seen(j, data[j], q.began)
    BY <1>7, <2>4
  <2> QED
    BY <1>1, <1>4, <1>5, <1>7, <2>4, <2>5, <2>6, <2>7, <2>8, SendKeepsInv
<1> QED
  BY <1>8, <1>9, <1>10

LEMMA ChangeReplyKeepsInv ==
  ASSUME RegistryInv, NEW r \in Requests, ChangeReplied(r)
  PROVE  RegistryInv'
<1>1. PICK q : q = asks[r]
  OBVIOUS
<1>2. q.stage = "replied" /\ q.want \in {"post", "delete"} /\ q.began \in 0..now
  BY <1>1, RepliedCall DEF ChangeReplied
<1>3. Quiet /\ Grows
  BY QuietGrows DEF ChangeReplied, Quiet
<1>4. CacheInv'
  <2>1. CASE cached' = cached
    BY <1>3, <2>1, CacheStays
  <2>2. CASE cached' = NoList
    BY <2>2 DEF CacheInv
  <2> QED
    BY <2>1, <2>2 DEF ChangeReplied
<1>5. q.reply.status \in {201, 204, 404, 409}
  BY <1>1, <1>2, RepliedCall DEF ReplyWasTrue
<1>6. PICK result \in {"ok", "conflict", "false"} : Answer(r, result, <<>>)
  BY <1>1, <1>5 DEF ChangeReplied
<1>7. result \notin {"found", "null"}
  OBVIOUS
<1> QED
  BY <1>1, <1>2, <1>3, <1>4, <1>6, <1>7, AnswerKeepsInv

(* Whatever a registry client answers of a loop, its version or its        *)
(* absence, the server held at some time of the call or less than a time   *)
(* to live before it, for any catalog, time to live, number of calls,      *)
(* retries, losses and publications (http.ts, v0.ts).                      *)
THEOREM RegistryAnswersAreFresh == RegistrySpec => []DefinitionsAreFresh
<1>1. RegistryInit => RegistryInv
  <2> SUFFICES ASSUME RegistryInit PROVE RegistryInv
    OBVIOUS
  <2>1. MaxTime \in Nat /\ MaxVersion \in Nat /\ FirstCatalog \in [LoopNames -> 0..MaxVersion]
    BY RegistryAssumption
  <2>2. catalog \in [LoopNames -> Nat] /\ now = 0 /\ kind \in {"flat", "v0"} /\ cached = NoList
    BY <2>1 DEF RegistryInit
  <2>3. DOMAIN held = 0..MaxTime /\ \A i \in LoopNames : <<i, catalog[i]>> \in held[now]
    BY <2>1 DEF RegistryInit
  <2>4. PICK idle : idle = Idle
    OBVIOUS
  <2>5. DOMAIN idle = AskFields /\ idle.stage = "idle"
    BY <2>4 DEF Idle, AskFields
  <2>6. AskInv(idle)
    BY <2>5 DEF AskInv, Stages, UnderWay
  <2>7. DOMAIN asks = Requests /\ \A r \in Requests : asks[r] = idle
    BY <2>4 DEF RegistryInit
  <2> QED
    BY <2>1, <2>2, <2>3, <2>6, <2>7 DEF RegistryInv, CacheInv
<1>2. RegistryInv /\ [RegistryNext]_registryVars => RegistryInv'
  <2> SUFFICES ASSUME RegistryInv, [RegistryNext]_registryVars PROVE RegistryInv'
    OBVIOUS
  <2>1. CASE UNCHANGED registryVars
    BY <2>1 DEF registryVars, RegistryInv, CacheInv, AskInv, AskedRightly, ArtifactWasThere, Still,
                PagesWereThere, ReplyWasTrue, Seen, Recent
  <2>2. ASSUME NEW r \in Requests, RegistryStep(r) PROVE RegistryInv'
    BY <2>2, ServeKeepsInv, GetReplyKeepsInv, RecommendedKeepsInv, ListReplyKeepsInv, PageKeepsInv,
       ChangeReplyKeepsInv DEF RegistryStep
  <2>3. ASSUME NEW r \in Requests,
               Lose(r) \/ Refused(r) \/ List(r) \/ \E i \in LoopNames : Get(r, i)
        PROVE  RegistryInv'
    BY <2>3, LoseKeepsInv, RefusedEndsCall, ListKeepsInv, GetKeepsInv
  <2>4. ASSUME NEW r \in Requests, NEW i \in LoopNames, NEW v \in 1..MaxVersion, Change(r, "register", i, v)
        PROVE  RegistryInv'
    <3>1. v \in Nat /\ "register" \in {"register", "remove"}
      BY RegistryAssumption
    <3> QED
      BY <2>4, <3>1, ChangeKeepsInv
  <2>5. ASSUME NEW r \in Requests, NEW i \in LoopNames, Change(r, "remove", i, 0)
        PROVE  RegistryInv'
    <3>1. 0 \in Nat /\ "remove" \in {"register", "remove"}
      OBVIOUS
    <3> QED
      BY <2>5, <3>1, ChangeKeepsInv
  <2> QED
    BY <2>1, <2>2, <2>3, <2>4, <2>5, WorldKeepsInv DEF RegistryNext
<1>3. RegistryInv => DefinitionsAreFresh
  BY DEF RegistryInv, AskInv, DefinitionsAreFresh, Recent
<1> QED
  BY <1>1, <1>2, <1>3, PTL DEF RegistrySpec

-----------------------------------------------------------------------------
(* DefinitionResolver.                                                     *)

(* A finite set of naturals with a member has a greatest one.              *)
LEMMA GreatestNumber ==
  ASSUME NEW S \in SUBSET Nat, S # {}, IsFiniteSet(S)
  PROVE  \E n \in S : \A m \in S : m <= n
<1> DEFINE Bad == {U \in SUBSET S : U # {} /\ ~\E n \in U : \A m \in U : m <= n}
           T == {Cardinality(U) : U \in Bad}
<1>1. \A U \in SUBSET S : IsFiniteSet(U) /\ Cardinality(U) \in Nat
  BY FS_Subset, FS_CardinalityType
<1>2. ASSUME Bad # {} PROVE FALSE
  <2>1. T \in SUBSET Nat /\ T # {}
    BY <1>1, <1>2
  <2>0. \A U \in Bad : Cardinality(U) \in T
    <3> HIDE DEF Bad
    <3> QED
      OBVIOUS
  <2> HIDE DEF T
  <2>2. PICK k \in T : \A m \in T : k <= m
    BY <2>1, LeastNumber
  <2>3. PICK U \in Bad : k = Cardinality(U)
    BY <2>2 DEF T
  <2>4. PICK x : x \in U
    BY <2>3
  <2>5. PICK V : V = U \ {x}
    OBVIOUS
  <2>6. V \in SUBSET S /\ Cardinality(V) = Cardinality(U) - 1 /\ U = V \cup {x} /\ x \in Nat
    BY <1>1, <2>3, <2>4, <2>5, FS_RemoveElement
  <2>7. V \notin Bad
    <3>1. Cardinality(V) < Cardinality(U)
      BY <1>1, <2>3, <2>6
    <3>2. Cardinality(V) \in Nat /\ k \in Nat
      BY <1>1, <2>1, <2>2, <2>6
    <3> HIDE DEF Bad
    <3>3. V \in Bad => k <= Cardinality(V)
      BY <2>0, <2>2
    <3>4. ~(k <= Cardinality(V))
      BY <2>3, <3>1, <3>2
    <3> QED
      BY <3>3, <3>4
  <2>8. CASE V = {}
    <3>1. \A m \in U : m <= x
      BY <2>6, <2>8
    <3> QED
      BY <2>3, <2>4, <3>1
  <2>9. CASE V # {}
    <3>1. PICK n \in V : \A m \in V : m <= n
      BY <2>6, <2>7, <2>9
    <3>2. n \in Nat /\ V \subseteq Nat /\ n \in U
      BY <2>6
    <3>3. CASE x <= n
      <4>1. \A m \in U : m <= n
        BY <2>6, <3>1, <3>3
      <4> QED
        BY <2>3, <3>2, <4>1
    <3>4. CASE ~(x <= n)
      <4>1. \A m \in U : m <= x
        BY <2>6, <3>1, <3>2, <3>4
      <4> QED
        BY <2>3, <2>4, <4>1
    <3> QED
      BY <3>3, <3>4
  <2> QED
    BY <2>8, <2>9
<1>3. S \notin Bad
  BY <1>2
<1> QED
  BY <1>3

RequestFields ==
  {"stage", "op", "id", "version", "given", "rows", "found", "failed", "answer", "always", "seen"}

OneEach(S) == \A d, e \in S : d[1] = e[1] => d = e

Heads(S) == {d[1] : d \in S}

(* What was published during the call, and passes the validator.           *)
Vouched(q, S) == \A d \in S : d \in q.seen /\ Valid(d)

(* What the registry and the rows hold is witnessed by the call.           *)
Witnesses(q) ==
  /\ q.always \subseteq Heads({e \in Served(active) : Valid(e)})
  /\ Served(active) \subseteq q.seen
  /\ \A i \in Ids : <<i, summaries[i].latest>> \in q.seen /\ <<i, summaries[i].stable>> \in q.seen

(* A list with a registry, behind its rows.                                *)
Listing(q) ==
  /\ origin /\ ~q.failed
  /\ Vouched(q, q.rows) /\ Vouched(q, q.found)
  /\ q.always \subseteq Heads(q.rows)
  /\ OneEach(q.found)
  /\ \A d \in q.found : d[1] \in Ids
  /\ q.stage # "merge" => q.id \in Ids /\ \A d \in q.found : d[1] < q.id

OpOf(q) ==
  /\ q.stage \in {"page", "merge"} => q.op = "list"
  /\ q.stage = "summary" => q.op = "resolve"
  /\ q.stage = "listing" => q.op = "system"
  /\ q.stage \in {"rows", "artifact"} => q.op \in {"list", "resolve"}
  /\ q.op = "resolve" => q.id \in Ids
  /\ q.op = "system" => OneEach(q.given)
  /\ q.op = "list" /\ q.stage = "rows" => ~q.failed /\ q.found = {}

AnswerHolds(q) ==
  /\ q.op = "list" =>
       /\ q.always \subseteq Heads(q.answer)
       /\ Vouched(q, q.answer)
       /\ origin /\ ~q.failed => OneEach(q.answer)
  /\ q.op = "resolve" => (q.id \in q.always => q.answer # {}) /\ q.answer \subseteq q.seen
  /\ q.op = "system" /\ q.answer # Nothing =>
       /\ q.given \subseteq q.answer
       /\ OneEach(q.answer) /\ \A d \in q.answer : Valid(d)

CallInv(q) ==
  /\ DOMAIN q = RequestFields
  /\ q.stage \in {"idle", "rows", "page", "artifact", "merge", "summary", "listing", "answered", "threw"}
  /\ OpOf(q)
  /\ q.stage \notin {"idle", "answered", "threw"} => Witnesses(q)
  /\ q.op = "list" /\ q.stage \in {"page", "artifact", "merge"} => Listing(q)
  /\ q.stage = "artifact" => <<q.id, q.version>> \in q.seen
  /\ q.stage = "answered" => AnswerHolds(q)

ResolverInv ==
  /\ active \in [Ids -> SUBSET Rows]
  /\ summaries \in [Ids -> Summaries]
  /\ CallInv(request)

(* Whatever follows of a step that writes the call alone.                  *)
LEMMA BecomesKeepsInv ==
  ASSUME ResolverInv, NEW q, CallInv(q), Becomes(q)
  PROVE  ResolverInv'
<1>1. request' = q /\ UNCHANGED <<origin, summaries, active>>
  BY DEF Becomes
<1>2. Witnesses(q)' = Witnesses(q) /\ Listing(q)' = Listing(q) /\ AnswerHolds(q)' = AnswerHolds(q)
  BY <1>1 DEF Witnesses, Listing, AnswerHolds, Served, Vouched
<1> QED
  BY <1>1, <1>2 DEF ResolverInv, CallInv

(* A call of which nothing is claimed but what it saw, and its operation.  *)
LEMMA StartKeepsInv ==
  ASSUME ResolverInv, NEW p, DOMAIN p = RequestFields, p.stage \in {"rows", "summary", "listing"},
         OpOf(p), Starts(p)
  PROVE  ResolverInv'
<1> DEFINE a == Heads({e \in Served(active) : Valid(e)})
           s == Served(active) \cup {<<i, summaries[i].latest>> : i \in Ids}
                  \cup {<<i, summaries[i].stable>> : i \in Ids}
<1>1. PICK q : q = [p EXCEPT !.always = a, !.seen = s]
  OBVIOUS
<1>2. Becomes(q)
  BY <1>1 DEF Starts, Heads
<1> HIDE DEF a, s
<1>3. /\ DOMAIN q = RequestFields /\ q.always = a /\ q.seen = s
      /\ q.stage = p.stage /\ q.op = p.op /\ q.id = p.id /\ q.given = p.given
      /\ q.failed = p.failed /\ q.found = p.found
  BY <1>1 DEF RequestFields
<1>4. Witnesses(q)
  BY <1>3 DEF Witnesses, a, s
<1>5. OpOf(q)
  BY <1>3 DEF OpOf
<1>6. CallInv(q)
  BY <1>3, <1>4, <1>5 DEF CallInv
<1> QED
  BY <1>2, <1>6, BecomesKeepsInv

LEMMA PickIsOne ==
  ASSUME NEW s
  PROVE  Pick(s) = s.latest \/ Pick(s) = s.stable
BY DEF Pick

(* The registry and the rows change: what was there all along is fewer,    *)
(* what was seen is more.                                                  *)
LEMMA EditKeepsInv ==
  ASSUME ResolverInv, Edit
  PROVE  ResolverInv'
<1>1. CallInv(request) /\ request.stage \notin {"idle", "answered", "threw"} /\ origin' = origin
  BY DEF ResolverInv, Edit
<1>2. active' \in [Ids -> SUBSET Rows] /\ summaries' \in [Ids -> Summaries]
  BY DEF ResolverInv, Edit
<1> DEFINE a == Heads({e \in Served(active)' : Valid(e)})
           s == Served(active)' \cup {<<i, summaries'[i].latest>> : i \in Ids}
                  \cup {<<i, summaries'[i].stable>> : i \in Ids}
<1>3. PICK q : q = [request EXCEPT !.always = request.always \cap a, !.seen = request.seen \cup s]
  OBVIOUS
<1>4. request' = q
  <2>1. Served(active') = Served(active)'
    BY DEF Served
  <2>2. request' = Witnessed(summaries', active')
    BY DEF Edit
  <2> QED
    BY <1>1, <1>3, <2>1, <2>2 DEF Witnessed, Heads, CallInv, RequestFields
<1>5. /\ (Heads({e \in Served(active) : Valid(e)}))' = a
      /\ \A i \in Ids : <<i, summaries'[i].latest>> \in s /\ <<i, summaries'[i].stable>> \in s
      /\ Served(active)' \subseteq s
  BY DEF Heads, Valid
<1> HIDE DEF a, s
<1>6. /\ DOMAIN q = RequestFields /\ q.always = request.always \cap a /\ q.seen = request.seen \cup s
      /\ \A f \in RequestFields \ {"always", "seen"} : q[f] = request[f]
  BY <1>1, <1>3 DEF CallInv, RequestFields
<1>7. /\ q.stage = request.stage /\ q.op = request.op /\ q.id = request.id /\ q.given = request.given
      /\ q.rows = request.rows /\ q.found = request.found /\ q.failed = request.failed
      /\ q.version = request.version
  BY <1>6 DEF RequestFields
<1>8. OpOf(q)' /\ Witnesses(q)'
  BY <1>1, <1>5, <1>6, <1>7 DEF CallInv, OpOf, Witnesses
<1>9. q.op = "list" /\ q.stage \in {"page", "artifact", "merge"} => Listing(q)'
  BY <1>1, <1>6, <1>7 DEF CallInv, Listing, Vouched, Heads
<1>10. q.stage = "artifact" => <<q.id, q.version>> \in q.seen
  BY <1>1, <1>6, <1>7 DEF CallInv
<1>11. CallInv(q)'
  BY <1>1, <1>6, <1>7, <1>8, <1>9, <1>10 DEF CallInv
<1> QED
  BY <1>2, <1>4, <1>11 DEF ResolverInv

LEMMA StartsKeepInv ==
  ASSUME ResolverInv, CallList \/ (\E i \in Ids : CallResolve(i)) \/ \E loops \in Given : CallSystem(loops)
  PROVE  ResolverInv'
<1>1. PICK none : none = NoRequest
  OBVIOUS
<1>2. DOMAIN none = RequestFields
  BY <1>1 DEF NoRequest, RequestFields
<1>0. ~none.failed /\ none.found = {}
  BY <1>1 DEF NoRequest
<1>3. CASE CallList
  <2>1. PICK p : p = [none EXCEPT !.op = "list", !.stage = "rows"]
    OBVIOUS
  <2>2. Starts(p)
    BY <1>1, <1>3, <2>1 DEF CallList
  <2>3. DOMAIN p = RequestFields /\ p.op = "list" /\ p.stage = "rows" /\ ~p.failed /\ p.found = {}
    BY <1>0, <1>2, <2>1 DEF RequestFields
  <2>4. OpOf(p)
    BY <2>3 DEF OpOf
  <2> QED
    BY <2>2, <2>3, <2>4, StartKeepsInv
<1>4. ASSUME NEW i \in Ids, CallResolve(i) PROVE ResolverInv'
  <2>1. PICK p : p = [none EXCEPT !.op = "resolve", !.id = i, !.stage = IF origin THEN "summary" ELSE "rows"]
    OBVIOUS
  <2>2. Starts(p)
    BY <1>1, <1>4, <2>1 DEF CallResolve
  <2>3. DOMAIN p = RequestFields /\ p.op = "resolve" /\ p.id = i /\ p.stage \in {"summary", "rows"}
    BY <1>2, <2>1 DEF RequestFields
  <2>4. OpOf(p)
    BY <2>3 DEF OpOf
  <2> QED
    BY <2>2, <2>3, <2>4, StartKeepsInv
<1>5. ASSUME NEW loops \in Given, CallSystem(loops) PROVE ResolverInv'
  <2>1. PICK p : p = [none EXCEPT !.op = "system", !.stage = "listing", !.given = loops]
    OBVIOUS
  <2>2. Starts(p)
    BY <1>1, <1>5, <2>1 DEF CallSystem
  <2>3. DOMAIN p = RequestFields /\ p.op = "system" /\ p.stage = "listing" /\ p.given = loops
    BY <1>2, <2>1 DEF RequestFields
  <2>4. OneEach(loops)
    BY DEF Given, OneEach
  <2>5. OpOf(p)
    BY <2>3, <2>4 DEF OpOf
  <2> QED
    BY <2>2, <2>3, <2>5, StartKeepsInv
<1> QED
  BY <1>3, <1>4, <1>5

(* A call answers: what AnswerHolds asks of the answer, with the rest as   *)
(* it was.                                                                 *)
LEMMA AnswersKeepsInv ==
  ASSUME ResolverInv, NEW result, Answers(result),
         request.op = "list" =>
           /\ request.always \subseteq Heads(result)
           /\ Vouched(request, result)
           /\ origin /\ ~request.failed => OneEach(result),
         request.op = "resolve" => (request.id \in request.always => result # {}) /\ result \subseteq request.seen,
         request.op = "system" /\ result # Nothing =>
           request.given \subseteq result /\ OneEach(result) /\ \A d \in result : Valid(d)
  PROVE  ResolverInv'
<1>1. PICK q : q = [request EXCEPT !.stage = "answered", !.answer = result]
  OBVIOUS
<1>2. Becomes(q)
  BY <1>1 DEF Answers
<1>3. CallInv(request)
  BY DEF ResolverInv
<1>4. /\ DOMAIN q = RequestFields /\ q.stage = "answered" /\ q.answer = result
      /\ q.op = request.op /\ q.id = request.id /\ q.given = request.given
      /\ q.always = request.always /\ q.seen = request.seen /\ q.failed = request.failed
  BY <1>1, <1>3 DEF CallInv, RequestFields
<1>5. OpOf(q)
  BY <1>3, <1>4 DEF CallInv, OpOf
<1>6. AnswerHolds(q)
  BY <1>4 DEF AnswerHolds, Vouched
<1>7. CallInv(q)
  BY <1>4, <1>5, <1>6 DEF CallInv
<1> QED
  BY <1>2, <1>7, BecomesKeepsInv

LEMMA LoadLocalKeepsInv ==
  ASSUME ResolverInv, LoadLocal
  PROVE  ResolverInv'
<1> DEFINE rows == {d \in Served(active) : Valid(d)}
<1>1. CallInv(request) /\ request.stage = "rows" /\ request.op = "list"
  BY DEF ResolverInv, LoadLocal
<1>2. Vouched(request, rows) /\ request.always \subseteq Heads(rows)
  BY <1>1 DEF CallInv, Witnesses, Vouched
<1>3. CASE origin
  <2>1. PICK q : q = [request EXCEPT !.stage = "page", !.id = 1, !.rows = rows]
    OBVIOUS
  <2>2. Becomes(q)
    BY <1>1, <1>3, <2>1 DEF LoadLocal
  <2>3. 1 \in Ids
    BY ResolverAssumption DEF Ids
  <2> HIDE DEF rows
  <2>4. /\ DOMAIN q = RequestFields /\ q.stage = "page" /\ q.id = 1 /\ q.rows = rows
        /\ q.op = "list" /\ q.given = request.given /\ q.found = {} /\ ~q.failed
        /\ q.always = request.always /\ q.seen = request.seen
    BY <1>1, <2>1 DEF CallInv, OpOf, RequestFields
  <2>5. Witnesses(q) /\ OpOf(q)
    BY <1>1, <2>4 DEF CallInv, Witnesses, OpOf
  <2>6. Vouched(q, q.rows) /\ Vouched(q, q.found) /\ OneEach(q.found)
    BY <1>2, <2>4 DEF Vouched, OneEach
  <2>7. Listing(q)
    BY <1>2, <1>3, <2>3, <2>4, <2>6 DEF Listing
  <2>8. CallInv(q)
    BY <2>4, <2>5, <2>7 DEF CallInv
  <2> QED
    BY <2>2, <2>8, BecomesKeepsInv
<1>4. CASE ~origin
  <2>1. Answers(rows)
    BY <1>4 DEF LoadLocal
  <2> HIDE DEF rows
  <2> QED
    BY <1>1, <1>2, <1>4, <2>1, AnswersKeepsInv
<1> QED
  BY <1>3, <1>4

LEMMA RowsFailKeepsInv ==
  ASSUME ResolverInv, RowsFail
  PROVE  ResolverInv'
<1>1. PICK q : q = [request EXCEPT !.stage = "threw", !.failed = TRUE]
  OBVIOUS
<1>2. Becomes(q)
  BY <1>1 DEF RowsFail
<1>3. CallInv(request) /\ request.stage = "rows"
  BY DEF ResolverInv, RowsFail
<1>4. DOMAIN q = RequestFields /\ q.stage = "threw" /\ q.op = request.op /\ q.id = request.id
      /\ q.given = request.given
  BY <1>1, <1>3 DEF CallInv, RequestFields
<1>5. OpOf(q)
  BY <1>3, <1>4 DEF CallInv, OpOf
<1>6. CallInv(q)
  BY <1>4, <1>5 DEF CallInv
<1> QED
  BY <1>2, <1>6, BecomesKeepsInv

(* On to the next page, or to the merge, with what was found up to here.   *)
LEMMA NextPageKeepsInv ==
  ASSUME ResolverInv, NEW p, DOMAIN p = RequestFields, p.op = "list", Witnesses(p), origin, ~p.failed,
         Vouched(p, p.rows), Vouched(p, p.found), p.always \subseteq Heads(p.rows), OneEach(p.found),
         p.id \in Ids, \A d \in p.found : d[1] \in Ids /\ d[1] <= p.id, Becomes(NextPage(p))
  PROVE  ResolverInv'
<1>1. Loops \in Nat /\ Ids = 1..Loops
  BY ResolverAssumption DEF Ids
<1>2. CASE p.id < Loops
  <2>1. PICK q : q = [p EXCEPT !.stage = "page", !.id = p.id + 1]
    OBVIOUS
  <2>2. Becomes(q)
    BY <1>2, <2>1 DEF NextPage
  <2>3. /\ DOMAIN q = RequestFields /\ q.stage = "page" /\ q.id = p.id + 1
        /\ q.op = "list" /\ q.given = p.given /\ q.rows = p.rows /\ q.found = p.found
        /\ q.failed = p.failed /\ q.always = p.always /\ q.seen = p.seen
    BY <2>1 DEF RequestFields
  <2>4. q.id \in Ids /\ \A d \in q.found : d[1] \in Ids /\ d[1] < q.id
    BY <1>1, <1>2, <2>3
  <2>5. Witnesses(q) /\ OpOf(q) /\ Vouched(q, q.rows) /\ Vouched(q, q.found)
    BY <2>3 DEF Witnesses, OpOf, Vouched
  <2>6. Listing(q)
    BY <2>3, <2>4, <2>5 DEF Listing
  <2>7. CallInv(q)
    BY <2>3, <2>5, <2>6 DEF CallInv
  <2> QED
    BY <2>2, <2>7, BecomesKeepsInv
<1>3. CASE ~(p.id < Loops)
  <2>1. PICK q : q = [p EXCEPT !.stage = "merge"]
    OBVIOUS
  <2>2. Becomes(q)
    BY <1>3, <2>1 DEF NextPage
  <2>3. /\ DOMAIN q = RequestFields /\ q.stage = "merge"
        /\ q.op = "list" /\ q.given = p.given /\ q.rows = p.rows /\ q.found = p.found
        /\ q.failed = p.failed /\ q.always = p.always /\ q.seen = p.seen
    BY <2>1 DEF RequestFields
  <2>4. Witnesses(q) /\ OpOf(q) /\ Vouched(q, q.rows) /\ Vouched(q, q.found)
    BY <2>3 DEF Witnesses, OpOf, Vouched
  <2>5. Listing(q)
    BY <2>3, <2>4 DEF Listing
  <2>6. CallInv(q)
    BY <2>3, <2>4, <2>5 DEF CallInv
  <2> QED
    BY <2>2, <2>6, BecomesKeepsInv
<1> QED
  BY <1>2, <1>3

LEMMA FoundIds ==
  ASSUME ResolverInv, Listing(request), request.stage # "merge"
  PROVE  request.id \in Ids /\ \A d \in request.found : d[1] \in Ids /\ d[1] < request.id
BY DEF Listing

(* What the channel recommends is a version the call has seen.             *)
LEMMA PickIsSeen ==
  ASSUME NEW q, Witnesses(q), NEW i \in Ids
  PROVE  <<i, Pick(summaries[i])>> \in q.seen
BY PickIsOne DEF Witnesses

LEMMA PageKeepsListInv ==
  ASSUME ResolverInv, Page
  PROVE  ResolverInv'
<1>1. CallInv(request) /\ request.stage = "page" /\ request.op = "list" /\ Listing(request) /\ Witnesses(request)
  BY DEF ResolverInv, Page, CallInv, OpOf
<1>2. PICK v : v = Pick(summaries[request.id])
  OBVIOUS
<1>3. request.id \in Ids
  BY <1>1, FoundIds
<1>4. CASE v = 0
  <2>1. Becomes(NextPage(request))
    BY <1>2, <1>4 DEF Page
  <2>2. \A d \in request.found : d[1] \in Ids /\ d[1] <= request.id
    BY <1>1, <1>3, FoundIds, ResolverAssumption DEF Ids
  <2> QED
    BY <1>1, <1>3, <2>1, <2>2, NextPageKeepsInv DEF CallInv, Listing
<1>5. CASE v # 0
  <2>1. PICK q : q = [request EXCEPT !.stage = "artifact", !.version = v]
    OBVIOUS
  <2>2. Becomes(q)
    BY <1>2, <1>5, <2>1 DEF Page
  <2>3. /\ DOMAIN q = RequestFields /\ q.stage = "artifact" /\ q.id = request.id /\ q.version = v
        /\ q.op = "list" /\ q.given = request.given /\ q.rows = request.rows /\ q.found = request.found
        /\ q.failed = request.failed /\ q.always = request.always /\ q.seen = request.seen
    BY <1>1, <2>1 DEF CallInv, RequestFields
  <2>4. <<q.id, q.version>> \in q.seen
    BY <1>1, <1>2, <1>3, <2>3, PickIsSeen
  <2>5. Witnesses(q) /\ OpOf(q)
    BY <1>1, <1>3, <2>3 DEF Witnesses, OpOf
  <2>6. Listing(q)
    BY <1>1, <2>3 DEF Listing, Vouched
  <2>7. CallInv(q)
    BY <2>3, <2>4, <2>5, <2>6 DEF CallInv
  <2> QED
    BY <2>2, <2>7, BecomesKeepsInv
<1> QED
  BY <1>4, <1>5

(* The artifact of a page joins what was found: the only one of its loop,  *)
(* the loops being taken in order.                                         *)
LEMMA ListArtifactKeepsInv ==
  ASSUME ResolverInv, ListArtifact
  PROVE  ResolverInv'
<1>1. /\ CallInv(request) /\ request.stage = "artifact" /\ request.op = "list"
      /\ Listing(request) /\ Witnesses(request) /\ <<request.id, request.version>> \in request.seen
  BY DEF ResolverInv, ListArtifact, CallInv
<1>2. request.id \in Ids /\ \A d \in request.found : d[1] \in Ids /\ d[1] < request.id
  BY <1>1, FoundIds
<1>3. \A d \in request.found : d[1] \in Ids /\ d[1] <= request.id
  BY <1>2, ResolverAssumption DEF Ids
<1>4. CASE Artifact = Nothing
  <2>1. Becomes(NextPage(request))
    BY <1>4 DEF ListArtifact
  <2> QED
    BY <1>1, <1>2, <1>3, <2>1, NextPageKeepsInv DEF CallInv, Listing
<1>5. CASE Artifact # Nothing
  <2>1. PICK f : f = <<request.id, request.version>>
    OBVIOUS
  <2>2. Artifact = f /\ Valid(f) /\ f \in request.seen /\ f[1] = request.id
    BY <1>1, <1>5, <2>1 DEF Artifact
  <2>3. PICK p : p = [request EXCEPT !.found = request.found \cup {f}]
    OBVIOUS
  <2>4. Becomes(NextPage(p))
    BY <1>5, <2>2, <2>3 DEF ListArtifact
  <2>5. /\ DOMAIN p = RequestFields /\ p.found = request.found \cup {f} /\ p.stage = request.stage
        /\ p.op = "list" /\ p.id = request.id /\ p.given = request.given /\ p.rows = request.rows
        /\ p.failed = request.failed /\ p.always = request.always /\ p.seen = request.seen
    BY <1>1, <2>3 DEF CallInv, RequestFields
  <2>6. OneEach(p.found)
    <3>1. \A d \in request.found : d[1] # f[1]
      BY <1>2, <2>2, ResolverAssumption DEF Ids
    <3>2. OneEach(request.found)
      BY <1>1 DEF Listing
    <3> QED
      BY <2>5, <3>1, <3>2 DEF OneEach
  <2>7. Vouched(p, p.rows) /\ Vouched(p, p.found) /\ Witnesses(p)
    BY <1>1, <2>2, <2>5 DEF Vouched, Witnesses, Listing
  <2>8. p.always \subseteq Heads(p.rows) /\ origin /\ ~p.failed
    BY <1>1, <2>5 DEF Listing
  <2>9. p.id \in Ids /\ \A d \in p.found : d[1] \in Ids /\ d[1] <= p.id
    BY <1>2, <1>3, <2>2, <2>5, ResolverAssumption DEF Ids
  <2> QED
    BY <2>4, <2>5, <2>6, <2>7, <2>8, <2>9, NextPageKeepsInv
<1> QED
  BY <1>4, <1>5

(* The merge keeps one definition of every loop of either list.            *)
LEMMA MergeKeepsInv ==
  ASSUME ResolverInv, Merge
  PROVE  ResolverInv'
<1>1. CallInv(request) /\ request.stage = "merge" /\ request.op = "list" /\ Listing(request)
  BY DEF ResolverInv, Merge, CallInv, OpOf
<1>2. PICK rows \in Picks(request.rows) : Answers(Dedupe(request.found, rows))
  BY DEF Merge
<1>3. rows \subseteq request.rows /\ Heads(rows) = Heads(request.rows) /\ OneEach(rows)
  BY <1>2 DEF Picks, Heads, OneEach
<1>4. PICK result : result = Dedupe(request.found, rows)
  OBVIOUS
<1>5. request.always \subseteq Heads(result)
  BY <1>1, <1>3, <1>4 DEF Listing, Heads, Dedupe
<1>6. Vouched(request, result)
  BY <1>1, <1>3, <1>4 DEF Listing, Vouched, Dedupe
<1>7. OneEach(result)
  <2>1. OneEach(request.found)
    BY <1>1 DEF Listing
  <2> QED
    BY <1>3, <1>4, <2>1 DEF OneEach, Dedupe
<1>8. Answers(result)
  BY <1>2, <1>4
<1> QED
  BY <1>1, <1>5, <1>6, <1>7, <1>8, AnswersKeepsInv

LEMMA ListFailsKeepsInv ==
  ASSUME ResolverInv, ListFails
  PROVE  ResolverInv'
<1>1. CallInv(request) /\ request.stage \in {"page", "artifact"} /\ request.op = "list" /\ Listing(request)
  BY DEF ResolverInv, ListFails, CallInv
<1>2. PICK q : q = [request EXCEPT !.stage = "answered", !.failed = TRUE, !.answer = request.rows]
  OBVIOUS
<1>3. Becomes(q)
  BY <1>2 DEF ListFails
<1>4. /\ DOMAIN q = RequestFields /\ q.stage = "answered" /\ q.answer = request.rows /\ q.failed
      /\ q.op = "list" /\ q.always = request.always /\ q.seen = request.seen
  BY <1>1, <1>2 DEF CallInv, RequestFields
<1>5. OpOf(q) /\ AnswerHolds(q)
  BY <1>1, <1>4 DEF OpOf, AnswerHolds, Listing, Vouched
<1>6. CallInv(q)
  BY <1>4, <1>5 DEF CallInv
<1> QED
  BY <1>3, <1>6, BecomesKeepsInv

(* A resolution moves on to the artifact, or to the rows, or answers.      *)
LEMMA ResolveKeepsInv ==
  ASSUME ResolverInv, request.op = "resolve", request.stage \in {"summary", "artifact"},
         Summary \/ ResolveArtifact \/ ResolveFails
  PROVE  ResolverInv'
<1>1. CallInv(request) /\ Witnesses(request) /\ request.id \in Ids
  BY DEF ResolverInv, CallInv, OpOf
<1>2. ASSUME NEW q, DOMAIN q = RequestFields, Becomes(q), q.stage = "rows" \/ q.stage = "artifact",
             q.stage = "artifact" => <<q.id, q.version>> \in q.seen,
             q.op = "resolve", q.id = request.id, q.always = request.always, q.seen = request.seen
      PROVE  ResolverInv'
  <2>1. Witnesses(q) /\ OpOf(q)
    BY <1>1, <1>2 DEF Witnesses, OpOf
  <2>2. CallInv(q)
    BY <1>2, <2>1 DEF CallInv
  <2> QED
    BY <1>2, <2>2, BecomesKeepsInv
<1>3. CASE Becomes([request EXCEPT !.stage = "rows"])
  <2>1. PICK q : q = [request EXCEPT !.stage = "rows"]
    OBVIOUS
  <2>2. DOMAIN q = RequestFields /\ q.stage = "rows" /\ q.op = "resolve" /\ q.id = request.id
        /\ q.always = request.always /\ q.seen = request.seen
    BY <1>1, <2>1 DEF CallInv, RequestFields
  <2> QED
    BY <1>2, <1>3, <2>1, <2>2
<1>4. CASE ResolveFails
  <2>1. PICK q : q = [request EXCEPT !.stage = "rows", !.failed = TRUE]
    OBVIOUS
  <2>2. DOMAIN q = RequestFields /\ q.stage = "rows" /\ q.op = "resolve" /\ q.id = request.id
        /\ q.always = request.always /\ q.seen = request.seen
    BY <1>1, <2>1 DEF CallInv, RequestFields
  <2>3. Becomes(q)
    BY <1>4, <2>1 DEF ResolveFails
  <2> QED
    BY <1>2, <2>2, <2>3
<1>5. CASE Summary
  <2>1. PICK v : v = Pick(summaries[request.id])
    OBVIOUS
  <2>2. CASE v = 0
    BY <1>3, <1>5, <2>1, <2>2 DEF Summary
  <2>3. CASE v # 0
    <3>1. PICK q : q = [request EXCEPT !.stage = "artifact", !.version = v]
      OBVIOUS
    <3>2. /\ DOMAIN q = RequestFields /\ q.stage = "artifact" /\ q.version = v /\ q.op = "resolve"
          /\ q.id = request.id /\ q.always = request.always /\ q.seen = request.seen
      BY <1>1, <3>1 DEF CallInv, RequestFields
    <3>3. <<q.id, q.version>> \in q.seen
      BY <1>1, <2>1, <3>2, PickIsSeen
    <3>4. Becomes(q)
      BY <1>5, <2>1, <2>3, <3>1 DEF Summary
    <3> QED
      BY <1>2, <3>2, <3>3, <3>4
  <2> QED
    BY <2>2, <2>3
<1>6. CASE ResolveArtifact
  <2>1. CASE Artifact = Nothing
    BY <1>3, <1>6, <2>1 DEF ResolveArtifact
  <2>2. CASE Artifact # Nothing
    <3>1. PICK result : result = {Artifact}
      OBVIOUS
    <3>2. Answers(result)
      BY <1>6, <2>2, <3>1 DEF ResolveArtifact
    <3>3. request.stage = "artifact"
      BY <1>6 DEF ResolveArtifact
    <3>4. Artifact = <<request.id, request.version>> /\ <<request.id, request.version>> \in request.seen
      BY <1>1, <2>2, <3>3 DEF Artifact, CallInv
    <3>5. result # {} /\ result \subseteq request.seen
      BY <3>1, <3>4
    <3> QED
      BY <3>2, <3>5, AnswersKeepsInv
  <2> QED
    BY <2>1, <2>2
<1> QED
  BY <1>4, <1>5, <1>6

(* The row published last of the loop: there is one when there is any.     *)
LEMMA FindRowKeepsInv ==
  ASSUME ResolverInv, FindRow
  PROVE  ResolverInv'
<1>1. /\ CallInv(request) /\ Witnesses(request) /\ request.id \in Ids
      /\ request.op = "resolve" /\ active \in [Ids -> SUBSET Rows]
  BY DEF ResolverInv, CallInv, OpOf, FindRow
<1>2. PICK i : i = request.id
  OBVIOUS
<1>3. i \in Ids /\ active[i] \subseteq Rows
  BY <1>1, <1>2
<1>4. CASE active[i] = {}
  <2>1. Answers({})
    BY <1>2, <1>4 DEF FindRow
  <2>2. i \notin request.always
    BY <1>1, <1>4 DEF Witnesses, Heads, Served
  <2> QED
    BY <1>1, <1>2, <2>1, <2>2, AnswersKeepsInv
<1>5. CASE active[i] # {}
  <2>1. active[i] \in SUBSET Nat /\ IsFiniteSet(active[i])
    BY <1>3, FS_Subset, ResolverAssumption
  <2>2. \E n \in active[i] : \A m \in active[i] : m <= n
    BY <1>5, <2>1, GreatestNumber
  <2>3. PICK v : v = CHOOSE n \in active[i] : \A m \in active[i] : m <= n
    OBVIOUS
  <2>4. v \in active[i]
    BY <2>2, <2>3
  <2>5. PICK result : result = {<<i, v>>}
    OBVIOUS
  <2>6. Answers(result)
    BY <1>2, <1>5, <2>3, <2>5 DEF FindRow
  <2>7. <<i, v>> \in Served(active)
    BY <1>3, <2>4 DEF Served
  <2>8. result # {} /\ result \subseteq request.seen
    BY <1>1, <2>5, <2>7 DEF Witnesses
  <2> QED
    BY <1>1, <2>6, <2>8, AnswersKeepsInv
<1> QED
  BY <1>4, <1>5

LEMMA LoadFromRegistryKeepsInv ==
  ASSUME ResolverInv, LoadFromRegistry
  PROVE  ResolverInv'
<1>1. CallInv(request) /\ request.op = "system" /\ OneEach(request.given)
  BY DEF ResolverInv, CallInv, OpOf, LoadFromRegistry
<1>2. ASSUME NEW defs, request.given \subseteq defs, OneEach(defs), System(defs)
      PROVE  ResolverInv'
  <2>1. PICK result : result = IF \A d \in defs : Valid(d) THEN defs ELSE Nothing
    OBVIOUS
  <2>2. Answers(result)
    BY <1>2, <2>1 DEF System
  <2>3. result # Nothing => request.given \subseteq result /\ OneEach(result) /\ \A d \in result : Valid(d)
    BY <1>2, <2>1
  <2> QED
    BY <1>1, <2>2, <2>3, AnswersKeepsInv
<1>3. OneEach(RegistryLoops)
  BY DEF OneEach, RegistryLoops
<1>4. request.given \subseteq Dedupe(RegistryLoops, request.given)
  BY DEF Dedupe
<1>5. OneEach(Dedupe(RegistryLoops, request.given))
  BY <1>1, <1>3 DEF OneEach, Dedupe
<1> QED
  BY <1>1, <1>2, <1>4, <1>5 DEF LoadFromRegistry

(* Whatever the registry and the rows become while a call runs, and        *)
(* whichever fetch of it fails: a loop with a valid active row all through *)
(* is listed and resolves, what is listed is valid and was published, and  *)
(* a loop system has what it was given (loop-definition-resolver.ts,       *)
(* createLoopSystem).                                                      *)
THEOREM ResolutionHidesNothing == ResolverSpec => []OutagesHideNothing
<1>1. ResolverInit => ResolverInv
  <2> SUFFICES ASSUME ResolverInit PROVE ResolverInv
    OBVIOUS
  <2>1. PICK none : none = NoRequest
    OBVIOUS
  <2>2. DOMAIN none = RequestFields /\ none.stage = "idle" /\ none.op = "none"
    BY <2>1 DEF NoRequest, RequestFields
  <2>3. CallInv(none)
    BY <2>2 DEF CallInv, OpOf
  <2> QED
    BY <2>1, <2>3 DEF ResolverInit, ResolverInv
<1>2. ResolverInv /\ [ResolverNext]_resolverVars => ResolverInv'
  <2> SUFFICES ASSUME ResolverInv, [ResolverNext]_resolverVars PROVE ResolverInv'
    OBVIOUS
  <2>1. CASE UNCHANGED resolverVars
    BY <2>1 DEF resolverVars, ResolverInv, CallInv, OpOf, Witnesses, Served, Listing, AnswerHolds, Vouched
  <2>2. CASE Summary \/ ResolveArtifact \/ ResolveFails
    <3>1. request.op = "resolve" /\ request.stage \in {"summary", "artifact"}
      BY <2>2 DEF Summary, ResolveArtifact, ResolveFails, ResolverInv, CallInv, OpOf
    <3> QED
      BY <2>2, <3>1, ResolveKeepsInv
  <2> QED
    BY <2>1, <2>2, EditKeepsInv, StartsKeepInv, LoadLocalKeepsInv, RowsFailKeepsInv, PageKeepsListInv,
       ListArtifactKeepsInv,       MergeKeepsInv, ListFailsKeepsInv, FindRowKeepsInv, LoadFromRegistryKeepsInv DEF ResolverNext
<1>3. ResolverInv => OutagesHideNothing
  BY DEF ResolverInv, CallInv, AnswerHolds, OutagesHideNothing, Answered, Heads, Vouched, OneEach
<1> QED
  BY <1>1, <1>2, <1>3, PTL DEF ResolverSpec

-----------------------------------------------------------------------------
(* LocalRegistry.                                                          *)

LocalFields == {"stage", "op", "id", "version", "force", "todo", "write", "result"}

AllToLoad == loopsDir \o Inline

AllParse == \A n \in DOMAIN loopsDir : loopsDir[n] # BadFile

(* The versions of i among the a-th to the b-th definition to load.        *)
Loads(i, a, b) == {AllToLoad[j][2] : j \in {m \in a..b : AllToLoad[m][1] = i}}

WasRemoved(i) == \E c \in LocalCallers : local[c].id = i /\ local[c].result = "removed"

(* The map, when the first d definitions have been loaded: of an id that   *)
(* was among them it has one of these, or what a call made of it since,    *)
(* and once an inline definition of the id was loaded no file's.           *)
LoadedUpTo(d) ==
  \A i \in LocalIds :
    /\ entries[i] \in Loads(i, 1, d) \cup RegisteredAs(i) \cup {NoEntry}
    /\ Loads(i, 1, d) # {} /\ entries[i] = NoEntry => WasRemoved(i)
    /\ Loads(i, Len(loopsDir) + 1, d) # {} =>
         entries[i] \in Loads(i, Len(loopsDir) + 1, d) \cup RegisteredAs(i) \cup {NoEntry}

IsLoading(w) == w.stage = "digest" /\ w.op # "registering"

(* Caller c loads, and has taken k definitions.                            *)
LoaderAt(c, k) ==
  /\ k \in 0..Len(AllToLoad)
  /\ local[c].stage # "idle"
  /\ local[c].todo = SubSeq(AllToLoad, k + 1, Len(AllToLoad))
  /\ IsLoading(local[c]) => k > 0 /\ local[c].write = AllToLoad[k] /\ LoadedUpTo(k - 1)
  /\ ~IsLoading(local[c]) => LoadedUpTo(k)
  /\ k < Len(AllToLoad) => local[c].stage \in {"load", "digest"} /\ local[c].op # "registering"

CallShape(w) ==
  /\ DOMAIN w = LocalFields
  /\ w.stage \in {"idle", "load", "digest", "answered"}
  /\ w.stage = "idle" => w.todo = <<>> /\ w.op = "none"
  /\ w.stage # "idle" => w.id \in LocalIds /\ w.op \in {"get", "remove", "register", "registering"}
  /\ w.stage \in {"idle", "load", "digest"} => w.result # "removed"
  /\ w.op \in {"register", "registering"} => w.version \in LocalVersions
  /\ w.op = "registering" => w.stage \in {"digest", "answered"} /\ w.todo = <<>>
  /\ w.stage = "digest" /\ w.op = "registering" => w.write = <<w.id, w.version>>

LocalInv ==
  /\ loopsDir \in Directories /\ loaded \in BOOLEAN
  /\ DOMAIN entries = LocalIds /\ DOMAIN local = LocalCallers
  /\ \A c \in LocalCallers : CallShape(local[c])
  /\ ~loaded => (\A c \in LocalCallers : local[c].stage = "idle") /\ LoadedUpTo(0)
  /\ loaded /\ AllParse =>
       \E c \in LocalCallers, k \in Nat :
         /\ LoaderAt(c, k)
         /\ \A d \in LocalCallers \ {c} : local[d].todo = <<>> /\ ~IsLoading(local[d])

(* What is to be loaded, when every file parses.                           *)
LEMMA ToLoad ==
  ASSUME LocalInv
  PROVE  /\ Len(loopsDir) \in Nat /\ Len(AllToLoad) = Len(loopsDir) + Len(Inline)
         /\ AllToLoad \in Seq((LocalIds \X LocalVersions) \cup {BadFile})
         /\ \A n \in 1..Len(loopsDir) : AllToLoad[n] = loopsDir[n]
         /\ \A n \in 1..Len(Inline) : AllToLoad[Len(loopsDir) + n] = Inline[n]
         /\ AllParse => \A n \in 1..Len(AllToLoad) : AllToLoad[n] \in LocalIds \X LocalVersions
<1> DEFINE T == (LocalIds \X LocalVersions) \cup {BadFile}
<1>1. loopsDir \in Seq(T) /\ Inline \in Seq(T) /\ Inline \in Seq(LocalIds \X LocalVersions)
  BY LocalAssumption DEF LocalInv
<1> HIDE DEF T
<1>2. /\ AllToLoad \in Seq(T) /\ Len(AllToLoad) = Len(loopsDir) + Len(Inline)
      /\ \A n \in 1..Len(AllToLoad) :
           AllToLoad[n] = IF n <= Len(loopsDir) THEN loopsDir[n] ELSE Inline[n - Len(loopsDir)]
  BY <1>1, ConcatProperties DEF AllToLoad
<1>3. Len(loopsDir) \in Nat /\ Len(Inline) \in Nat
  BY <1>1
<1>4. \A n \in 1..Len(loopsDir) : AllToLoad[n] = loopsDir[n]
  BY <1>2, <1>3
<1>5. \A n \in 1..Len(Inline) : AllToLoad[Len(loopsDir) + n] = Inline[n]
  BY <1>2, <1>3
<1>6. ASSUME AllParse, NEW n \in 1..Len(AllToLoad) PROVE AllToLoad[n] \in LocalIds \X LocalVersions
  <2>1. CASE n <= Len(loopsDir)
    <3>1. n \in DOMAIN loopsDir /\ AllToLoad[n] = loopsDir[n]
      BY <1>1, <1>3, <1>4, <2>1
    <3>2. loopsDir[n] \in T /\ loopsDir[n] # BadFile
      BY <1>1, <1>6, <3>1 DEF AllParse
    <3> QED
      BY <3>1, <3>2 DEF T
  <2>2. CASE ~(n <= Len(loopsDir))
    <3>1. n - Len(loopsDir) \in 1..Len(Inline)
      BY <1>2, <1>3, <2>2
    <3>2. Inline[n - Len(loopsDir)] \in LocalIds \X LocalVersions
      BY <1>1, <3>1
    <3> QED
      BY <1>2, <2>2, <3>2
  <2> QED
    BY <2>1, <2>2
<1> QED
  BY <1>2, <1>3, <1>4, <1>5, <1>6 DEF T

(* A step of one call forgets no registration and no removal.              *)
LEMMA CallsGrow ==
  ASSUME LocalInv, NEW c \in LocalCallers, NEW v, local' = [local EXCEPT ![c] = v],
         local[c].stage # "answered",
         local[c].op = "registering" => v.op = "registering" /\ v.id = local[c].id /\ v.version = local[c].version
  PROVE  \A i : RegisteredAs(i) \subseteq RegisteredAs(i)' /\ (WasRemoved(i) => WasRemoved(i)')
<1>1. local[c].result # "removed" /\ DOMAIN local = LocalCallers
  BY DEF LocalInv, CallShape
<1>2. local'[c] = v /\ \A d \in LocalCallers \ {c} : local'[d] = local[d]
  BY <1>1
<1>3. ASSUME NEW i, WasRemoved(i) PROVE WasRemoved(i)'
  BY <1>1, <1>2, <1>3 DEF WasRemoved
<1>4. ASSUME NEW i, NEW u \in RegisteredAs(i) PROVE u \in RegisteredAs(i)'
  <2>1. PICK d \in LocalCallers : local[d].op = "registering" /\ local[d].id = i /\ local[d].version = u
    BY <1>4 DEF RegisteredAs
  <2>2. local'[d].op = "registering" /\ local'[d].id = i /\ local'[d].version = u
    BY <1>2, <2>1
  <2> QED
    BY <2>2 DEF RegisteredAs
<1> QED
  BY <1>3, <1>4

(* The map keeps what is claimed of it through removals and registrations. *)
LEMMA LoadedKept ==
  ASSUME NEW d, LoadedUpTo(d), loopsDir' = loopsDir, NoEntry \notin LocalVersions,
         \A i : RegisteredAs(i) \subseteq RegisteredAs(i)' /\ (WasRemoved(i) => WasRemoved(i)'),
         \A i \in LocalIds : \/ entries'[i] = entries[i]
                             \/ entries'[i] \in RegisteredAs(i)' /\ entries'[i] # NoEntry
                             \/ entries'[i] = NoEntry /\ WasRemoved(i)'
  PROVE  LoadedUpTo(d)'
<1>1. \A i, a, b : Loads(i, a, b)' = Loads(i, a, b)
  BY DEF Loads, AllToLoad
<1>2. Len(loopsDir)' = Len(loopsDir)
  OBVIOUS
<1> SUFFICES ASSUME NEW i \in LocalIds
             PROVE  /\ entries'[i] \in Loads(i, 1, d) \cup RegisteredAs(i)' \cup {NoEntry}
                    /\ Loads(i, 1, d) # {} /\ entries'[i] = NoEntry => WasRemoved(i)'
                    /\ Loads(i, Len(loopsDir) + 1, d) # {} =>
                         entries'[i] \in Loads(i, Len(loopsDir) + 1, d) \cup RegisteredAs(i)' \cup {NoEntry}
  BY <1>1, <1>2 DEF LoadedUpTo
<1>3. PICK A, B, R, S : A = Loads(i, 1, d) /\ B = Loads(i, Len(loopsDir) + 1, d)
                        /\ R = RegisteredAs(i) /\ S = RegisteredAs(i)'
  OBVIOUS
<1>4. /\ entries[i] \in A \cup R \cup {NoEntry}
      /\ A # {} /\ entries[i] = NoEntry => WasRemoved(i)
      /\ B # {} => entries[i] \in B \cup R \cup {NoEntry}
  BY <1>3 DEF LoadedUpTo
<1>5. R \subseteq S /\ (WasRemoved(i) => WasRemoved(i)')
  BY <1>3
<1>6. \/ entries'[i] = entries[i]
      \/ entries'[i] \in S /\ entries'[i] # NoEntry
      \/ entries'[i] = NoEntry /\ WasRemoved(i)'
  BY <1>3
<1> QED
  BY <1>3, <1>4, <1>5, <1>6

(* A step of a call that does not load: it answers, is called, registers. *)
LEMMA UnloadingStepKeepsInv ==
  ASSUME LocalInv, NEW c \in LocalCallers, NEW v, local' = [local EXCEPT ![c] = v], CallShape(v),
         local[c].stage # "answered", v.stage # "idle",
         loaded, loaded' = loaded, loopsDir' = loopsDir, DOMAIN entries' = LocalIds,
         local[c].op = "registering" => v.op = "registering" /\ v.id = local[c].id /\ v.version = local[c].version,
         local[c].todo = <<>> \/ local[c].op = "registering" \/ local[c].stage = "idle",
         ~IsLoading(local[c]), v.todo = <<>>, ~IsLoading(v),
         \A i \in LocalIds : \/ entries'[i] = entries[i]
                             \/ entries'[i] \in RegisteredAs(i)' /\ entries'[i] # NoEntry
                             \/ entries'[i] = NoEntry /\ WasRemoved(i)'
  PROVE  LocalInv'
<1>1. \A i : RegisteredAs(i) \subseteq RegisteredAs(i)' /\ (WasRemoved(i) => WasRemoved(i)')
  BY CallsGrow
<1>2. DOMAIN local = LocalCallers /\ local'[c] = v /\ DOMAIN local' = LocalCallers
      /\ \A d \in LocalCallers \ {c} : local'[d] = local[d]
  BY DEF LocalInv
<1>3. NoEntry \notin LocalVersions
  BY LocalAssumption
<1>4. ASSUME NEW d, LoadedUpTo(d) PROVE LoadedUpTo(d)'
  BY <1>1, <1>3, <1>4, LoadedKept
<1>5. AllToLoad' = AllToLoad /\ AllParse' = AllParse
  BY DEF AllToLoad, AllParse
<1>6. \A d \in LocalCallers : CallShape(local'[d])
  BY <1>2 DEF LocalInv
<1>7. ASSUME AllParse
      PROVE  \E d \in LocalCallers, k \in Nat :
               /\ LoaderAt(d, k)'
               /\ \A e \in LocalCallers \ {d} : local'[e].todo = <<>> /\ ~IsLoading(local'[e])
  <2>1. PICK d \in LocalCallers, k \in Nat :
          /\ LoaderAt(d, k)
          /\ \A e \in LocalCallers \ {d} : local[e].todo = <<>> /\ ~IsLoading(local[e])
    BY <1>7 DEF LocalInv
  <2>2. \A e \in LocalCallers \ {d} : local'[e].todo = <<>> /\ ~IsLoading(local'[e])
    BY <1>2, <2>1
  <2>3. CASE d # c
    <3>1. local'[d] = local[d]
      BY <1>2, <2>3
    <3>2. PICK w : w = local[d]
      OBVIOUS
    <3>3. LoaderAt(d, k)'
      BY <1>4, <1>5, <2>1, <3>1, <3>2 DEF LoaderAt, IsLoading
    <3> QED
      BY <2>2, <3>3
  <2>4. CASE d = c
    <3>1. PICK n : n = Len(AllToLoad)
      OBVIOUS
    <3>2. n \in Nat /\ k \in 0..n
      BY <2>1, <3>1, ToLoad DEF LoaderAt
    <3>3. k = n
      <4>1. SUFFICES ASSUME k < n PROVE FALSE
        BY <3>2
      <4>2. local[c].todo = SubSeq(AllToLoad, k + 1, n)
            /\ local[c].op # "registering" /\ local[c].stage # "idle"
        BY <2>1, <2>4, <3>1, <4>1 DEF LoaderAt
      <4>3. Len(SubSeq(AllToLoad, k + 1, n)) = n - k
        BY <3>1, <3>2, <4>1, ToLoad, SubSeqProperties
      <4>4. local[c].todo = <<>>
        BY <4>2
      <4>5. Len(<<>>) = 0 /\ n - k # 0
        BY <3>2, <4>1
      <4> QED
        BY <4>2, <4>3, <4>4, <4>5
    <3>4. SubSeq(AllToLoad, k + 1, n) = <<>>
      BY <3>1, <3>3, <3>2, SubSeqEmpty
    <3>5. LoadedUpTo(k)'
      BY <1>4, <2>1, <2>4 DEF LoaderAt
    <3>6. n = Len(AllToLoad') /\ ~(k < n) /\ SubSeq(AllToLoad', k + 1, n) = <<>>
      BY <1>5, <3>1, <3>2, <3>3, <3>4
    <3>7. local'[d].stage # "idle" /\ local'[d].todo = <<>> /\ ~IsLoading(local'[d])
      BY <1>2, <2>4
    <3>8. LoaderAt(d, k)'
      BY <3>2, <3>5, <3>6, <3>7 DEF LoaderAt
    <3> QED
      BY <2>2, <3>8
  <2> QED
    BY <2>3, <2>4
<1> QED
  BY <1>2, <1>5, <1>6, <1>7 DEF LocalInv

LEMMA LocalCallKeepsInv ==
  ASSUME LocalInv, NEW c \in LocalCallers, NEW op \in {"get", "remove", "register"}, NEW i \in LocalIds,
         NEW u, op = "register" => u \in LocalVersions, NEW force, LocalCall(c, op, i, u, force)
  PROVE  LocalInv'
<1>1. PICK w : w = local[c]
  OBVIOUS
<1>2. CallShape(w) /\ w.stage = "idle" /\ w.todo = <<>> /\ w.op = "none"
      /\ DOMAIN local = LocalCallers /\ loaded \in BOOLEAN
  BY <1>1 DEF LocalInv, LocalCall, CallShape
<1>3. PICK v : v = [w EXCEPT !.stage = "load", !.op = op, !.id = i, !.version = u, !.force = force,
                             !.todo = IF loaded THEN <<>> ELSE loopsDir \o Inline]
  OBVIOUS
<1>4. /\ DOMAIN v = LocalFields /\ v.stage = "load" /\ v.op = op /\ v.id = i /\ v.version = u
      /\ v.todo = (IF loaded THEN <<>> ELSE loopsDir \o Inline) /\ v.result = w.result
  BY <1>2, <1>3 DEF CallShape, LocalFields
<1>5. CallShape(v)
  BY <1>2, <1>4 DEF CallShape
<1>6. local' = [local EXCEPT ![c] = v] /\ loaded' = TRUE /\ loopsDir' = loopsDir /\ entries' = entries
  BY <1>1, <1>3 DEF LocalCall
<1>7. DOMAIN entries = LocalIds /\ ~IsLoading(w) /\ ~IsLoading(v)
  BY <1>2, <1>4 DEF LocalInv, IsLoading
<1>8. CASE loaded
  <2>1. v.todo = <<>> /\ loaded' = loaded
    BY <1>4, <1>6, <1>8, <1>2
  <2> QED
    BY <1>1, <1>2, <1>4, <1>5, <1>6, <1>7, <1>8, <2>1, UnloadingStepKeepsInv
<1>9. CASE ~loaded
  <2>1. \A d \in LocalCallers : local[d].stage = "idle" /\ CallShape(local[d])
    BY <1>9 DEF LocalInv
  <2>2. \A j : RegisteredAs(j) \subseteq RegisteredAs(j)' /\ (WasRemoved(j) => WasRemoved(j)')
    BY <1>1, <1>2, <1>6, CallsGrow
  <2>3. LoadedUpTo(0) /\ NoEntry \notin LocalVersions
    BY <1>9, LocalAssumption DEF LocalInv
  <2>4. LoadedUpTo(0)'
    BY <1>6, <2>2, <2>3, LoadedKept
  <2>5. local'[c] = v /\ DOMAIN local' = LocalCallers /\ \A d \in LocalCallers \ {c} : local'[d] = local[d]
    BY <1>2, <1>6
  <2>6. AllToLoad' = AllToLoad /\ v.todo = AllToLoad
    BY <1>4, <1>6, <1>9 DEF AllToLoad
  <2>7. PICK s, n : s = AllToLoad /\ n = Len(AllToLoad)
    OBVIOUS
  <2>8. n \in Nat /\ s \in Seq((LocalIds \X LocalVersions) \cup {BadFile}) /\ n = Len(s)
    BY <2>7, ToLoad
  <2>9. SubSeq(s, 1, n) = s
    BY <2>8
  <2>10. LoaderAt(c, 0)'
    <3>1. 0 \in 0..n /\ 0 + 1 = 1
      BY <2>8
    <3>2. local'[c].todo = SubSeq(AllToLoad', 0 + 1, Len(AllToLoad'))
      BY <2>5, <2>6, <2>7, <2>9, <3>1
    <3>3. local'[c].stage = "load" /\ local'[c].op # "registering" /\ ~IsLoading(local'[c])
      BY <1>4, <1>7, <2>5
    <3> QED
      BY <2>4, <2>6, <2>7, <3>1, <3>2, <3>3 DEF LoaderAt
  <2>11. \A d \in LocalCallers \ {c} : local'[d].todo = <<>> /\ ~IsLoading(local'[d])
    BY <2>1, <2>5 DEF CallShape, IsLoading
  <2>12. \A d \in LocalCallers : CallShape(local'[d])
    BY <1>5, <2>1, <2>5
  <2>13. \E d \in LocalCallers, k \in Nat :
           /\ LoaderAt(d, k)'
           /\ \A e \in LocalCallers \ {d} : local'[e].todo = <<>> /\ ~IsLoading(local'[e])
    BY <2>10, <2>11
  <2> QED
    BY <1>6, <1>7, <2>5, <2>12, <2>13 DEF LocalInv
<1> QED
  BY <1>8, <1>9

LEMMA ReadsKeepLocalInv ==
  ASSUME LocalInv, NEW c \in LocalCallers, Read(c) \/ Remove(c) \/ Register(c)
  PROVE  LocalInv'
<1>1. PICK w : w = local[c]
  OBVIOUS
<1>2. CallShape(w) /\ w.stage = "load" /\ w.todo = <<>> /\ DOMAIN local = LocalCallers /\ DOMAIN entries = LocalIds
  BY <1>1 DEF LocalInv, Read, Remove, Register
<1>3. loaded /\ loaded' = loaded /\ loopsDir' = loopsDir /\ w.op # "registering" /\ ~IsLoading(w) /\ w.id \in LocalIds
  BY <1>1, <1>2 DEF LocalInv, CallShape, Read, Remove, Register, IsLoading
<1>4. ASSUME NEW result, NEW v, v = [w EXCEPT !.stage = "answered", !.result = result],
             local' = [local EXCEPT ![c] = v], DOMAIN entries' = LocalIds,
             \A i \in LocalIds : entries'[i] = entries[i] \/ (entries'[i] = NoEntry /\ WasRemoved(i)')
      PROVE  LocalInv'
  <2>1. /\ DOMAIN v = LocalFields /\ v.stage = "answered" /\ v.op = w.op /\ v.id = w.id
        /\ v.version = w.version /\ v.todo = w.todo
    BY <1>2, <1>4 DEF CallShape, LocalFields
  <2>2. CallShape(v) /\ ~IsLoading(v)
    BY <1>2, <1>3, <2>1 DEF CallShape, IsLoading
  <2> QED
    BY <1>1, <1>2, <1>3, <1>4, <2>1, <2>2, UnloadingStepKeepsInv
<1>5. CASE Read(c)
  <2>1. PICK result : result = IF entries[w.id] = NoEntry THEN "null" ELSE "found"
    OBVIOUS
  <2>2. PICK v : v = [w EXCEPT !.stage = "answered", !.result = result]
    OBVIOUS
  <2>3. local' = [local EXCEPT ![c] = v] /\ entries' = entries
    BY <1>1, <1>2, <1>5, <2>1, <2>2 DEF Read
  <2>4. DOMAIN entries' = LocalIds
        /\ \A i \in LocalIds : entries'[i] = entries[i] \/ (entries'[i] = NoEntry /\ WasRemoved(i)')
    BY <1>2, <2>3
  <2> QED
    BY <1>4, <2>2, <2>3, <2>4
<1>6. CASE Remove(c)
  <2>1. PICK result : result = IF entries[w.id] = NoEntry THEN "false" ELSE "removed"
    OBVIOUS
  <2>2. PICK v : v = [w EXCEPT !.stage = "answered", !.result = result]
    OBVIOUS
  <2>3. local' = [local EXCEPT ![c] = v] /\ entries' = [entries EXCEPT ![w.id] = NoEntry]
    BY <1>1, <1>2, <1>6, <2>1, <2>2 DEF Remove
  <2>4. v.id = w.id /\ v.result = result /\ local'[c] = v
    BY <1>2, <2>2, <2>3 DEF CallShape, LocalFields
  <2>5. entries[w.id] # NoEntry => WasRemoved(w.id)'
    BY <2>1, <2>4 DEF WasRemoved
  <2>6. \A i \in LocalIds : entries'[i] = entries[i] \/ (entries'[i] = NoEntry /\ WasRemoved(i)')
    <3> SUFFICES ASSUME NEW i \in LocalIds
                 PROVE  entries'[i] = entries[i] \/ (entries'[i] = NoEntry /\ WasRemoved(i)')
      OBVIOUS
    <3>1. CASE i = w.id
      <4>1. entries'[i] = NoEntry
        BY <1>2, <2>3, <3>1
      <4>2. entries[i] # NoEntry => WasRemoved(i)'
        BY <2>5, <3>1 DEF WasRemoved
      <4> QED
        BY <4>1, <4>2
    <3>2. CASE i # w.id
      BY <1>2, <2>3, <3>2
    <3> QED
      BY <3>1, <3>2
  <2>7. DOMAIN entries' = LocalIds
    BY <1>2, <2>3
  <2> QED
    BY <1>4, <2>2, <2>3, <2>6, <2>7
<1>7. CASE Register(c)
  <2>1. entries' = entries /\ w.op = "register"
    BY <1>1, <1>7 DEF Register
  <2>2. CASE entries[w.id] = w.version /\ ~w.force
    <3>1. PICK v : v = [w EXCEPT !.stage = "answered", !.result = "conflict"]
      OBVIOUS
    <3>2. local' = [local EXCEPT ![c] = v]
      BY <1>1, <1>7, <2>2, <3>1 DEF Register
    <3>3. DOMAIN entries' = LocalIds
          /\ \A i \in LocalIds : entries'[i] = entries[i] \/ (entries'[i] = NoEntry /\ WasRemoved(i)')
      BY <1>2, <2>1
    <3> QED
      BY <1>4, <3>1, <3>2, <3>3
  <2>3. CASE ~(entries[w.id] = w.version /\ ~w.force)
    <3>1. PICK v : v = [w EXCEPT !.stage = "digest", !.op = "registering", !.write = <<w.id, w.version>>]
      OBVIOUS
    <3>2. local' = [local EXCEPT ![c] = v]
      BY <1>1, <1>7, <2>3, <3>1 DEF Register
    <3>3. /\ DOMAIN v = LocalFields /\ v.stage = "digest" /\ v.op = "registering" /\ v.id = w.id
          /\ v.version = w.version /\ v.todo = w.todo /\ v.write = <<w.id, w.version>> /\ v.result = w.result
      BY <1>2, <3>1 DEF CallShape, LocalFields
    <3>4. CallShape(v) /\ ~IsLoading(v)
      BY <1>2, <1>3, <2>1, <3>3 DEF CallShape, IsLoading
    <3> QED
      BY <1>1, <1>2, <1>3, <2>1, <3>2, <3>3, <3>4, UnloadingStepKeepsInv
  <2> QED
    BY <2>2, <2>3
<1> QED
  BY <1>5, <1>6, <1>7

(* The loader takes the next definition; one that does not parse ends its  *)
(* call, and the claim with it.                                            *)
LEMMA LoadNextKeepsInv ==
  ASSUME LocalInv, NEW c \in LocalCallers, LoadNext(c)
  PROVE  LocalInv'
<1>1. PICK w : w = local[c]
  OBVIOUS
<1>2. CallShape(w) /\ w.stage = "load" /\ w.todo # <<>> /\ DOMAIN local = LocalCallers
      /\ DOMAIN entries = LocalIds /\ w.op # "registering"
  BY <1>1 DEF LocalInv, LoadNext, CallShape
<1>3. loaded /\ loaded' = loaded /\ loopsDir' = loopsDir /\ entries' = entries
  BY <1>1, <1>2 DEF LocalInv, LoadNext
<1>4. \E v : /\ local' = [local EXCEPT ![c] = v] /\ CallShape(v) /\ v.op = w.op /\ v.id = w.id /\ v.version = w.version
             /\ ~Refuses(c) => v.stage = "digest" /\ v.write = Head(w.todo) /\ v.todo = Tail(w.todo)
  <2>1. CASE Refuses(c)
    <3>1. PICK v : v = [w EXCEPT !.stage = "answered", !.result = "error", !.todo = <<>>]
      OBVIOUS
    <3>2. local' = [local EXCEPT ![c] = v]
      BY <1>1, <2>1, <3>1 DEF LoadNext
    <3>3. DOMAIN v = LocalFields /\ v.stage = "answered" /\ v.op = w.op /\ v.id = w.id /\ v.version = w.version
      BY <1>2, <3>1 DEF CallShape, LocalFields
    <3>4. CallShape(v)
      BY <1>2, <3>3 DEF CallShape
    <3> QED
      BY <2>1, <3>2, <3>3, <3>4
  <2>2. CASE ~Refuses(c)
    <3>1. PICK v : v = [w EXCEPT !.stage = "digest", !.write = Head(w.todo), !.todo = Tail(w.todo)]
      OBVIOUS
    <3>2. local' = [local EXCEPT ![c] = v]
      BY <1>1, <2>2, <3>1 DEF LoadNext
    <3>3. /\ DOMAIN v = LocalFields /\ v.stage = "digest" /\ v.op = w.op /\ v.id = w.id /\ v.version = w.version
          /\ v.write = Head(w.todo) /\ v.todo = Tail(w.todo) /\ v.result = w.result
      BY <1>2, <3>1 DEF CallShape, LocalFields
    <3>4. CallShape(v)
      BY <1>2, <3>3 DEF CallShape
    <3> QED
      BY <3>2, <3>3, <3>4
  <2> QED
    BY <2>1, <2>2
<1>5. PICK v : /\ local' = [local EXCEPT ![c] = v] /\ CallShape(v) /\ v.op = w.op /\ v.id = w.id /\ v.version = w.version
               /\ ~Refuses(c) => v.stage = "digest" /\ v.write = Head(w.todo) /\ v.todo = Tail(w.todo)
  BY <1>4
<1>6. local'[c] = v /\ DOMAIN local' = LocalCallers /\ \A d \in LocalCallers \ {c} : local'[d] = local[d]
  BY <1>2, <1>5
<1>7. \A i : RegisteredAs(i) \subseteq RegisteredAs(i)' /\ (WasRemoved(i) => WasRemoved(i)')
  BY <1>1, <1>2, <1>5, CallsGrow
<1>8. AllToLoad' = AllToLoad /\ AllParse' = AllParse
  BY <1>3 DEF AllToLoad, AllParse
<1>9. ASSUME AllParse
      PROVE  \E k \in Nat : LoaderAt(c, k)' /\ \A e \in LocalCallers \ {c} : local'[e].todo = <<>> /\ ~IsLoading(local'[e])
  <2>1. PICK d \in LocalCallers, k \in Nat :
          /\ LoaderAt(d, k)
          /\ \A e \in LocalCallers \ {d} : local[e].todo = <<>> /\ ~IsLoading(local[e])
    BY <1>3, <1>9 DEF LocalInv
  <2>2. d = c
    BY <1>1, <1>2, <2>1
  <2>3. PICK s, n : s = AllToLoad /\ n = Len(AllToLoad)
    OBVIOUS
  <2>4. /\ n \in Nat /\ n = Len(s) /\ s \in Seq((LocalIds \X LocalVersions) \cup {BadFile})
        /\ \A m \in 1..n : s[m] \in LocalIds \X LocalVersions
    BY <1>9, <2>3, ToLoad
  <2>5. k \in 0..n /\ w.todo = SubSeq(s, k + 1, n) /\ LoadedUpTo(k)
    BY <1>1, <1>2, <2>1, <2>2, <2>3 DEF LoaderAt, IsLoading
  <2>6. k < n
    <3> SUFFICES ASSUME ~(k < n) PROVE FALSE
      OBVIOUS
    <3>1. SubSeq(s, k + 1, n) = <<>>
      BY <2>4, <2>5, SubSeqEmpty
    <3> QED
      BY <1>2, <2>5, <3>1
  <2>7. k + 1 \in 1..Len(s) /\ Len(s) \in (k + 1)..Len(s)
    BY <2>4, <2>5, <2>6
  <2>8. Head(w.todo) = s[k + 1] /\ Tail(w.todo) = SubSeq(s, (k + 1) + 1, n)
    BY <2>4, <2>5, <2>7, HeadTailOfSubSeq
  <2>9. ~Refuses(c)
    <3>1. s[k + 1] # BadFile
      BY <2>4, <2>5, <2>6, LocalAssumption
    <3> QED
      BY <1>1, <2>8, <3>1 DEF Refuses
  <2>10. LoadedUpTo(k)'
    BY <1>3, <1>7, <2>5, LoadedKept, LocalAssumption
  <2>11. PICK m : m = k + 1
    OBVIOUS
  <2>12. m \in 0..n /\ m > 0 /\ m - 1 = k /\ m \in Nat
    BY <2>4, <2>5, <2>6, <2>11
  <2>13. /\ v.stage = "digest" /\ v.op # "registering" /\ v.write = AllToLoad'[m]
         /\ v.todo = SubSeq(AllToLoad', m + 1, Len(AllToLoad'))
    BY <1>2, <1>5, <1>8, <2>3, <2>8, <2>9, <2>11
  <2>14. LoadedUpTo(m - 1)'
    BY <2>10, <2>12
  <2>15. LoaderAt(c, m)'
    BY <1>6, <1>8, <2>3, <2>12, <2>13, <2>14 DEF LoaderAt, IsLoading
  <2>16. \A e \in LocalCallers \ {c} : local'[e].todo = <<>> /\ ~IsLoading(local'[e])
    BY <1>6, <2>1, <2>2
  <2> QED
    BY <2>12, <2>15, <2>16
<1>10. \A d \in LocalCallers : CallShape(local'[d])
  BY <1>5, <1>6 DEF LocalInv
<1> QED
  BY <1>2, <1>3, <1>6, <1>8, <1>9, <1>10 DEF LocalInv

(* What one more definition adds.                                          *)
LEMMA LoadsOneMore ==
  ASSUME NEW i, NEW a \in Nat, NEW k \in Nat, k > 0
  PROVE  Loads(i, a, k) = Loads(i, a, k - 1) \cup IF a <= k /\ AllToLoad[k][1] = i THEN {AllToLoad[k][2]} ELSE {}
<1>1. a..k = (a..(k - 1)) \cup IF a <= k THEN {k} ELSE {}
  OBVIOUS
<1> QED
  BY <1>1 DEF Loads

(* The loader sets the entry of the definition it took.                    *)
LEMMA LoadedOneMore ==
  ASSUME LocalInv, NEW k \in Nat, k > 0, LoadedUpTo(k - 1), loopsDir' = loopsDir,
         AllToLoad[k] \in LocalIds \X LocalVersions,
         entries' = [entries EXCEPT ![AllToLoad[k][1]] = AllToLoad[k][2]],
         \A i : RegisteredAs(i) \subseteq RegisteredAs(i)' /\ (WasRemoved(i) => WasRemoved(i)')
  PROVE  LoadedUpTo(k)'
<1>1. \A i, a, b : Loads(i, a, b)' = Loads(i, a, b)
  BY DEF Loads, AllToLoad
<1>2. Len(loopsDir)' = Len(loopsDir) /\ DOMAIN entries = LocalIds /\ Len(loopsDir) \in Nat
  BY ToLoad DEF LocalInv
<1> SUFFICES ASSUME NEW i \in LocalIds
             PROVE  /\ entries'[i] \in Loads(i, 1, k) \cup RegisteredAs(i)' \cup {NoEntry}
                    /\ Loads(i, 1, k) # {} /\ entries'[i] = NoEntry => WasRemoved(i)'
                    /\ Loads(i, Len(loopsDir) + 1, k) # {} =>
                         entries'[i] \in Loads(i, Len(loopsDir) + 1, k) \cup RegisteredAs(i)' \cup {NoEntry}
  BY <1>1, <1>2 DEF LoadedUpTo
<1>3. PICK A, B, R, S : A = Loads(i, 1, k - 1) /\ B = Loads(i, Len(loopsDir) + 1, k - 1)
                        /\ R = RegisteredAs(i) /\ S = RegisteredAs(i)'
  OBVIOUS
<1>4. /\ entries[i] \in A \cup R \cup {NoEntry}
      /\ A # {} /\ entries[i] = NoEntry => WasRemoved(i)
      /\ B # {} => entries[i] \in B \cup R \cup {NoEntry}
  BY <1>3 DEF LoadedUpTo
<1>5. R \subseteq S /\ (WasRemoved(i) => WasRemoved(i)')
  BY <1>3
<1>6. PICK f : f = AllToLoad[k]
  OBVIOUS
<1>7. PICK A1, B1 : A1 = Loads(i, 1, k) /\ B1 = Loads(i, Len(loopsDir) + 1, k)
  OBVIOUS
<1>8. PICK a : a = Len(loopsDir) + 1 /\ a \in Nat
  BY <1>2
<1>9. /\ A1 = A \cup IF f[1] = i THEN {f[2]} ELSE {}
      /\ B1 = B \cup IF a <= k /\ f[1] = i THEN {f[2]} ELSE {}
  <2>0. PICK one : one = 1 /\ one \in Nat
    OBVIOUS
  <2>1. A1 = Loads(i, one, k - 1) \cup IF one <= k /\ AllToLoad[k][1] = i THEN {AllToLoad[k][2]} ELSE {}
    BY <1>7, <2>0, LoadsOneMore
  <2>2. B1 = Loads(i, a, k - 1) \cup IF a <= k /\ AllToLoad[k][1] = i THEN {AllToLoad[k][2]} ELSE {}
    BY <1>7, <1>8, LoadsOneMore
  <2>3. one <= k
    BY <2>0
  <2>4. A1 = A \cup IF f[1] = i THEN {f[2]} ELSE {}
    BY <1>3, <1>6, <2>0, <2>1, <2>3
  <2>5. B1 = B \cup IF a <= k /\ f[1] = i THEN {f[2]} ELSE {}
    BY <1>3, <1>6, <1>8, <2>2
  <2> QED
    BY <2>4, <2>5
<1>10. B # {} => a <= k
  <2>1. a > k => a..(k - 1) = {}
    BY <1>8
  <2>2. a..(k - 1) = {} => B = {}
    BY <1>3, <1>8 DEF Loads
  <2> QED
    BY <1>8, <2>1, <2>2
<1>11. f[1] \in LocalIds /\ f[2] \in LocalVersions /\ f[2] # NoEntry
  BY <1>6, LocalAssumption
<1>12. CASE f[1] = i
  <2>1. entries'[i] = f[2]
    BY <1>2, <1>6, <1>12
  <2>2. f[2] \in A1 /\ (B1 # {} => f[2] \in B1)
    BY <1>9, <1>10, <1>12
  <2> QED
    BY <1>3, <1>7, <1>11, <2>1, <2>2
<1>13. CASE f[1] # i
  <2>1. entries'[i] = entries[i] /\ A1 = A /\ B1 = B
    BY <1>2, <1>6, <1>9, <1>13
  <2> QED
    BY <1>3, <1>4, <1>5, <1>7, <2>1
<1> QED
  BY <1>12, <1>13

LEMMA DigestedKeepsInv ==
  ASSUME LocalInv, NEW c \in LocalCallers, Digested(c)
  PROVE  LocalInv'
<1>1. PICK w : w = local[c]
  OBVIOUS
<1>2. CallShape(w) /\ w.stage = "digest" /\ DOMAIN local = LocalCallers /\ DOMAIN entries = LocalIds
  BY <1>1 DEF LocalInv, Digested
<1>3. loaded /\ loaded' = loaded /\ loopsDir' = loopsDir
      /\ entries' = [entries EXCEPT ![w.write[1]] = w.write[2]]
  BY <1>1, <1>2 DEF LocalInv, Digested
<1>4. CASE w.op = "registering"
  <2>1. PICK v : v = [w EXCEPT !.stage = "answered", !.result = "registered"]
    OBVIOUS
  <2>2. local' = [local EXCEPT ![c] = v]
    BY <1>1, <1>4, <2>1 DEF Digested
  <2>3. /\ DOMAIN v = LocalFields /\ v.stage = "answered" /\ v.op = w.op /\ v.id = w.id
        /\ v.version = w.version /\ v.todo = w.todo
    BY <1>2, <2>1 DEF CallShape, LocalFields
  <2>4. w.write = <<w.id, w.version>> /\ w.id \in LocalIds /\ w.version # NoEntry
    BY <1>2, <1>4, LocalAssumption DEF CallShape
  <2>5. local'[c] = v
    BY <1>2, <2>2
  <2>6. w.version \in RegisteredAs(w.id)'
    BY <1>4, <2>3, <2>5 DEF RegisteredAs
  <2>7. DOMAIN entries' = LocalIds
        /\ \A i \in LocalIds : entries'[i] = entries[i] \/ (i = w.id /\ entries'[i] = w.version)
    BY <1>2, <1>3, <2>4
  <2>8. \A i \in LocalIds : \/ entries'[i] = entries[i]
                            \/ entries'[i] \in RegisteredAs(i)' /\ entries'[i] # NoEntry
                            \/ entries'[i] = NoEntry /\ WasRemoved(i)'
    BY <2>4, <2>6, <2>7 DEF RegisteredAs
  <2>9. CallShape(v) /\ ~IsLoading(v) /\ ~IsLoading(w)
    BY <1>2, <1>4, <2>3 DEF CallShape, IsLoading
  <2>10. v.todo = <<>>
    BY <1>2, <1>4, <2>3 DEF CallShape
  <2> QED
    BY <1>1, <1>2, <1>3, <1>4, <2>2, <2>3, <2>7, <2>8, <2>9, <2>10, UnloadingStepKeepsInv
<1>5. CASE w.op # "registering"
  <2>1. PICK v : v = [w EXCEPT !.stage = "load"]
    OBVIOUS
  <2>2. local' = [local EXCEPT ![c] = v]
    BY <1>1, <1>5, <2>1 DEF Digested
  <2>3. /\ DOMAIN v = LocalFields /\ v.stage = "load" /\ v.op = w.op /\ v.id = w.id
        /\ v.version = w.version /\ v.todo = w.todo /\ v.result = w.result
    BY <1>2, <2>1 DEF CallShape, LocalFields
  <2>4. CallShape(v) /\ ~IsLoading(v) /\ IsLoading(w)
    BY <1>2, <1>5, <2>3 DEF CallShape, IsLoading
  <2>5. local'[c] = v /\ DOMAIN local' = LocalCallers /\ \A d \in LocalCallers \ {c} : local'[d] = local[d]
    BY <1>2, <2>2
  <2>6. \A i : RegisteredAs(i) \subseteq RegisteredAs(i)' /\ (WasRemoved(i) => WasRemoved(i)')
    BY <1>1, <1>2, <1>5, <2>2, CallsGrow
  <2>7. AllToLoad' = AllToLoad /\ AllParse' = AllParse
    BY <1>3 DEF AllToLoad, AllParse
  <2>8. ASSUME AllParse
        PROVE  \E k \in Nat : LoaderAt(c, k)' /\ \A e \in LocalCallers \ {c} : local'[e].todo = <<>> /\ ~IsLoading(local'[e])
    <3>1. PICK d \in LocalCallers, k \in Nat :
            /\ LoaderAt(d, k)
            /\ \A e \in LocalCallers \ {d} : local[e].todo = <<>> /\ ~IsLoading(local[e])
      BY <1>3, <2>8 DEF LocalInv
    <3>2. d = c
      BY <1>1, <2>4, <3>1
    <3>3. /\ k \in 0..Len(AllToLoad) /\ k > 0 /\ w.write = AllToLoad[k] /\ LoadedUpTo(k - 1)
          /\ w.todo = SubSeq(AllToLoad, k + 1, Len(AllToLoad))
      BY <1>1, <2>4, <3>1, <3>2 DEF LoaderAt
    <3>4. k \in 1..Len(AllToLoad)
      BY <3>3, ToLoad
    <3>5. AllToLoad[k] \in LocalIds \X LocalVersions
      BY <2>8, <3>4, ToLoad
    <3>6. LoadedUpTo(k)'
      BY <1>3, <2>6, <3>3, <3>5, LoadedOneMore
    <3>7. local'[c].stage = "load" /\ local'[c].todo = w.todo /\ ~IsLoading(local'[c])
          /\ local'[c].op # "registering"
      BY <1>5, <2>3, <2>4, <2>5
    <3>8. LoaderAt(c, k)'
      BY <2>7, <3>3, <3>6, <3>7 DEF LoaderAt
    <3>9. \A e \in LocalCallers \ {c} : local'[e].todo = <<>> /\ ~IsLoading(local'[e])
      BY <2>5, <3>1, <3>2
    <3> QED
      BY <3>8, <3>9
  <2>9. \A d \in LocalCallers : CallShape(local'[d])
    BY <2>4, <2>5 DEF LocalInv
  <2>10. DOMAIN entries' = LocalIds
    BY <1>2, <1>3
  <2> QED
    BY <1>3, <2>5, <2>7, <2>8, <2>9, <2>10 DEF LocalInv
<1> QED
  BY <1>4, <1>5

(* At rest the loader has loaded everything.                               *)
LEMMA AllIsLoaded ==
  ASSUME LocalInv, AllParse, \E c \in LocalCallers : local[c].stage = "answered",
         \A c \in LocalCallers : local[c].stage \in {"idle", "answered"}
  PROVE  LoadedUpTo(Len(AllToLoad))
<1>1. loaded
  BY DEF LocalInv
<1>2. PICK c \in LocalCallers, k \in Nat : LoaderAt(c, k)
  BY <1>1 DEF LocalInv
<1>3. local[c].stage = "answered"
  BY <1>2 DEF LoaderAt
<1>4. k = Len(AllToLoad)
  BY <1>2, <1>3, ToLoad DEF LoaderAt
<1> QED
  BY <1>2, <1>3, <1>4 DEF LoaderAt, IsLoading

(* However the first calls of a local registry overlap, and whatever is    *)
(* registered and removed meanwhile, nothing of a directory that parses    *)
(* and of the inline definitions is missing once it is at rest, for any    *)
(* directory, definitions and callers (local.ts).                          *)
THEOREM LocalRegistryLoadsAll == LocalSpec => []NothingIsMissing
<1>1. LocalInit => LocalInv
  <2> SUFFICES ASSUME LocalInit PROVE LocalInv
    OBVIOUS
  <2>1. PICK w : w = NoLocalCall
    OBVIOUS
  <2>2. /\ DOMAIN w = LocalFields /\ w.stage = "idle" /\ w.op = "none" /\ w.todo = <<>>
        /\ w.result = "none"
    BY <2>1 DEF NoLocalCall, LocalFields
  <2>3. CallShape(w)
    BY <2>2 DEF CallShape
  <2>4. \A a \in Nat : a > 0 => \A i : Loads(i, a, 0) = {}
    <3>1. \A a \in Nat : a > 0 => a..0 = {}
      OBVIOUS
    <3> QED
      BY <3>1 DEF Loads
  <2>5. DOMAIN local = LocalCallers /\ \A c \in LocalCallers : local[c] = w
    BY <2>1 DEF LocalInit
  <2>6. loopsDir \in Directories /\ loaded = FALSE /\ DOMAIN entries = LocalIds
        /\ \A i \in LocalIds : entries[i] = NoEntry
    BY DEF LocalInit
  <2>7. Len(loopsDir) \in Nat
    BY <2>6, LocalAssumption
  <2>8. LoadedUpTo(0)
    <3>1. PICK a : a = Len(loopsDir) + 1 /\ a \in Nat /\ a > 0
      BY <2>7
    <3>2. PICK one : one = 1 /\ one \in Nat /\ one > 0
      OBVIOUS
    <3>3. \A i : Loads(i, a, 0) = {} /\ Loads(i, one, 0) = {}
      BY <2>4, <3>1, <3>2
    <3> QED
      BY <2>6, <3>1, <3>2, <3>3 DEF LoadedUpTo
  <2> QED
    BY <2>2, <2>3, <2>5, <2>6, <2>8 DEF LocalInv
<1>2. LocalInv /\ [LocalNext]_localVars => LocalInv'
  <2> SUFFICES ASSUME LocalInv, [LocalNext]_localVars PROVE LocalInv'
    OBVIOUS
  <2>1. CASE UNCHANGED localVars
    <3>1. loopsDir' = loopsDir /\ entries' = entries /\ loaded' = loaded /\ local' = local
      BY <2>1 DEF localVars
    <3>2. \A d : LoadedUpTo(d)' = LoadedUpTo(d)
      BY <3>1 DEF LoadedUpTo, Loads, RegisteredAs, WasRemoved, AllToLoad
    <3>3. AllToLoad' = AllToLoad /\ AllParse' = AllParse
      BY <3>1 DEF AllToLoad, AllParse
    <3>4. \A c, k : LoaderAt(c, k)' = LoaderAt(c, k)
      BY <3>1, <3>2, <3>3 DEF LoaderAt
    <3>5. LoadedUpTo(0)' = LoadedUpTo(0)
      BY <3>2
    <3> QED
      BY <3>1, <3>3, <3>4, <3>5 DEF LocalInv
  <2>2. ASSUME NEW c \in LocalCallers, LocalStep(c) PROVE LocalInv'
    BY <2>2, LoadNextKeepsInv, ReadsKeepLocalInv, DigestedKeepsInv DEF LocalStep
  <2>3. ASSUME NEW c \in LocalCallers, NEW i \in LocalIds, NEW op \in {"get", "remove"},
               LocalCall(c, op, i, NoEntry, FALSE)
        PROVE  LocalInv'
    BY <2>3, LocalCallKeepsInv
  <2>4. ASSUME NEW c \in LocalCallers, NEW i \in LocalIds, NEW v \in LocalVersions, NEW f \in BOOLEAN,
               LocalCall(c, "register", i, v, f)
        PROVE  LocalInv'
    BY <2>4, LocalCallKeepsInv
  <2> QED
    BY <2>1, <2>2, <2>3, <2>4 DEF LocalNext
<1>3. LocalInv => NothingIsMissing
  <2> SUFFICES ASSUME LocalInv, AllParse, \E c \in LocalCallers : local[c].stage = "answered",
                      \A c \in LocalCallers : local[c].stage \in {"idle", "answered"},
                      NEW i \in LocalIds,
                      NEW given, given = IF i \in InlineIds THEN Versions(Inline, i) ELSE Versions(loopsDir, i)
               PROVE  \/ entries[i] \in given \cup RegisteredAs(i)
                      \/ entries[i] = NoEntry /\ given = {}
                      \/ entries[i] = NoEntry /\ WasRemoved(i)
    BY DEF NothingIsMissing, AllParse, WasRemoved
  <2>1. PICK a, n, s : a = Len(loopsDir) /\ n = Len(AllToLoad) /\ s = AllToLoad
    OBVIOUS
  <2>2. /\ a \in Nat /\ Inline \in Seq(LocalIds \X LocalVersions) /\ n = a + Len(Inline)
        /\ \A m \in 1..a : s[m] = loopsDir[m]
        /\ \A m \in 1..Len(Inline) : s[a + m] = Inline[m]
        /\ DOMAIN loopsDir = 1..a
    BY <2>1, ToLoad, LocalAssumption DEF LocalInv
  <2>3. LoadedUpTo(n)
    BY <2>1, AllIsLoaded
  <2>4. CASE i \in InlineIds
    <3>1. given = Versions(Inline, i) /\ given # {}
      BY <2>2, <2>4, LocalAssumption DEF Versions, InlineIds
    <3>2. given \subseteq Loads(i, a + 1, n)
      <4> SUFFICES ASSUME NEW m \in DOMAIN Inline, Inline[m][1] = i PROVE Inline[m][2] \in Loads(i, a + 1, n)
        BY <3>1 DEF Versions
      <4>1. a + m \in (a + 1)..n /\ s[a + m] = Inline[m]
        BY <2>2
      <4> QED
        BY <2>1, <4>1 DEF Loads
    <3>3. Loads(i, a + 1, n) \subseteq given
      <4> SUFFICES ASSUME NEW m \in (a + 1)..n, s[m][1] = i PROVE s[m][2] \in given
        BY <2>1 DEF Loads
      <4>1. PICK p : p = m - a /\ p \in 1..Len(Inline) /\ a + p = m
        BY <2>2
      <4>2. s[m] = Inline[p] /\ p \in DOMAIN Inline /\ Inline[p] # BadFile
        BY <2>2, <4>1, LocalAssumption
      <4>3. p \in {q \in DOMAIN Inline : Inline[q] # BadFile /\ Inline[q][1] = i}
        BY <4>2
      <4>4. Inline[p][2] \in Versions(Inline, i)
        BY <4>3 DEF Versions
      <4> QED
        BY <3>1, <4>2, <4>4
    <3>4. Loads(i, 1, n) # {}
      <4>1. Loads(i, a + 1, n) \subseteq Loads(i, 1, n)
        BY <2>2 DEF Loads
      <4> QED
        BY <3>1, <3>2, <4>1
    <3> QED
      BY <2>1, <2>3, <3>1, <3>2, <3>3, <3>4 DEF LoadedUpTo
  <2>5. CASE i \notin InlineIds
    <3>1. given = Versions(loopsDir, i)
      BY <2>5
    <3>2. Loads(i, 1, n) \subseteq given
      <4> SUFFICES ASSUME NEW m \in 1..n, s[m][1] = i PROVE s[m][2] \in given
        BY <2>1 DEF Loads
      <4>1. CASE m \in 1..a
        <5>1. s[m] = loopsDir[m] /\ m \in DOMAIN loopsDir /\ loopsDir[m] # BadFile
          BY <2>2, <4>1 DEF AllParse
        <5> QED
          BY <3>1, <5>1 DEF Versions
      <4>2. CASE m \notin 1..a
        <5>1. m - a \in 1..Len(Inline) /\ a + (m - a) = m
          BY <2>2, <4>2
        <5>2. s[m] = Inline[m - a] /\ m - a \in DOMAIN Inline
          BY <2>2, <5>1
        <5> QED
          BY <2>5, <5>2 DEF InlineIds
      <4> QED
        BY <4>1, <4>2
    <3>3. given \subseteq Loads(i, 1, n)
      <4> SUFFICES ASSUME NEW m \in DOMAIN loopsDir, loopsDir[m][1] = i PROVE loopsDir[m][2] \in Loads(i, 1, n)
        BY <3>1 DEF Versions
      <4>1. m \in 1..n /\ s[m] = loopsDir[m]
        BY <2>2
      <4> QED
        BY <2>1, <4>1 DEF Loads
    <3> QED
      BY <2>3, <3>2, <3>3 DEF LoadedUpTo
  <2> QED
    BY <2>4, <2>5
<1> QED
  BY <1>1, <1>2, <1>3, PTL DEF LocalSpec

-----------------------------------------------------------------------------
(* DefinitionBuilder.                                                      *)

(* What one more round of the search visits.                               *)
Round(d, S) == S \cup Targets(d, S)

(* f is the search up to round n, as Visited has it.                       *)
IsSearch(f, d, n) == f = [k \in 0..n |-> IF k = 0 THEN {d.initial} ELSE Round(d, f[k - 1])]

(* There is one, by induction on the number of rounds.                     *)
LEMMA SearchExists ==
  ASSUME NEW d, NEW n \in Nat
  PROVE  \E f : IsSearch(f, d, n)
<1> DEFINE Bad == {m \in Nat : ~\E f : IsSearch(f, d, m)}
<1>1. ASSUME Bad # {} PROVE FALSE
  <2>1. PICK m \in Bad : \A k \in Bad : m <= k
    BY <1>1, LeastNumber
  <2>2. CASE m = 0
    <3>1. PICK f : f = [k \in 0..m |-> {d.initial}]
      OBVIOUS
    <3>2. IsSearch(f, d, m)
      BY <2>2, <3>1 DEF IsSearch
    <3> QED
      BY <2>1, <3>2
  <2>3. CASE m # 0
    <3>1. m \in Nat /\ m - 1 \in Nat /\ m - 1 \notin Bad
      <4>1. m \in Nat
        BY <2>1
      <4> HIDE DEF Bad
      <4>2. m - 1 \in Bad => m <= m - 1
        BY <2>1
      <4> QED
        BY <2>3, <4>1, <4>2
    <3>2. PICK g : IsSearch(g, d, m - 1)
      BY <3>1
    <3>3. PICK f : f = [k \in 0..m |-> IF k < m THEN g[k] ELSE Round(d, g[m - 1])]
      OBVIOUS
    <3>4. \A k \in 0..m : f[k] = IF k = 0 THEN {d.initial} ELSE Round(d, f[k - 1])
      <4> SUFFICES ASSUME NEW k \in 0..m PROVE f[k] = IF k = 0 THEN {d.initial} ELSE Round(d, f[k - 1])
        OBVIOUS
      <4>1. CASE k = m
        BY <2>3, <3>1, <3>3, <4>1
      <4>2. CASE k # m
        <5>1. k \in 0..(m - 1) /\ k < m /\ (k # 0 => k - 1 \in 0..m /\ k - 1 < m)
          BY <3>1, <4>2
        <5>2. g[k] = IF k = 0 THEN {d.initial} ELSE Round(d, g[k - 1])
          BY <3>2, <5>1 DEF IsSearch
        <5> QED
          BY <3>3, <5>1, <5>2
      <4> QED
        BY <4>1, <4>2
    <3>5. IsSearch(f, d, m)
      BY <3>3, <3>4 DEF IsSearch
    <3> QED
      BY <2>1, <3>5
  <2> QED
    BY <2>2, <2>3
<1>2. n \notin Bad
  BY <1>1
<1> QED
  BY <1>2

LEMMA SearchIsRounds ==
  ASSUME NEW d, NEW n \in Nat, n = Len(d.transitions)
  PROVE  \E f : IsSearch(f, d, n) /\ Visited(d) = f[n]
<1>1. PICK f : f = CHOOSE g : IsSearch(g, d, n)
  OBVIOUS
<1>2. IsSearch(f, d, n)
  BY <1>1, SearchExists
<1>3. Visited(d) = f[n]
  BY <1>1 DEF Visited, Round, IsSearch
<1> QED
  BY <1>2, <1>3

(* A walk of at most k transitions leads to s.                             *)
WalksTo(d, s, k) ==
  \E m \in 1..k : \E w \in [1..m -> DOMAIN d.transitions] :
    IsWalk(d, w) /\ Len(w) = m /\ d.transitions[w[m]].to = s

LEMMA FirstStep ==
  ASSUME NEW d, NEW j \in DOMAIN d.transitions, d.transitions[j].from = d.initial, NEW k \in Nat, k > 0
  PROVE  WalksTo(d, d.transitions[j].to, k)
<1> DEFINE D == DOMAIN d.transitions
<1>0. PICK one : one = 1 /\ one \in Nat
  OBVIOUS
<1>1. PICK w : w = [i \in 1..one |-> j]
  OBVIOUS
<1>2. w \in [1..one -> D] /\ w[one] = j
  BY <1>0, <1>1
<1>3. w \in Seq(D)
  <2>1. \A n \in Nat : \A v \in [1..n -> D] : v \in Seq(D)
    OBVIOUS
  <2>2. one \in Nat /\ w \in [1..one -> D]
    BY <1>0, <1>2
  <2> HIDE DEF D
  <2> QED
    BY <2>1, <2>2
<1>4. Len(w) = one
  BY <1>0, <1>2, <1>3, LenProperties
<1>5. IsWalk(d, w)
  BY <1>0, <1>2, <1>4 DEF IsWalk
<1>6. one \in 1..k
  BY <1>0
<1> QED
  BY <1>2, <1>4, <1>5, <1>6 DEF WalksTo

LEMMA NextStep ==
  ASSUME NEW d, NEW j \in DOMAIN d.transitions, NEW k \in Nat, WalksTo(d, d.transitions[j].from, k)
  PROVE  WalksTo(d, d.transitions[j].to, k + 1)
<1> DEFINE D == DOMAIN d.transitions
<1>1. PICK m \in 1..k : \E w \in [1..m -> D] :
        IsWalk(d, w) /\ Len(w) = m /\ d.transitions[w[m]].to = d.transitions[j].from
  BY DEF WalksTo
<1>2. PICK w \in [1..m -> D] :
        IsWalk(d, w) /\ Len(w) = m /\ d.transitions[w[m]].to = d.transitions[j].from
  BY <1>1
<1>3. PICK p : p = m + 1 /\ p \in 1..(k + 1) /\ p \in Nat /\ m \in Nat
  OBVIOUS
<1>4. PICK x : x = [i \in 1..p |-> IF i <= m THEN w[i] ELSE j]
  OBVIOUS
<1>5. x \in [1..p -> D] /\ x[p] = j /\ \A i \in 1..m : x[i] = w[i]
  BY <1>2, <1>3, <1>4
<1>6. x \in Seq(D)
  BY <1>3, <1>5
<1>7. Len(x) = p
  BY <1>3, <1>5, <1>6, LenProperties
<1>8. d.transitions[x[1]].from = d.initial
  BY <1>2, <1>3, <1>5 DEF IsWalk
<1>9. ASSUME NEW i \in 1..(p - 1) PROVE d.transitions[x[i]].to = d.transitions[x[i+1]].from
  <2>1. CASE i = m
    <3>1. x[i] = w[m] /\ x[i + 1] = j
      BY <1>3, <1>5, <2>1
    <3> QED
      BY <1>2, <3>1
  <2>2. CASE i # m
    <3>1. i \in 1..(m - 1) /\ i \in 1..m /\ i + 1 \in 1..m
      BY <1>3, <2>2
    <3>2. x[i] = w[i] /\ x[i + 1] = w[i + 1]
      BY <1>5, <3>1
    <3> QED
      BY <1>2, <3>1, <3>2 DEF IsWalk
  <2> QED
    BY <2>1, <2>2
<1>10. IsWalk(d, x)
  BY <1>3, <1>7, <1>8, <1>9 DEF IsWalk
<1> QED
  BY <1>3, <1>5, <1>7, <1>10 DEF WalksTo

(* Behind every state the search visits there is a walk, by induction on   *)
(* the rounds.                                                             *)
LEMMA VisitedIsReached ==
  ASSUME NEW d, NEW n \in Nat, n = Len(d.transitions), DOMAIN d.transitions = 1..n, NEW s \in Visited(d)
  PROVE  s = d.initial \/ \E w \in Walks(d) : d.transitions[w[Len(w)]].to = s
<1>1. PICK f : IsSearch(f, d, n) /\ Visited(d) = f[n]
  BY SearchIsRounds
<1>2. \A k \in 0..n : f[k] = IF k = 0 THEN {d.initial} ELSE Round(d, f[k - 1])
  BY <1>1 DEF IsSearch
<1> DEFINE Reached(u, k) == u = d.initial \/ WalksTo(d, u, k)
           Bad == {k \in Nat : k <= n /\ \E u \in f[k] : ~Reached(u, k)}
<1>3. ASSUME Bad # {} PROVE FALSE
  <2>1. PICK k \in Bad : \A m \in Bad : k <= m
    BY <1>3, LeastNumber
  <2>2. k \in Nat /\ k <= n
    BY <2>1
  <2>3. PICK u \in f[k] : ~Reached(u, k)
    BY <2>1
  <2>4. k # 0
    BY <1>2, <2>2, <2>3
  <2>5. PICK p : p = k - 1 /\ p \in Nat /\ k = p + 1 /\ p < k
    BY <2>2, <2>4
  <2>6. p \notin Bad
    <3> HIDE DEF Bad
    <3> QED
      BY <2>1, <2>2, <2>5
  <2>7. \A v \in f[p] : Reached(v, p)
    BY <2>2, <2>5, <2>6
  <2>8. u \in f[p] \cup Targets(d, f[p])
    <3>1. k \in 0..n
      BY <2>2
    <3>2. f[k] = Round(d, f[p])
      BY <1>2, <2>4, <2>5, <3>1
    <3> QED
      BY <2>3, <3>2 DEF Round
  <2>9. CASE u \in f[p]
    <3>1. Reached(u, p)
      BY <2>7, <2>9
    <3>2. \A m \in 1..p : m \in 1..k
      BY <2>2, <2>5
    <3> QED
      BY <2>3, <3>1, <3>2 DEF WalksTo
  <2>10. CASE u \in Targets(d, f[p])
    <3>1. PICK j \in DOMAIN d.transitions : d.transitions[j].from \in f[p] /\ u = d.transitions[j].to
      BY <2>10 DEF Targets
    <3>2. CASE d.transitions[j].from = d.initial
      <4>1. k > 0
        BY <2>2, <2>4
      <4> QED
        BY <2>2, <2>3, <3>1, <3>2, <4>1, FirstStep
    <3>3. CASE WalksTo(d, d.transitions[j].from, p)
      BY <2>3, <2>5, <3>1, <3>3, NextStep
    <3> QED
      BY <2>7, <3>1, <3>2, <3>3
  <2> QED
    BY <2>8, <2>9, <2>10
<1>4. Reached(s, n)
  BY <1>1, <1>3
<1>5. ASSUME WalksTo(d, s, n) PROVE \E w \in Walks(d) : d.transitions[w[Len(w)]].to = s
  <2>1. PICK m \in 1..n : \E w \in [1..m -> DOMAIN d.transitions] :
          IsWalk(d, w) /\ Len(w) = m /\ d.transitions[w[m]].to = s
    BY <1>5 DEF WalksTo
  <2>2. PICK w \in [1..m -> DOMAIN d.transitions] :
          IsWalk(d, w) /\ Len(w) = m /\ d.transitions[w[m]].to = s
    BY <2>1
  <2>3. w \in UNION {[1..k -> DOMAIN d.transitions] : k \in 1..Len(d.transitions)}
    BY <2>1, <2>2
  <2> QED
    BY <2>2, <2>3 DEF Walks
<1> QED
  BY <1>4, <1>5

DraftFields == {"version", "description", "terminal", "transitions", "initial", "metrics"}

PartNames == {"states", "initial", "metrics", "terminals", "transitions"}

(* A definition that build() let through: the schema changes nothing more  *)
(* of it, and validateLoopDefinition finds nothing wrong.                  *)
Finished(d) ==
  /\ d = [f \in PartNames |-> d[f]]
  /\ DOMAIN d.transitions = 1..Len(d.transitions) /\ Len(d.transitions) \in Nat
  /\ d.transitions = [i \in DOMAIN d.transitions |-> WithSignal(d.transitions[i])]
  /\ SchemaAccepts(d)
  /\ Errors(d) = {}

TextOf(d) ==
  [states |-> d.states, initial |-> d.initial, metrics |-> d.metrics,
   terminals |-> d.terminals, transitions |-> d.transitions]

BuilderInv ==
  /\ DOMAIN draft = DraftFields /\ draft.transitions \in Seq(Drafts)
  /\ built # NoDefinition => Finished(built)
  /\ text # NoDefinition => built # NoDefinition /\ text = TextOf(built)
  /\ read # NoDefinition => built # NoDefinition /\ read = built

(* The signal is filled in once.                                           *)
LEMMA SignalOnce ==
  ASSUME NEW t
  PROVE  WithSignal(WithSignal(t)) = WithSignal(t)
<1>1. PICK u : u = WithSignal(t)
  OBVIOUS
<1>2. PICK s : u = [id |-> t.id, from |-> t.from, to |-> t.to, actors |-> t.actors, guards |-> t.guards,
                    signal |-> s]
  BY <1>1 DEF WithSignal
<1>3. u.id = t.id /\ u.from = t.from /\ u.to = t.to /\ u.actors = t.actors /\ u.guards = t.guards
      /\ u.signal = s /\ "signal" \in DOMAIN u
  BY <1>2
<1>4. WithSignal(u) = u
  BY <1>2, <1>3 DEF WithSignal
<1> QED
  BY <1>1, <1>4

LEMMA BuildFinishes ==
  ASSUME NEW b, b.transitions \in Seq(Drafts), Refusal(b) = "no"
  PROVE  Finished(FromSchema(Normalized(b)))
<1>1. PICK n : n = Len(b.transitions) /\ n \in Nat /\ DOMAIN b.transitions = 1..n
  OBVIOUS
<1>2. PICK m : m = Normalized(b)
  OBVIOUS
<1>3. PICK d : d = FromSchema(m)
  OBVIOUS
<1>4. SchemaAccepts(m) /\ Errors(d) = {}
  BY <1>2, <1>3 DEF Refusal
<1>5. PICK ts : ts = [i \in 1..n |-> WithSignal(b.transitions[i])]
  OBVIOUS
<1>6. DOMAIN m = PartNames /\ m.transitions = ts
  BY <1>1, <1>2, <1>5 DEF Normalized, PartNames
<1>7. [i \in DOMAIN ts |-> WithSignal(ts[i])] = ts
  <2>1. \A i \in 1..n : WithSignal(ts[i]) = ts[i]
    BY <1>5, SignalOnce
  <2> QED
    BY <1>5, <2>1
<1>8. d = [m EXCEPT !.transitions = ts]
  BY <1>3, <1>6, <1>7 DEF FromSchema
<1>9. d = [f \in PartNames |-> d[f]] /\ d.transitions = ts
  BY <1>6, <1>8 DEF PartNames
<1>10. DOMAIN ts = 1..n /\ Len(ts) = n
  BY <1>1, <1>5
<1>11. SchemaAccepts(d)
  BY <1>4, <1>6, <1>9 DEF SchemaAccepts
<1> QED
  BY <1>1, <1>2, <1>3, <1>4, <1>7, <1>9, <1>10, <1>11 DEF Finished

(* A parser gives back what was serialized.                                *)
LEMMA ParseGivesBack ==
  ASSUME NEW d, Finished(d)
  PROVE  FromSchema(TextOf(d)) = d
<1>1. PICK t : t = TextOf(d)
  OBVIOUS
<1>2. DOMAIN t = PartNames /\ t.states = d.states /\ t.initial = d.initial /\ t.metrics = d.metrics
      /\ t.terminals = d.terminals /\ t.transitions = d.transitions
  BY <1>1 DEF TextOf, PartNames
<1>3. FromSchema(t) = [t EXCEPT !.transitions = d.transitions]
  BY <1>2 DEF FromSchema, Finished
<1>4. PICK r : r = [t EXCEPT !.transitions = d.transitions]
  OBVIOUS
<1>5. r = [f \in PartNames |-> r[f]] /\ \A f \in PartNames : r[f] = d[f]
  BY <1>2, <1>4 DEF PartNames
<1>6. r = d
  BY <1>5 DEF Finished
<1> QED
  BY <1>1, <1>3, <1>4, <1>6

(* Of a definition without errors a walk ends in a terminal state.         *)
LEMMA FinishedCompletes ==
  ASSUME NEW d, Finished(d)
  PROVE  /\ \/ d.initial \in d.terminals
            \/ \E w \in Walks(d) : d.transitions[w[Len(w)]].to \in d.terminals
         /\ \A i \in DOMAIN d.transitions :
              d.transitions[i].actors # {} /\ {d.transitions[i].from, d.transitions[i].to} \subseteq d.states
<1>1. "INVALID_TRANSITION_STATE" \notin Errors(d) /\ "NO_TERMINAL_STATE" \notin Errors(d)
      /\ "LOOP_NOT_COMPLETABLE" \notin Errors(d)
  BY DEF Finished
<1>2. \A i \in DOMAIN d.transitions : {d.transitions[i].from, d.transitions[i].to} \subseteq d.states
  BY <1>1 DEF Errors
<1>3. Visited(d) \cap d.terminals # {}
  <2>1. d.terminals # {}
    BY <1>1 DEF Errors
  <2>2. Completable(d)
    BY <1>1, <2>1 DEF Errors
  <2> QED
    BY <2>2 DEF Completable, HasPathToTerminal
<1>4. PICK s \in Visited(d) : s \in d.terminals
  BY <1>3
<1>5. PICK n \in Nat : n = Len(d.transitions) /\ DOMAIN d.transitions = 1..n
  BY DEF Finished
<1>6. s = d.initial \/ \E w \in Walks(d) : d.transitions[w[Len(w)]].to = s
  BY <1>4, <1>5, VisitedIsReached
<1>7. \A i \in DOMAIN d.transitions : d.transitions[i].actors # {}
  BY DEF Finished, SchemaAccepts
<1> QED
  BY <1>2, <1>4, <1>6, <1>7

(* Whatever is authored, a definition that build() returns can be walked   *)
(* from its initial state to a terminal one over transitions with actors,  *)
(* and is read back from its file as it was: the search of                 *)
(* validateLoopDefinition is right for any number of states and            *)
(* transitions (builder.ts, validator.ts, serializer.ts, parser.ts).       *)
THEOREM BuiltDefinitionsComplete == BuilderSpec => []BuiltLoopsComplete
<1>1. BuilderInit => BuilderInv
  <2> SUFFICES ASSUME BuilderInit PROVE BuilderInv
    OBVIOUS
  <2>1. DOMAIN draft = DraftFields /\ draft.transitions = <<>>
    BY DEF BuilderInit, Empty, DraftFields
  <2> QED
    BY <2>1 DEF BuilderInit, BuilderInv
<1>2. BuilderInv /\ [BuilderNext]_builderVars => BuilderInv'
  <2> SUFFICES ASSUME BuilderInv, [BuilderNext]_builderVars PROVE BuilderInv'
    OBVIOUS
  <2>1. CASE UNCHANGED builderVars
    BY <2>1 DEF builderVars, BuilderInv
  <2>2. ASSUME Authoring, DOMAIN draft' = DraftFields, draft'.transitions \in Seq(Drafts)
        PROVE  BuilderInv'
    BY <2>2 DEF BuilderInv, Authoring
  <2>3. CASE \/ SetVersion \/ SetDescription
             \/ \E t \in BOOLEAN : AddState(t)
             \/ \E s \in 1..MaxStates : SetInitialState(s)
             \/ \E t \in Drafts : AddTransition(t)
             \/ \E n \in {0, 1} : SetOutcome(n)
    <3>1. Authoring /\ DOMAIN draft' = DraftFields
      BY <2>3 DEF BuilderInv, SetVersion, SetDescription, AddState, SetInitialState, AddTransition, SetOutcome
    <3>2. draft'.transitions = draft.transitions
          \/ \E t \in Drafts : draft'.transitions = Append(draft.transitions, t)
      BY <2>3 DEF BuilderInv, DraftFields, SetVersion, SetDescription, AddState, SetInitialState,
                  AddTransition, SetOutcome
    <3>3. draft'.transitions \in Seq(Drafts)
      BY <3>2 DEF BuilderInv
    <3> QED
      BY <2>2, <3>1, <3>3
  <2>4. CASE Build
    <3>1. thrown' = "no" => Refusal(draft) = "no" /\ Finished(FromSchema(Normalized(draft)))
      BY <2>4, BuildFinishes DEF Build, BuilderInv
    <3>2. built' = IF thrown' = "no" THEN FromSchema(Normalized(draft)) ELSE NoDefinition
      BY <2>4 DEF Build
    <3>3. built' # NoDefinition => Finished(built')
      BY <3>1, <3>2
    <3> QED
      BY <2>4, <3>3 DEF Build, BuilderInv
  <2>5. CASE Serialize
    BY <2>5 DEF Serialize, BuilderInv, TextOf
  <2>6. CASE Parse
    <3>1. text = TextOf(built) /\ Finished(built) /\ built # NoDefinition
      BY <2>6 DEF Parse, BuilderInv
    <3>2. read' = built \/ read' = NoDefinition
      BY <2>6, <3>1, ParseGivesBack DEF Parse
    <3> QED
      BY <2>6, <3>1, <3>2 DEF Parse, BuilderInv
  <2> QED
    BY <2>1, <2>3, <2>4, <2>5, <2>6 DEF BuilderNext
<1>3. BuilderInv => BuiltLoopsComplete
  <2> SUFFICES ASSUME BuilderInv, NEW d \in {built, read} \ {NoDefinition}
               PROVE  /\ d = built
                      /\ \/ d.initial \in d.terminals
                         \/ \E w \in Walks(d) : d.transitions[w[Len(w)]].to \in d.terminals
                      /\ \A i \in DOMAIN d.transitions :
                           d.transitions[i].actors # {} /\ {d.transitions[i].from, d.transitions[i].to} \subseteq d.states
    BY DEF BuiltLoopsComplete
  <2>1. d = built /\ Finished(d)
    BY DEF BuilderInv
  <2> QED
    BY <2>1, FinishedCompletes
<1> QED
  BY <1>1, <1>2, <1>3, PTL DEF BuilderSpec
=============================================================================
