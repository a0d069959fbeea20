---------------------------- MODULE RegistryClient ----------------------------
(***************************************************************************)
(* The registries that fetch loop definitions over HTTP, of                *)
(* packages/registry-client/src: httpRegistry, which asks a flat `/loops`  *)
(* server, and v0Registry (also behind betterDataRegistry), which asks for *)
(* a summary and then for the artifact of a version.  Each keeps the last  *)
(* list() for a time to live.  Any number of calls may be in flight on one *)
(* registry, while other publishers change the catalog of the server.      *)
(*                                                                         *)
(* A definition is the pair of its id and its version.  The domain filter, *)
(* which only splits the cache by key, headers and URLs are left out; a    *)
(* page of the v0 list is one loop.                                        *)
(***************************************************************************)
EXTENDS Integers, FiniteSets

CONSTANTS
  LoopNames,      \* ids of loop definitions; the catalog lists them in order
  Requests,       \* calls made on the registry
  FirstCatalog,   \* what the server holds at first
  Invalid,        \* <<id, version>> that validateLoopDefinition rejects
  Ttl,            \* cacheTtlMs; 0 is no cache
  Retries,        \* of fetchWithRetry
  MaxVersion, MaxTime, MaxLosses, MaxPublished,   \* bounds
  NoList          \* a cache without an entry

ASSUME RegistryAssumption ==
  /\ LoopNames \subseteq Nat /\ LoopNames # {}
  /\ {Ttl, Retries, MaxVersion, MaxTime, MaxLosses, MaxPublished} \subseteq Nat
  /\ FirstCatalog \in [LoopNames -> 0..MaxVersion]

VARIABLES
  kind,      \* the factory that made the registry: "flat" or "v0"
  now,       \* Date.now()
  catalog,   \* id -> recommended version on the server, 0 when it has none
  held,      \* history: what the catalog held during each tick
  cached,    \* its listCache entry
  asks,      \* call -> its locals and the request it awaits
  losses,    \* requests and replies lost so far
  published  \* changes other publishers made so far

registryVars == <<kind, now, catalog, held, cached, asks, losses, published>>

Catalogs == [LoopNames -> 0..MaxVersion]
Results == {"none", "found", "null", "error", "conflict", "ok", "false"}
Stages == {"idle", "sent", "replied", "answered"}

Idle == [stage |-> "idle", op |-> "none", id |-> 0, began |-> 0, attempt |-> 0,
         want |-> "none", version |-> 0, data |-> <<>>, reply |-> <<>>, result |-> "none"]

RegistryTypeOK ==
  /\ kind \in {"flat", "v0"}
  /\ now \in 0..MaxTime
  /\ catalog \in Catalogs
  /\ cached # NoList => cached.until \in 0..(MaxTime + Ttl)
  /\ \A r \in Requests : asks[r].stage \in Stages /\ asks[r].result \in Results
  /\ \A r \in Requests : asks[r].attempt \in 0..Retries
  /\ losses \in 0..MaxLosses
  /\ published \in 0..MaxPublished

RegistryInit ==
  /\ now = 0
  /\ kind \in {"flat", "v0"}
  /\ catalog = FirstCatalog
  /\ held = [t \in 0..MaxTime |-> IF t = 0 THEN {<<i, catalog[i]>> : i \in LoopNames} ELSE {}]
  /\ cached = NoList
  /\ asks = [r \in Requests |-> Idle]
  /\ losses = 0
  /\ published = 0

-----------------------------------------------------------------------------
(* The server and the clock.                                               *)

Store(c) ==
  /\ catalog' = c
  /\ held' = [held EXCEPT ![now] = @ \cup {<<i, c[i]>> : i \in LoopNames}]

(* Another publisher adds a version, or withdraws a loop.                  *)
Publish(i) ==
  /\ published < MaxPublished
  /\ published' = published + 1
  /\ \/ catalog[i] < MaxVersion /\ Store([catalog EXCEPT ![i] = @ + 1])
     \/ catalog[i] > 0 /\ Store([catalog EXCEPT ![i] = 0])
  /\ UNCHANGED <<kind, now, cached, asks, losses>>

Tick ==
  /\ now < MaxTime
  /\ now' = now + 1
  /\ held' = [held EXCEPT ![now + 1] = {<<i, catalog[i]>> : i \in LoopNames}]
  /\ UNCHANGED <<kind, catalog, cached, asks, losses, published>>

(* What the server does for request q and answers.                         *)
Serve(r) ==
  LET q == asks[r] IN
  /\ q.stage = "sent"
  /\ \/ /\ q.want \in {"loop", "summary", "page"}
        /\ asks' = [asks EXCEPT ![r].stage = "replied", ![r].reply = [version |-> catalog[q.id]]]
        /\ UNCHANGED <<kind, catalog, held>>
     \/ /\ q.want = "list"
        /\ asks' = [asks EXCEPT ![r].stage = "replied", ![r].reply = catalog]
        /\ UNCHANGED <<kind, catalog, held>>
     \/ /\ q.want = "artifact"
        /\ asks' = [asks EXCEPT ![r].stage = "replied",
                     ![r].reply = [version |-> IF q.version <= catalog[q.id] THEN q.version ELSE 0]]
        /\ UNCHANGED <<kind, catalog, held>>
     \/ /\ q.want = "post"
        /\ LET new == catalog[q.id] # q.version
           IN /\ asks' = [asks EXCEPT ![r].stage = "replied",
                           ![r].reply = [status |-> IF new THEN 201 ELSE 409]]
              /\ IF new THEN Store([catalog EXCEPT ![q.id] = q.version])
                        ELSE UNCHANGED <<kind, catalog, held>>
     \/ /\ q.want = "delete"
        /\ asks' = [asks EXCEPT ![r].stage = "replied",
                     ![r].reply = [status |-> IF catalog[q.id] > 0 THEN 204 ELSE 404]]
        /\ Store([catalog EXCEPT ![q.id] = 0])
  /\ UNCHANGED <<kind, now, cached, losses, published>>

-----------------------------------------------------------------------------
(* The calls.  Send makes the first attempt of a request.                  *)

Send(r, want, i, v, data) ==
  asks' = [asks EXCEPT ![r] = [@ EXCEPT !.stage = "sent", !.attempt = 0, !.reply = <<>>,
                                        !.want = want, !.id = i, !.version = v, !.data = data]]

Answer(r, result, data) ==
  asks' = [asks EXCEPT ![r].stage = "answered", ![r].result = result,
                       ![r].data = data, ![r].reply = <<>>]

Fresh == cached # NoList /\ cached.until > now

Parsed(i, v) == <<i, v>> \notin Invalid

Begin(r, op, i, v) ==
  [Idle EXCEPT !.op = op, !.id = i, !.began = now, !.version = v]

(* get(id), and has(id): a flat registry looks at its lists first.         *)
InCache(i) ==
  /\ kind = "flat"
  /\ Fresh
  /\ cached.data[i] > 0

Get(r, i) ==
  /\ asks[r].stage = "idle"
  /\ LET q == Begin(r, "get", i, 0)
     IN asks' = [asks EXCEPT ![r] =
          IF InCache(i)
          THEN [q EXCEPT !.stage = "answered", !.result = "found",
                         !.data = [j \in {i} |-> cached.data[i]]]
          ELSE [q EXCEPT !.stage = "sent",
                         !.want = IF kind = "flat" THEN "loop" ELSE "summary"]]
  /\ UNCHANGED <<kind, now, catalog, held, cached, losses, published>>

FirstLoop == CHOOSE i \in LoopNames : \A j \in LoopNames : i <= j

(* list(): answered from the cache, or asked for.                          *)
List(r) ==
  /\ asks[r].stage = "idle"
  /\ LET q == Begin(r, "list", FirstLoop, 0)
     IN asks' = [asks EXCEPT ![r] =
          IF Fresh
          THEN [q EXCEPT !.stage = "answered", !.result = "found", !.data = cached.data]
          ELSE [q EXCEPT !.stage = "sent", !.data = [j \in LoopNames |-> 0],
                         !.want = IF kind = "flat" THEN "list" ELSE "page"]]
  /\ UNCHANGED <<kind, now, catalog, held, cached, losses, published>>

(* register(definition) and remove(id); a v0 registry does neither.        *)
Change(r, op, i, v) ==
  /\ asks[r].stage = "idle"
  /\ LET q == Begin(r, op, i, v)
     IN asks' = [asks EXCEPT ![r] =
          IF kind = "flat"
          THEN [q EXCEPT !.stage = "sent", !.want = IF op = "register" THEN "post" ELSE "delete"]
          ELSE [q EXCEPT !.stage = "answered", !.result = IF op = "register" THEN "error" ELSE "false"]]
  /\ UNCHANGED <<kind, now, catalog, held, cached, losses, published>>

(* The next attempt of a request, and the end of its attempts.             *)
Retried(q) == [q EXCEPT !.stage = "sent", !.attempt = @ + 1, !.reply = <<>>]

GivenUp(q) == [q EXCEPT !.stage = "answered", !.result = "error", !.data = <<>>, !.reply = <<>>]

(* fetchWithRetry: a request or a reply that is lost, times out, or is a   *)
(* status of 500 and more, is tried again `Retries` times.                 *)
Lose(r) ==
  /\ losses < MaxLosses
  /\ losses' = losses + 1
  /\ asks[r].stage \in {"sent", "replied"}
  /\ asks' = [asks EXCEPT ![r] = IF @.attempt < Retries THEN Retried(@) ELSE GivenUp(@)]
  /\ UNCHANGED <<kind, now, catalog, held, cached, published>>

(* Any other status, 401 or 429 for one, and a body that is not what was   *)
(* asked for, end the call at once.                                        *)
Refused(r) ==
  /\ asks[r].stage \in {"sent", "replied"}
  /\ asks' = [asks EXCEPT ![r] = GivenUp(@)]
  /\ UNCHANGED <<kind, now, catalog, held, cached, losses, published>>

(* The answer of get is in: the definition, 404, or one that is not valid. *)
GetReplied(r) ==
  LET q == asks[r]  v == q.reply.version IN
  /\ q.stage = "replied" /\ q.op = "get" /\ q.want \in {"loop", "artifact"}
  /\ CASE v = 0 -> Answer(r, "null", [j \in {q.id} |-> 0])
       [] v # 0 /\ ~Parsed(q.id, v) -> Answer(r, "error", <<>>)
       [] OTHER -> Answer(r, "found", [j \in {q.id} |-> v])
  /\ UNCHANGED <<kind, now, catalog, held, cached, losses, published>>

(* The summary names a version, whose artifact is asked for next.          *)
Recommended(r) ==
  LET q == asks[r] IN
  /\ q.stage = "replied" /\ q.want \in {"summary", "page"} /\ q.reply.version > 0
  /\ Send(r, "artifact", q.id, q.reply.version, q.data)
  /\ UNCHANGED <<kind, now, catalog, held, cached, losses, published>>

NoSummary(r) ==
  /\ asks[r].stage = "replied" /\ asks[r].want = "summary" /\ asks[r].reply.version = 0
  /\ Answer(r, "null", [j \in {asks[r].id} |-> 0])
  /\ UNCHANGED <<kind, now, catalog, held, cached, losses, published>>

(* The entry that list() leaves: it lives from the time list() was called. *)

(* Mutant: from the time the last page came.                               *)
EntryFromNow(r, data) == [data |-> data, until |-> now + Ttl]

Entry(r, data) == [data |-> data, until |-> asks[r].began + Ttl]

Listed(r, data) ==
  /\ IF \E i \in LoopNames : data[i] > 0 /\ ~Parsed(i, data[i])
     THEN Answer(r, "error", <<>>) /\ UNCHANGED cached
     ELSE /\ Answer(r, "found", data)
          /\ cached' = IF Ttl > 0 THEN Entry(r, data) ELSE cached
  /\ UNCHANGED <<kind, now, catalog, held, losses, published>>

(* A flat list comes in one reply.                                         *)
ListReplied(r) ==
  /\ asks[r].stage = "replied" /\ asks[r].want = "list"
  /\ Listed(r, asks[r].reply)

(* A loop of a v0 list: its artifact, or nothing; then the next page.      *)
PageDone(r) ==
  LET q == asks[r]
      later == {j \in LoopNames : j > q.id}
      data == [q.data EXCEPT ![q.id] = q.reply.version]
  IN
  /\ q.stage = "replied" /\ q.op = "list"
  /\ q.want = "artifact" \/ (q.want = "page" /\ q.reply.version = 0)
  /\ IF later = {} \/ (data[q.id] > 0 /\ ~Parsed(q.id, data[q.id]))
     THEN Listed(r, data)
     ELSE /\ Send(r, "page", CHOOSE i \in later : \A j \in later : i <= j, 0, data)
          /\ UNCHANGED <<kind, now, catalog, held, cached, losses, published>>

(* register and remove: a success clears the lists.                        *)
ChangeReplied(r) ==
  LET q == asks[r] IN
  /\ q.stage = "replied" /\ q.want \in {"post", "delete"}
  /\ CASE q.reply.status \in {201, 204} -> Answer(r, "ok", <<>>)
       [] q.reply.status = 409 -> Answer(r, "conflict", <<>>)
       [] q.reply.status = 404 -> Answer(r, "false", <<>>)
  /\ cached' = IF q.reply.status \in {201, 204} THEN NoList ELSE cached
  /\ UNCHANGED <<kind, now, catalog, held, losses, published>>

(* What a call does next, once it was made.                                *)
RegistryStep(r) ==
  \/ Serve(r)
  \/ GetReplied(r)
  \/ Recommended(r)
  \/ NoSummary(r)
  \/ ListReplied(r)
  \/ PageDone(r)
  \/ ChangeReplied(r)

RegistryNext ==
  \/ Tick
  \/ \E i \in LoopNames : Publish(i)
  \/ \E r \in Requests :
       \/ RegistryStep(r)
       \/ Lose(r)
       \/ Refused(r)
       \/ List(r)
       \/ \E i \in LoopNames : Get(r, i)
       \/ \E i \in LoopNames, v \in 1..MaxVersion : Change(r, "register", i, v)
       \/ \E i \in LoopNames : Change(r, "remove", i, 0)

RegistrySpec == RegistryInit /\ [][RegistryNext]_registryVars

-----------------------------------------------------------------------------

(* Whatever a registry answers of a loop, its version or its absence, the  *)
(* server held at some time of the call or less than a time to live before *)
(* it, although lists overlap register and remove, pages are read at       *)
(* different times and replies are late, lost and asked for again.         *)
DefinitionsAreFresh ==
  \A r \in Requests :
    (asks[r].stage = "answered" /\ asks[r].result \in {"found", "null"}) =>
      \A i \in DOMAIN asks[r].data :
        \E t \in 0..now :
          /\ \/ t >= asks[r].began
             \/ t > asks[r].began - Ttl
          /\ <<i, asks[r].data[i]>> \in held[t]
=============================================================================
