------------------------------ MODULE RuntimeGate ------------------------------
(***************************************************************************)
(* What stands before every route of the runtime: authentication by API    *)
(* key (packages/runtime-core/src/db-auth-adapter.ts, or the memory        *)
(* adapter of packages/auth-iface), entitlements, and a sliding-window     *)
(* rate limit (packages/entitlements-iface), in the order of               *)
(* packages/runtime-routes/src/with-persisted-run-read.ts and -write.ts.   *)
(*                                                                         *)
(* Keys are rotated, added and revoked while requests are under way, and   *)
(* time passes between any two statements.  A token stands for its hash;   *)
(* a tick is the unit of the rate window and of the grace window.          *)
(***************************************************************************)
EXTENDS Integers, Sequences, FiniteSets

CONSTANTS
  KeyRows,        \* ids of LoopEngineApiKey rows
  Tokens,         \* le_* tokens
  NoToken,        \* null in a row, or a header without a bearer token
  AlienTokens,    \* bearer tokens that have not the shape of an le_ key
  HttpRequests,   \* requests the runtime serves
  TierRanks,      \* tiers the entitlements adapter may give the tenant; 0 is none
  TierLimits,     \* accepted requests per window: 60, 300 and 1000 in the code
  GraceTicks,     \* the rotation grace window (24 h)
  WindowTicks,    \* the rate window (60 s)
  MaxClock, MaxKeyChanges   \* bounds

ASSUME GateAssumption ==
  /\ NoToken \notin Tokens \cup AlienTokens
  /\ Tokens \cap AlienTokens = {}
  /\ IsFiniteSet(HttpRequests)
  /\ TierRanks \subseteq Nat
  /\ TierLimits \in [1..3 -> Nat]
  /\ {GraceTicks, WindowTicks, MaxClock, MaxKeyChanges} \subseteq Nat

VARIABLES
  adapter,   \* which AuthAdapter the context holds: "db" or "memory"
  tracing,   \* LOOP_TRACE_ENABLED
  tier,      \* the tenant's tier
  clock,     \* new Date()
  keys,      \* the LoopEngineApiKey table
  used,      \* history: tokens that were handed out
  changes,   \* changes of keys made so far
  windows,   \* RATE_LIMIT_WINDOWS and WRITE_RATE_LIMIT_WINDOWS
  http       \* request -> its locals and the await it is at

gateVars == <<adapter, tracing, tier, clock, keys, used, changes, windows, http>>

KeyRecords ==
  [status : {"none", "ACTIVE", "REVOKED"}, key : Tokens \cup {NoToken},
   grace : Tokens \cup {NoToken}, expires : Nat]

Sides == {"read", "write"}

NoRecord == [status |-> "none", key |-> NoToken, grace |-> NoToken, expires |-> 0]

NoRequest == [at |-> "none", side |-> "read", token |-> NoToken, began |-> 0,
              id |-> NoToken, valid |-> FALSE, invalid |-> FALSE, hit |-> -1,
              status |-> 0]

GateTypeOK ==
  /\ clock \in 0..MaxClock
  /\ \A k \in KeyRows : keys[k] \in KeyRecords
  /\ windows \in [Sides -> Seq(0..MaxClock)]
  /\ changes \in 0..MaxKeyChanges
  /\ \A r \in HttpRequests : http[r].status \in {0, 200, 401, 403, 404, 429, 500, 503}

GateInit ==
  /\ adapter \in {"db", "memory"}
  /\ tracing \in BOOLEAN
  /\ tier \in TierRanks
  /\ clock = 0
  /\ \E k \in KeyRows, t \in Tokens :
       /\ keys = [j \in KeyRows |-> IF j = k THEN [NoRecord EXCEPT !.status = "ACTIVE", !.key = t]
                                             ELSE NoRecord]
       /\ used = {t}
  /\ changes = 0
  /\ windows = [s \in Sides |-> <<>>]
  /\ http = [r \in HttpRequests |-> NoRequest]

-----------------------------------------------------------------------------
(* What a request is entitled to: an active row has its token as key, or   *)
(* as grace key whose window had not ended when the request began.         *)
Valid(t, ks, began) ==
  \E k \in KeyRows : /\ ks[k].status = "ACTIVE"
                     /\ \/ ks[k].key = t
                        \/ ks[k].grace = t /\ ks[k].expires > began

(* Every request under way sees the table as it is now.                    *)
Witness(h, ks) ==
  [r \in HttpRequests |->
     IF h[r].at \in {"primary", "clear", "touch", "grace"}
     THEN [h[r] EXCEPT !.valid = @ \/ Valid(h[r].token, ks, h[r].began),
                       !.invalid = @ \/ ~Valid(h[r].token, ks, h[r].began)]
     ELSE h[r]]

SetKeys(ks) ==
  /\ changes < MaxKeyChanges
  /\ changes' = changes + 1
  /\ keys' = ks
  /\ http' = Witness(http, ks)

(* scripts/self-host/rotate-api-key.ts: a row for a token, new or known.   *)
AddKey(k, t) ==
  /\ \/ keys[k].status = "none" /\ t \notin used
     \/ keys[k].status # "none" /\ keys[k].key = t
  /\ SetKeys([keys EXCEPT ![k].status = "ACTIVE", ![k].key = t])
  /\ used' = used \cup {t}
  /\ UNCHANGED <<adapter, tracing, tier, clock, windows>>

(* A rotation: the old token becomes the grace key of the row.             *)
RotateKey(k, t) ==
  /\ adapter = "db"
  /\ keys[k].status = "ACTIVE"
  /\ t \notin used
  /\ SetKeys([keys EXCEPT ![k].key = t, ![k].grace = keys[k].key, ![k].expires = clock + GraceTicks])
  /\ used' = used \cup {t}
  /\ UNCHANGED <<adapter, tracing, tier, clock, windows>>

RevokeKey(k) ==
  /\ adapter = "db"
  /\ keys[k].status = "ACTIVE"
  /\ SetKeys([keys EXCEPT ![k].status = "REVOKED"])
  /\ UNCHANGED <<adapter, tracing, tier, clock, used, windows>>

GateTick ==
  /\ clock < MaxClock
  /\ clock' = clock + 1
  /\ UNCHANGED <<adapter, tracing, tier, keys, used, changes, windows, http>>

-----------------------------------------------------------------------------
(* Authentication.                                                         *)

Goes(r, q) == http' = Witness([http EXCEPT ![r] = q], keys)

(* With the answer the locals are gone, what the properties read stays.    *)
Reply(r, status) ==
  Goes(r, [NoRequest EXCEPT !.at = "answered", !.status = status, !.side = http[r].side,
                            !.hit = http[r].hit, !.invalid = http[r].invalid])

LetIn(r) ==
  Goes(r, [NoRequest EXCEPT !.at = "gate", !.side = http[r].side, !.valid = http[r].valid])

(* The bearer token of the header, and whether it has the shape of a key.  *)
HasBearer(t) == t # NoToken
IsKeyToken(t) == t \notin AlienTokens

(* A request arrives: reads are off without tracing, and a header without  *)
(* an le_ key is refused before any look-up.                               *)
Arrives(r, side, t) ==
  /\ http[r].at = "none"
  /\ LET q == [NoRequest EXCEPT !.side = side, !.token = t, !.began = clock]
     IN Goes(r, IF side = "read" /\ ~tracing
                THEN [q EXCEPT !.at = "answered", !.status = 503]
                ELSE IF HasBearer(t) /\ IsKeyToken(t)
                THEN [q EXCEPT !.at = "primary"]
                ELSE [q EXCEPT !.at = "answered", !.status = 401, !.invalid = TRUE])
  /\ UNCHANGED <<adapter, tracing, tier, clock, keys, used, changes, windows>>

RowsWith(r) == {k \in KeyRows : keys[k].status = "ACTIVE" /\ keys[k].key = http[r].token}

GraceRowsWith(r) ==
  {k \in KeyRows : /\ keys[k].status = "ACTIVE"
                   /\ keys[k].grace = http[r].token
                   /\ keys[k].expires > http[r].began}

(* A query throws: what is no AuthenticationError answers 500.             *)
LookupFails(r) ==
  /\ adapter = "db"
  /\ http[r].at \in {"primary", "clear", "grace"}
  /\ Reply(r, 500)
  /\ UNCHANGED <<adapter, tracing, tier, clock, keys, used, changes, windows>>

(* The memory adapter decides at once.                                     *)
FromMemory(r) ==
  /\ adapter = "memory"
  /\ http[r].at = "primary"
  /\ IF RowsWith(r) # {} THEN LetIn(r) ELSE Reply(r, 401)
  /\ UNCHANGED <<adapter, tracing, tier, clock, keys, used, changes, windows>>

(* The look-up by key; a grace key of the row that has expired by now is   *)
(* cleared, else lastUsedAt is next.                                       *)
PrimaryLookup(r) ==
  /\ adapter = "db"
  /\ http[r].at = "primary"
  /\ \/ RowsWith(r) = {} /\ Goes(r, [http[r] EXCEPT !.at = "grace"])
     \/ \E k \in RowsWith(r) :
          Goes(r, [http[r] EXCEPT
            !.id = k,
            !.at = IF keys[k].grace # NoToken /\ keys[k].expires <= clock THEN "clear" ELSE "touch"])
  /\ UNCHANGED <<adapter, tracing, tier, clock, keys, used, changes, windows>>

(* clearExpiredGraceIfNeeded: by the id of the row that was read.          *)
ClearGrace(r) ==
  /\ http[r].at = "clear"
  /\ LET ks == [keys EXCEPT ![http[r].id].grace = NoToken, ![http[r].id].expires = 0]
     IN keys' = ks /\ http' = Witness([http EXCEPT ![r].at = "touch"], ks)
  /\ UNCHANGED <<adapter, tracing, tier, clock, used, changes, windows>>

(* The look-up by grace key, with the time the request began.              *)

(* Mutant: whether its window has ended is left to the clearing.           *)
GraceLookupUnending(r) ==
  /\ http[r].at = "grace"
  /\ IF \E k \in KeyRows : keys[k].status = "ACTIVE" /\ keys[k].grace = http[r].token
     THEN Goes(r, [http[r] EXCEPT !.at = "touch"]) ELSE Reply(r, 401)
  /\ UNCHANGED <<adapter, tracing, tier, clock, keys, used, changes, windows>>

GraceLookup(r) ==
  /\ http[r].at = "grace"
  /\ IF GraceRowsWith(r) # {} THEN Goes(r, [http[r] EXCEPT !.at = "touch"]) ELSE Reply(r, 401)
  /\ UNCHANGED <<adapter, tracing, tier, clock, keys, used, changes, windows>>

(* touchLastUsed, whose failure is ignored; then the identity.             *)
Touch(r) ==
  /\ http[r].at = "touch"
  /\ LetIn(r)
  /\ UNCHANGED <<adapter, tracing, tier, clock, keys, used, changes, windows>>

-----------------------------------------------------------------------------
(* Entitlements, rate limit, and the handler.                              *)

Limit(rank) == TierLimits[IF rank >= 3 THEN 3 ELSE IF rank = 2 THEN 2 ELSE 1]

(* The hits that count at time t: the filter goes through them in order.   *)
InWindow(hits, t) ==
  LET kept[n \in 0..Len(hits)] ==
        IF n = 0 THEN <<>>
        ELSE IF hits[n] >= t - WindowTicks THEN Append(kept[n-1], hits[n]) ELSE kept[n-1]
  IN kept[Len(hits)]

(* Mutant: one too many.                                                   *)
OverLimitByOne(hits) == Len(hits) > Limit(tier)

OverLimit(hits) == Len(hits) >= Limit(tier)

(* The tier, whose look-up may fail with an adapter other than the memory  *)
(* one, then the window of reads or of writes; no await between the two.   *)
PassesGate(r) ==
  LET q == http[r]
      hits == InWindow(windows[q.side], clock)
  IN
  /\ q.at = "gate"
  /\ \/ Reply(r, 500) /\ UNCHANGED windows
     \/ tier = 0 /\ Reply(r, 403) /\ UNCHANGED windows
     \/ /\ tier > 0
        /\ IF OverLimit(hits)
           THEN Reply(r, 429) /\ windows' = [windows EXCEPT ![q.side] = hits]
           ELSE /\ Goes(r, [q EXCEPT !.at = "handler", !.hit = clock])
                /\ windows' = [windows EXCEPT ![q.side] = Append(hits, clock)]
  /\ UNCHANGED <<adapter, tracing, tier, clock, keys, used, changes>>

(* The handler: LoopRuntime models the writes; a read finds a summary and  *)
(* a trace of the run, or answers 404 without a summary.                   *)
Handles(r) ==
  /\ http[r].at = "handler"
  /\ \/ Reply(r, 200)
     \/ http[r].side = "read" /\ Reply(r, 404)
  /\ UNCHANGED <<adapter, tracing, tier, clock, keys, used, changes, windows>>

(* The next step of a request under way.                                   *)
GateStep(r) ==
  \/ FromMemory(r)
  \/ PrimaryLookup(r)
  \/ ClearGrace(r)
  \/ GraceLookup(r)
  \/ Touch(r)
  \/ PassesGate(r)
  \/ Handles(r)

GateNext ==
  \/ GateTick
  \/ \E k \in KeyRows : RevokeKey(k)
  \/ \E k \in KeyRows, t \in Tokens : AddKey(k, t) \/ RotateKey(k, t)
  \/ \E r \in HttpRequests :
       \/ GateStep(r)
       \/ LookupFails(r)
       \/ \E s \in Sides, t \in Tokens \cup AlienTokens \cup {NoToken} : Arrives(r, s, t)

GateSpec == GateInit /\ [][GateNext]_gateVars

-----------------------------------------------------------------------------

(* A request is let in only if its token was valid at some moment of its   *)
(* authentication, and refused with 401 only if it was not valid at some   *)
(* moment of it, although a key is looked up in two statements between     *)
(* which it may be rotated, revoked, cleared or expire.                    *)
AuthIsTruthful ==
  \A r \in HttpRequests :
    /\ http[r].at \in {"gate", "handler"} => http[r].valid
    /\ http[r].status = 401 => http[r].invalid

(* No window of the given length, wherever it starts, has more accepted    *)
(* reads, or writes, than the tier of the tenant allows.                   *)
QuotaHolds ==
  \A s \in Sides : \A t \in 0..MaxClock :
    Cardinality({r \in HttpRequests :
      http[r].side = s /\ http[r].hit \in t..(t + WindowTicks)}) <= Limit(tier)
=============================================================================
