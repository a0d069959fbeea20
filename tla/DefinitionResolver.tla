-------------------------- MODULE DefinitionResolver --------------------------
(***************************************************************************)
(* Where the programs take loop definitions from:                          *)
(* createLoopDefinitionResolver of packages/runtime-core, which combines a *)
(* v0 registry with the LoopDefinition rows of the database, and           *)
(* createLoopSystem of packages/sdk, which combines a registry with the    *)
(* loops it is given.  Calls share nothing, so there is one; publishers    *)
(* and operators change the registry and the rows while it runs.           *)
(*                                                                         *)
(* A definition is <<id, version>>, the version of a row being a row.      *)
(* A page of the registry's list is one loop.  URLs and headers are left   *)
(* out.                                                                    *)
(***************************************************************************)
EXTENDS Integers, Sequences, FiniteSets

CONSTANTS
  Loops,            \* how many loop ids there are: the ids are 1..Loops
  Remote, Rows,     \* versions on the registry, in order, and in the rows
  Broken,           \* definitions that validateLoopDefinition rejects
  MaxEdits,         \* bound on changes of the registry and the rows
  Nothing           \* null

ASSUME ResolverAssumption ==
  /\ Loops \in Nat \ {0} /\ MaxEdits \in Nat
  /\ Remote \subseteq Nat \ {0} /\ Rows \subseteq Nat \ {0}
  /\ Remote \cap Rows = {} /\ IsFiniteSet(Rows)
  /\ Broken \subseteq (1..Loops) \X (Remote \cup Rows)

VARIABLES
  origin,     \* LOOP_ENGINE_REGISTRY_URL is set
  channel,    \* "stable" or "latest"
  summaries,  \* id -> its latest and latest stable version on the registry, 0 for null
  active,     \* id -> versions of its active rows; the greatest was published last
  request,    \* the call
  edits       \* changes so far

resolverVars == <<origin, channel, summaries, active, request, edits>>

Ids == 1..Loops
Valid(d) == d \notin Broken

NoRequest ==
  [stage |-> "idle", op |-> "none", id |-> 0, version |-> 0, given |-> {}, rows |-> {},
   found |-> {}, failed |-> FALSE, answer |-> Nothing,
   always |-> {}, seen |-> {}]   \* history: served all along, and seen at all

Pick(s) ==
  IF channel = "stable"
  THEN IF s.stable > 0 THEN s.stable ELSE s.latest
  ELSE IF s.latest > 0 THEN s.latest ELSE s.stable

(* A stable version is no later than the latest one.                       *)
Summaries == {s \in [latest : Remote \cup {0}, stable : Remote \cup {0}] : s.stable <= s.latest}

ResolverInit ==
  /\ origin \in BOOLEAN
  /\ channel \in {"stable", "latest"}
  /\ summaries \in [Ids -> Summaries]
  /\ active \in [Ids -> SUBSET Rows]
  /\ request = NoRequest
  /\ edits = 0

-----------------------------------------------------------------------------
(* The registry and the rows.  History goes with them.                     *)

Served(a) == {d \in Ids \X Rows : d[2] \in a[d[1]]}

Witnessed(s, a) ==
  [request EXCEPT !.always = @ \cap {d[1] : d \in {e \in Served(a) : Valid(e)}},
                  !.seen = @ \cup Served(a) \cup {<<i, s[i].latest>> : i \in Ids}
                             \cup {<<i, s[i].stable>> : i \in Ids}]

Edit ==
  /\ edits < MaxEdits
  /\ request.stage \notin {"idle", "answered", "threw"}
  /\ edits' = edits + 1
  /\ \/ /\ \E i \in Ids, s \in Summaries : summaries' = [summaries EXCEPT ![i] = s]
        /\ UNCHANGED active
     \/ /\ \E i \in Ids, r \in SUBSET Rows : active' = [active EXCEPT ![i] = r]
        /\ UNCHANGED summaries
  /\ request' = Witnessed(summaries', active')
  /\ UNCHANGED <<origin, channel>>

Becomes(q) == request' = q /\ UNCHANGED <<origin, channel, summaries, active, edits>>

Answers(result) == Becomes([request EXCEPT !.stage = "answered", !.answer = result])

Starts(q) ==
  Becomes([q EXCEPT !.always = {d[1] : d \in {e \in Served(active) : Valid(e)}},
                    !.seen = Served(active) \cup {<<i, summaries[i].latest>> : i \in Ids}
                               \cup {<<i, summaries[i].stable>> : i \in Ids}])

-----------------------------------------------------------------------------
(* listActiveDefinitions.                                                  *)

(* dedupeByLoopId and mergeDefinitions: the second list replaces the first.*)
Dedupe(first, second) == {d \in first : \A e \in second : e[1] # d[1]} \cup second

(* Of several rows of a loop the list keeps the one the database gave last.*)
Picks(rows) ==
  {S \in SUBSET rows : {d[1] : d \in S} = {d[1] : d \in rows}
                       /\ \A d, e \in S : d[1] = e[1] => d = e}

CallList ==
  /\ request.stage = "idle"
  /\ Starts([NoRequest EXCEPT !.op = "list", !.stage = "rows"])

(* loadLocalDefinitions; without a registry that is the answer.            *)
LoadLocal ==
  /\ request.stage = "rows" /\ request.op = "list"
  /\ LET rows == {d \in Served(active) : Valid(d)}
     IN IF origin THEN Becomes([request EXCEPT !.stage = "page", !.id = 1, !.rows = rows])
                  ELSE Answers(rows)

(* The database rejects: either call throws, whatever the registry has.    *)
RowsFail ==
  /\ request.stage = "rows"
  /\ Becomes([request EXCEPT !.stage = "threw", !.failed = TRUE])

(* A page and the artifact of its loop; a version the channel does not     *)
(* have is passed over.                                                    *)
NextPage(q) == IF q.id < Loops THEN [q EXCEPT !.stage = "page", !.id = @ + 1]
                               ELSE [q EXCEPT !.stage = "merge"]

Page ==
  /\ request.stage = "page"
  /\ LET v == Pick(summaries[request.id])
     IN Becomes(IF v = 0 THEN NextPage(request)
                ELSE [request EXCEPT !.stage = "artifact", !.version = v])

(* fetchRegistryArtifact: a version withdrawn meanwhile is a 404, and a    *)
(* definition that is not valid is null as well.                           *)
Artifact ==
  LET d == <<request.id, request.version>>
  IN IF Valid(d) /\ request.version <= summaries[request.id].latest THEN d ELSE Nothing

ListArtifact ==
  /\ request.stage = "artifact" /\ request.op = "list"
  /\ Becomes(NextPage(IF Artifact = Nothing THEN request
                      ELSE [request EXCEPT !.found = @ \cup {Artifact}]))

Merge ==
  /\ request.stage = "merge"
  /\ \E rows \in Picks(request.rows) : Answers(Dedupe(request.found, rows))

(* Any fetch of the list fails: the rows alone.                            *)

(* Mutant: what the registry had answered until then.                      *)
ListFailsPartly ==
  /\ request.stage \in {"page", "artifact"} /\ request.op = "list"
  /\ Becomes([request EXCEPT !.stage = "answered", !.failed = TRUE, !.answer = request.found])

ListFails ==
  /\ request.stage \in {"page", "artifact"} /\ request.op = "list"
  /\ Becomes([request EXCEPT !.stage = "answered", !.failed = TRUE, !.answer = request.rows])

-----------------------------------------------------------------------------
(* resolveLoopDefinition: the registry, then the row published last, which *)
(* is not validated.                                                       *)

CallResolve(i) ==
  /\ request.stage = "idle"
  /\ Starts([NoRequest EXCEPT !.op = "resolve", !.id = i,
                              !.stage = IF origin THEN "summary" ELSE "rows"])

Summary ==
  /\ request.stage = "summary"
  /\ LET v == Pick(summaries[request.id])
     IN Becomes(IF v = 0 THEN [request EXCEPT !.stage = "rows"]
                ELSE [request EXCEPT !.stage = "artifact", !.version = v])

ResolveArtifact ==
  /\ request.stage = "artifact" /\ request.op = "resolve"
  /\ IF Artifact = Nothing THEN Becomes([request EXCEPT !.stage = "rows"])
                           ELSE Answers({Artifact})

ResolveFails ==
  /\ request.stage \in {"summary", "artifact"} /\ request.op = "resolve"
  /\ Becomes([request EXCEPT !.stage = "rows", !.failed = TRUE])

FindRow ==
  /\ request.stage = "rows" /\ request.op = "resolve"
  /\ LET rows == active[request.id]
     IN Answers(IF rows = {} THEN {}
                ELSE {<<request.id, CHOOSE v \in rows : \A w \in rows : w <= v>>})

-----------------------------------------------------------------------------
(* createLoopSystem: its loops[] win over the registry's; registry.list()  *)
(* is one await here (RegistryClient has its inside).                      *)

Given == {S \in SUBSET (Ids \X Rows) : \A d, e \in S : d[1] = e[1] => d = e}

CallSystem(loops) ==
  /\ request.stage = "idle"
  /\ Starts([NoRequest EXCEPT !.op = "system", !.stage = "listing", !.given = loops])

RegistryLoops ==
  {<<i, Pick(summaries[i])>> : i \in {j \in Ids : Pick(summaries[j]) > 0}}

(* One definition that is not valid, and there is no system.               *)
System(defs) == Answers(IF \A d \in defs : Valid(d) THEN defs ELSE Nothing)

LoadFromRegistry ==
  /\ request.stage = "listing"
  /\ \/ System(Dedupe(RegistryLoops, request.given))
     \/ System(request.given)                       \* registry.list() failed, or no registry

ResolverNext ==
  \/ Edit
  \/ CallList \/ LoadLocal \/ RowsFail \/ Page \/ ListArtifact \/ Merge \/ ListFails
  \/ \E i \in Ids : CallResolve(i)
  \/ Summary \/ ResolveArtifact \/ ResolveFails \/ FindRow
  \/ \E loops \in Given : CallSystem(loops)
  \/ LoadFromRegistry

ResolverSpec == ResolverInit /\ [][ResolverNext]_resolverVars

-----------------------------------------------------------------------------

Answered(op) == request.stage = "answered" /\ request.op = op

(* Whatever the registry does, and whenever it fails, a loop that had a    *)
(* valid active row all through a call is in the list and resolves; and    *)
(* everything listed is valid, was published somewhere during the call,    *)
(* and, with a registry that answered, is the only definition of its loop. *)
(* A loop system has the loops it was given, whatever the registry has.    *)
OutagesHideNothing ==
  /\ Answered("list") =>
       /\ request.always \subseteq {d[1] : d \in request.answer}
       /\ \A d \in request.answer : d \in request.seen /\ Valid(d)
       /\ origin /\ ~request.failed =>
            \A d, e \in request.answer : d[1] = e[1] => d = e
  /\ Answered("resolve") =>
       /\ request.id \in request.always => request.answer # {}
       /\ request.answer \subseteq request.seen
  /\ Answered("system") /\ request.answer # Nothing =>
       /\ request.given \subseteq request.answer
       /\ \A d, e \in request.answer : Valid(d) /\ (d[1] = e[1] => d = e)

(* docs/self-host.md:146 and loop-definition-resolver.ts:11 say that with  *)
(* a registry the local rows are the fallback: a loop that the registry    *)
(* served is listed as the registry defines it.                            *)
LocalIsFallback ==
  Answered("list") /\ ~request.failed => request.found \subseteq request.answer
=============================================================================
