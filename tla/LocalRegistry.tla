----------------------------- MODULE LocalRegistry -----------------------------
(***************************************************************************)
(* localRegistry of packages/registry-client/src/adapters/local.ts: a map  *)
(* of definitions that the first call fills from a directory and from the  *)
(* definitions given inline, and that register and remove change.  Every   *)
(* upsert awaits a checksum between its look at the map and its write, and *)
(* only the first caller waits for the filling.                            *)
(*                                                                         *)
(* A file holds a definition <<id, version>>, or something that its parser *)
(* rejects (BadFile).  The watcher, onChange and checksums are left out.   *)
(***************************************************************************)
EXTENDS Integers, Sequences

CONSTANTS
  LocalIds, LocalVersions,
  LocalCallers,   \* calls in flight at once
  Directories,    \* possible contents of loopsDir, in the order of readdir
  Inline,         \* options.definitions
  BadFile,        \* a file that does not parse
  NoEntry         \* no definition of that id

ASSUME LocalAssumption ==
  /\ NoEntry \notin LocalVersions
  /\ BadFile \notin LocalIds \X LocalVersions
  /\ Inline \in Seq(LocalIds \X LocalVersions)
  /\ \A d \in Directories : d \in Seq((LocalIds \X LocalVersions) \cup {BadFile})

VARIABLES
  loopsDir,   \* the directory, the same for ever
  entries,    \* id -> version, or NoEntry
  loaded,     \* the flag `loaded`
  local       \* caller -> its call

localVars == <<loopsDir, entries, loaded, local>>

InlineIds == {Inline[i][1] : i \in DOMAIN Inline}

NoLocalCall == [stage |-> "idle", op |-> "none", id |-> NoEntry, version |-> NoEntry,
                force |-> FALSE, todo |-> <<>>, write |-> <<>>, result |-> "none"]

LocalInit ==
  /\ loopsDir \in Directories
  /\ entries = [i \in LocalIds |-> NoEntry]
  /\ loaded = FALSE
  /\ local = [c \in LocalCallers |-> NoLocalCall]

(* ensureLoaded: `loaded` is set before anything is loaded.                *)
LocalCall(c, op, i, v, force) ==
  /\ local[c].stage = "idle"
  /\ loaded' = TRUE
  /\ local' = [local EXCEPT ![c] =
       [@ EXCEPT !.stage = "load", !.op = op, !.id = i, !.version = v, !.force = force,
                 !.todo = IF loaded THEN <<>> ELSE loopsDir \o Inline]]
  /\ UNCHANGED <<loopsDir, entries>>

(* The next definition to load is upserted with force, over any entry.     *)

(* Mutant: without force.                                                  *)
RefusesUnforced(c) ==
  LET f == Head(local[c].todo) IN f = BadFile \/ entries[f[1]] = f[2]

Refuses(c) == Head(local[c].todo) = BadFile

LoadNext(c) ==
  /\ local[c].stage = "load"
  /\ local[c].todo # <<>>
  /\ local' = [local EXCEPT ![c] =
       IF Refuses(c)
       THEN [@ EXCEPT !.stage = "answered", !.result = "error", !.todo = <<>>]
       ELSE [@ EXCEPT !.stage = "digest", !.write = Head(local[c].todo), !.todo = Tail(local[c].todo)]]
  /\ UNCHANGED <<loopsDir, entries, loaded>>

(* get, getVersion, has and list read the map as it is.                    *)
Read(c) ==
  /\ local[c].stage = "load" /\ local[c].todo = <<>> /\ local[c].op = "get"
  /\ local' = [local EXCEPT ![c] =
       [@ EXCEPT !.stage = "answered",
                 !.result = IF entries[local[c].id] = NoEntry THEN "null" ELSE "found"]]
  /\ UNCHANGED <<loopsDir, entries, loaded>>

Remove(c) ==
  /\ local[c].stage = "load" /\ local[c].todo = <<>> /\ local[c].op = "remove"
  /\ local' = [local EXCEPT ![c] =
       [@ EXCEPT !.stage = "answered",
                 !.result = IF entries[local[c].id] = NoEntry THEN "false" ELSE "removed"]]
  /\ entries' = [entries EXCEPT ![local[c].id] = NoEntry]
  /\ UNCHANGED <<loopsDir, loaded>>

(* register: upsert throws on an entry of the same version, else it awaits *)
(* the checksum.                                                           *)
Register(c) ==
  /\ local[c].stage = "load" /\ local[c].todo = <<>> /\ local[c].op = "register"
  /\ local' = [local EXCEPT ![c] =
       IF entries[@.id] = @.version /\ ~@.force
       THEN [@ EXCEPT !.stage = "answered", !.result = "conflict"]
       ELSE [@ EXCEPT !.stage = "digest", !.op = "registering", 
                      !.write = <<local[c].id, local[c].version>>]]
  /\ UNCHANGED <<loopsDir, entries, loaded>>

(* The checksum is there: the entry is set, and the load goes on or the    *)
(* call of register returns.                                               *)
Digested(c) ==
  /\ local[c].stage = "digest"
  /\ entries' = [entries EXCEPT ![local[c].write[1]] = local[c].write[2]]
  /\ local' = [local EXCEPT ![c] =
       IF @.op = "registering"
       THEN [@ EXCEPT !.stage = "answered", !.result = "registered"]
       ELSE [@ EXCEPT !.stage = "load"]]
  /\ UNCHANGED <<loopsDir, loaded>>

LocalStep(c) == LoadNext(c) \/ Read(c) \/ Remove(c) \/ Register(c) \/ Digested(c)

LocalNext ==
  \E c \in LocalCallers :
    \/ LocalStep(c)
    \/ \E i \in LocalIds : LocalCall(c, "get", i, NoEntry, FALSE)
    \/ \E i \in LocalIds : LocalCall(c, "remove", i, NoEntry, FALSE)
    \/ \E i \in LocalIds, v \in LocalVersions, f \in BOOLEAN : LocalCall(c, "register", i, v, f)

LocalSpec == LocalInit /\ [][LocalNext]_localVars

-----------------------------------------------------------------------------

Versions(s, i) == {s[n][2] : n \in {m \in DOMAIN s : s[m] # BadFile /\ s[m][1] = i}}

RegisteredAs(i) ==
  {local[c].version : c \in {d \in LocalCallers :
     local[d].op = "registering" /\ local[d].id = i}}

(* However the first calls overlap, once the registry is at rest nothing   *)
(* of the directory or the inline definitions is missing but what was      *)
(* removed, and no file stands in for an inline definition of its id; if   *)
(* every file parses.                                                      *)
NothingIsMissing ==
  (/\ \E c \in LocalCallers : local[c].stage = "answered"
   /\ \A c \in LocalCallers : local[c].stage \in {"idle", "answered"}
   /\ \A n \in DOMAIN loopsDir : loopsDir[n] # BadFile) =>
     \A i \in LocalIds :
       LET given == IF i \in InlineIds THEN Versions(Inline, i) ELSE Versions(loopsDir, i)
       IN \/ entries[i] \in given \cup RegisteredAs(i)
          \/ entries[i] = NoEntry /\ given = {}
          \/ entries[i] = NoEntry /\ \E c \in LocalCallers :
               local[c].id = i /\ local[c].result = "removed"
=============================================================================
