--------------------------- MODULE DefinitionBuilder ---------------------------
(***************************************************************************)
(* Authoring a loop definition: the fluent LoopBuilder of                  *)
(* packages/loop-definition/src/builder.ts, the schema it parses with, the *)
(* validator, and the serializer and parsers that carry a definition from  *)
(* one process to another.                                                 *)
(*                                                                         *)
(* A state is its number, in the order of declaration (names do not        *)
(* matter).  Of a transition its id, ends, signal, actors and guards are   *)
(* kept, of an outcome how many metrics it has.  Names, labels, tags and   *)
(* descriptions of parts are left out.                                     *)
(***************************************************************************)
EXTENDS Integers, Sequences, FiniteSets

CONSTANTS
  Drafts,               \* arguments of transition() that are tried
  MaxStates, MaxTransitions,
  NoDefinition          \* build() was not called, or threw

ASSUME BuilderAssumption ==
  /\ {MaxStates, MaxTransitions} \subseteq Nat
  /\ \A d \in Drafts : d.from \in Nat /\ d.to \in Nat /\ d.guards \in Seq(STRING)

VARIABLES
  draft,    \* the fields of the LoopBuilder
  built,    \* what build() returned
  thrown,   \* why it threw
  text,     \* the built definition, serialized
  read      \* what a parser made of the text

builderVars == <<draft, built, thrown, text, read>>

Empty == [version |-> FALSE, description |-> FALSE, terminal |-> <<>>,
          transitions |-> <<>>, initial |-> 0, metrics |-> -1]

BuilderInit ==
  /\ draft = Empty
  /\ built = NoDefinition
  /\ thrown = "no"
  /\ text = NoDefinition
  /\ read = NoDefinition

-----------------------------------------------------------------------------
(* The fluent calls; each returns a new builder.                           *)

Authoring == built = NoDefinition /\ thrown = "no" /\ UNCHANGED <<built, thrown, text, read>>

SetVersion == Authoring /\ ~draft.version /\ draft' = [draft EXCEPT !.version = TRUE]

SetDescription == Authoring /\ ~draft.description /\ draft' = [draft EXCEPT !.description = TRUE]

AddState(terminal) ==
  /\ Authoring
  /\ Len(draft.terminal) < MaxStates
  /\ draft' = [draft EXCEPT !.terminal = Append(@, terminal)]

SetInitialState(s) == Authoring /\ draft.initial = 0 /\ draft' = [draft EXCEPT !.initial = s]

AddTransition(t) ==
  /\ Authoring
  /\ Len(draft.transitions) < MaxTransitions
  /\ draft' = [draft EXCEPT !.transitions = Append(@, t)]

SetOutcome(n) == Authoring /\ draft.metrics = -1 /\ draft' = [draft EXCEPT !.metrics = n]

-----------------------------------------------------------------------------
(* The schema.  Both its transform and the builder fill in the signal.     *)

WithSignal(t) ==
  [id |-> t.id, from |-> t.from, to |-> t.to, actors |-> t.actors, guards |-> t.guards,
   signal |-> IF "signal" \in DOMAIN t THEN t.signal ELSE t.id]

SchemaAccepts(d) == \A i \in DOMAIN d.transitions : d.transitions[i].actors # {}

FromSchema(d) ==
  [d EXCEPT !.transitions = [i \in DOMAIN d.transitions |-> WithSignal(d.transitions[i])]]

(* What build() hands to the schema.                                       *)
Normalized(b) ==
  [states |-> DOMAIN b.terminal, initial |-> b.initial, metrics |-> b.metrics,
   terminals |-> {s \in DOMAIN b.terminal : b.terminal[s]},
   transitions |-> [i \in DOMAIN b.transitions |-> WithSignal(b.transitions[i])]]

-----------------------------------------------------------------------------
(* validateLoopDefinition, a set of codes.                                 *)

Targets(d, S) == {d.transitions[i].to : i \in {j \in DOMAIN d.transitions : d.transitions[j].from \in S}}

(* The breadth-first search: all states that n rounds from the initial one *)
(* visit.                                                                  *)
Visited(d) ==
  LET visited[n \in 0..Len(d.transitions)] ==
        IF n = 0 THEN {d.initial} ELSE visited[n-1] \cup Targets(d, visited[n-1])
  IN visited[Len(d.transitions)]

HasPathToTerminal(d) == Visited(d) \cap d.terminals # {}

(* Mutant: only an inbound transition is asked for.                        *)
CompletableByInbound(d) == \E i \in DOMAIN d.transitions : d.transitions[i].to \in d.terminals

Completable(d) ==
  /\ \E i \in DOMAIN d.transitions : d.transitions[i].to \in d.terminals
  /\ HasPathToTerminal(d)

SignalCycles(d) ==
  \E i, j \in DOMAIN d.transitions :
    /\ i # j
    /\ d.transitions[i].signal = d.transitions[j].signal
    /\ d.transitions[i].from = d.transitions[j].to
    /\ d.transitions[i].to = d.transitions[j].from

DuplicateGuards(t) == \E i, j \in DOMAIN t.guards : i # j /\ t.guards[i] = t.guards[j]

Errors(d) ==
  (IF d.initial \in d.states THEN {} ELSE {"INVALID_INITIAL_STATE"})
  \cup (IF \A i \in DOMAIN d.transitions :
             {d.transitions[i].from, d.transitions[i].to} \subseteq d.states
        THEN {} ELSE {"INVALID_TRANSITION_STATE"})
  \cup (IF \E i \in DOMAIN d.transitions : DuplicateGuards(d.transitions[i])
        THEN {"DUPLICATE_GUARD_ID"} ELSE {})
  \cup (IF d.terminals = {} THEN {"NO_TERMINAL_STATE"} ELSE
          IF Completable(d) THEN {} ELSE {"LOOP_NOT_COMPLETABLE"})
  \cup (IF SignalCycles(d) THEN {"SIGNAL_CYCLE_DETECTED"} ELSE {})
  \cup (IF d.metrics = 0 THEN {"OUTCOME_METRICS_REQUIRED"} ELSE {})

-----------------------------------------------------------------------------
(* build(): the checks in the order of the code.                           *)

Refusal(b) ==
  IF ~b.version THEN "version"
  ELSE IF ~b.description THEN "description"
  ELSE IF b.terminal = <<>> THEN "state"
  ELSE IF b.initial = 0 THEN "initialState"
  ELSE IF b.transitions = <<>> THEN "transition"
  ELSE IF b.initial \notin DOMAIN b.terminal THEN "undeclared"
  ELSE IF ~SchemaAccepts(Normalized(b)) THEN "schema"
  ELSE IF Errors(FromSchema(Normalized(b))) # {} THEN "invalid"
  ELSE "no"

Build ==
  /\ built = NoDefinition /\ thrown = "no"
  /\ thrown' = Refusal(draft)
  /\ built' = IF thrown' = "no" THEN FromSchema(Normalized(draft)) ELSE NoDefinition
  /\ UNCHANGED <<draft, text, read>>

(* serializeLoopYaml and serializeLoopJson; metadata, which the builder    *)
(* cannot set, is the one field they drop.                                 *)
Serialize ==
  /\ built # NoDefinition /\ text = NoDefinition
  /\ text' = [states |-> built.states, initial |-> built.initial, metrics |-> built.metrics,
              terminals |-> built.terminals, transitions |-> built.transitions]
  /\ UNCHANGED <<draft, built, thrown, read>>

(* parseLoopYaml and parseLoopJson: the schema, then applyAuthoringDefaults.*)
Parse ==
  /\ text # NoDefinition /\ read = NoDefinition
  /\ read' = IF SchemaAccepts(text) THEN FromSchema(text) ELSE NoDefinition
  /\ UNCHANGED <<draft, built, thrown, text>>

BuilderNext ==
  \/ SetVersion \/ SetDescription
  \/ \E t \in BOOLEAN : AddState(t)
  \/ \E s \in 1..MaxStates : SetInitialState(s)
  \/ \E t \in Drafts : AddTransition(t)
  \/ \E n \in {0, 1} : SetOutcome(n)
  \/ Build \/ Serialize \/ Parse

BuilderSpec == BuilderInit /\ [][BuilderNext]_builderVars

-----------------------------------------------------------------------------

(* A walk of the definition's transitions.                                 *)
IsWalk(d, w) ==
  /\ Len(w) > 0
  /\ d.transitions[w[1]].from = d.initial
  /\ \A i \in 1..(Len(w) - 1) : d.transitions[w[i]].to = d.transitions[w[i+1]].from

Walks(d) ==
  {w \in UNION {[1..n -> DOMAIN d.transitions] : n \in 1..Len(d.transitions)} : IsWalk(d, w)}

(* What an author builds can be finished: from its initial state a walk of *)
(* declared transitions, each open to some actor, reaches a terminal state *)
(* (or the loop starts in one), and so it does once the definition was     *)
(* written to a file and read back.                                        *)
BuiltLoopsComplete ==
  \A d \in {built, read} \ {NoDefinition} :
    /\ d = built
    /\ \/ d.initial \in d.terminals
       \/ \E w \in Walks(d) : d.transitions[w[Len(w)]].to \in d.terminals
    /\ \A i \in DOMAIN d.transitions :
         d.transitions[i].actors # {} /\ {d.transitions[i].from, d.transitions[i].to} \subseteq d.states
=============================================================================
