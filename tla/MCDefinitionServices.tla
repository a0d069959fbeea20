-------------------------- MODULE MCDefinitionServices --------------------------
(***************************************************************************)
(* Instances of DefinitionServices: two loops, two versions on a server    *)
(* that starts with one loop, a local directory with or without a file     *)
(* that does not parse, builders of up to three states and two             *)
(* transitions, and a resolver between two remote and two local versions.  *)
(***************************************************************************)
EXTENDS DefinitionServices

MCFirstCatalog == [i \in LoopNames |-> i - 1]
MCInvalid == {<<2, 2>>}

MCDirectories ==
  {<<>>, << <<"l1", 1>>, <<"l2", 1>> >>, << <<"l1", 1>>, BadFile, <<"l2", 1>> >>}
MCInline == << <<"l2", 2>> >>

Draft(i, f, t) == [id |-> i, from |-> f, to |-> t, actors |-> {"human"}, guards |-> <<>>]

MCDrafts ==
  {Draft(i, f, t) : i \in {"go", "back"}, f \in 1..3, t \in 1..3}
  \cup {[Draft("go", 1, 2) EXCEPT !.actors = {}],
        [Draft("go", 1, 2) EXCEPT !.guards = <<"g", "g">>]}

MCBroken == {<<1, 2>>, <<2, 4>>}
=============================================================================
