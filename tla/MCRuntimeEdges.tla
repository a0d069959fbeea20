----------------------------- MODULE MCRuntimeEdges -----------------------------
(***************************************************************************)
(* An instance of RuntimeEdges: two requests, two key rows and three       *)
(* tokens with windows of one tick; two events and four sockets; a log of  *)
(* five events in pages of two; one model call; a provider's catalog with  *)
(* one good entry and five bad ones.                                       *)
(***************************************************************************)
EXTENDS RuntimeEdges, TLC

MCTierLimits == <<1, 2, 3>>
MCPercents == {-1, 0, 100, 101}

MCEntry ==
  [key |-> "k1", system |-> "erp", at |-> "dated", by |-> "file", values |-> "v1",
   versions |-> [decisionRecord |-> 1, invariant |-> 1, canonical |-> 1],
   lineage |-> <<[kind |-> "source", ref |-> "r"]>>,
   sequence |-> Missing, hash |-> Missing,
   qualification |-> [provenance |-> "origin-attested", definition |-> "governed",
                      freshness |-> "applicable"],
   optional |-> {}]

MCEntries ==
  {MCEntry,
   [MCEntry EXCEPT !.values = "nan"],
   [MCEntry EXCEPT !.lineage = <<[kind |-> "hearsay", ref |-> "r"]>>],
   [MCEntry EXCEPT !.qualification.freshness = "no value date"],
   [MCEntry EXCEPT !.optional = {"version.kind"}],
   [MCEntry EXCEPT !.versions.invariant = 2]}

MCToolPaths ==
  {<<Initial, Analysis>>, <<Analysis, Pending>>, <<Analysis, Executing>>, <<Pending, Executing>>,
   <<Pending, Denied>>, <<Executing, Done>>, <<Analysis, Denied>>}

Interchangeable == Permutations(KeyRows) \cup Permutations(Tokens) \cup Permutations(HttpRequests)
=============================================================================
