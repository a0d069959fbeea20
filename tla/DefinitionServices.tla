--------------------------- MODULE DefinitionServices ---------------------------
(***************************************************************************)
(* The parts of the repository that make loop definitions, keep them and   *)
(* hand them out: RegistryClient, LocalRegistry, DefinitionBuilder and     *)
(* DefinitionResolver.  They share no state: the interleaving of two of    *)
(* them reaches no state of either that the part alone does not reach.  A  *)
(* behaviour of this module is therefore one of one part, the others being *)
(* at rest, and one run checks the four.                                   *)
(***************************************************************************)
EXTENDS RegistryClient, LocalRegistry, DefinitionBuilder, DefinitionResolver

VARIABLE part   \* the part that runs

definitionVars == <<part, registryVars, localVars, builderVars, resolverVars>>

(* A part at rest starts in one state.                                     *)
DefinitionsInit ==
  /\ part \in {"registry", "local", "builder", "resolver"}
  /\ RegistryInit /\ (part # "registry" => kind = "flat")
  /\ LocalInit /\ (part # "local" => loopsDir = CHOOSE d \in Directories : TRUE)
  /\ BuilderInit
  /\ ResolverInit
  /\ part # "resolver" => /\ ~origin /\ channel = "stable"
                          /\ \A i \in Ids : /\ active[i] = {}
                                            /\ summaries[i] = [latest |-> 0, stable |-> 0]

DefinitionsNext ==
  /\ UNCHANGED part
  /\ \/ part = "registry" /\ RegistryNext /\ UNCHANGED <<localVars, builderVars, resolverVars>>
     \/ part = "local" /\ LocalNext /\ UNCHANGED <<registryVars, builderVars, resolverVars>>
     \/ part = "builder" /\ BuilderNext /\ UNCHANGED <<registryVars, localVars, resolverVars>>
     \/ part = "resolver" /\ ResolverNext /\ UNCHANGED <<registryVars, localVars, builderVars>>

DefinitionsSpec == DefinitionsInit /\ [][DefinitionsNext]_definitionVars
=============================================================================
