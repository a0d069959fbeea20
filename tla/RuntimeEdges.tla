------------------------------ MODULE RuntimeEdges ------------------------------
(***************************************************************************)
(* The parts of the repository at the edges of the runtime: RuntimeGate    *)
(* before its routes and RunReads behind the read ones, OpenClawBus and    *)
(* StatusClient where its events leave, ModelCalls, GovernedTool and       *)
(* GovernedEvidence where decisions and evidence come in.  They share no   *)
(* state, so that a behaviour here is one of one part, the others being at *)
(* rest, and one run checks the seven.                                     *)
(***************************************************************************)
EXTENDS RuntimeGate, OpenClawBus, StatusClient, ModelCalls, GovernedEvidence,
        RunReads, GovernedTool

VARIABLE part   \* the part that runs

edgeVars == <<part, gateVars, busVars, statusVars, modelVars, evidenceVars, readVars, toolVars>>

(* A part at rest starts in one state, up to the names of keys.            *)
EdgesInit ==
  /\ part \in {"gate", "bus", "status", "models", "evidence", "reads", "tools"}
  /\ GateInit
  /\ part # "gate" => adapter = "memory" /\ tracing /\ tier = CHOOSE n \in TierRanks : TRUE
  /\ BusInit /\ (part # "bus" => autoReconnect)
  /\ StatusInit /\ (part # "status" => log = 0)
  /\ ModelInit
  /\ ReadsInit
  /\ ToolInit
  /\ EvidenceInit /\ (part # "evidence" => snapshotStore)

EdgesNext ==
  /\ UNCHANGED part
  /\ \/ /\ part = "gate" /\ GateNext
        /\ UNCHANGED <<busVars, statusVars, modelVars, evidenceVars, readVars, toolVars>>
     \/ /\ part = "bus" /\ BusNext
        /\ UNCHANGED <<gateVars, statusVars, modelVars, evidenceVars, readVars, toolVars>>
     \/ /\ part = "status" /\ StatusNext
        /\ UNCHANGED <<gateVars, busVars, modelVars, evidenceVars, readVars, toolVars>>
     \/ /\ part = "models" /\ ModelNext
        /\ UNCHANGED <<gateVars, busVars, statusVars, evidenceVars, readVars, toolVars>>
     \/ /\ part = "evidence" /\ EvidenceNext
        /\ UNCHANGED <<gateVars, busVars, statusVars, modelVars, readVars, toolVars>>
     \/ /\ part = "reads" /\ ReadsNext
        /\ UNCHANGED <<gateVars, busVars, statusVars, modelVars, evidenceVars, toolVars>>
     \/ /\ part = "tools" /\ ToolNext
        /\ UNCHANGED <<gateVars, busVars, statusVars, modelVars, evidenceVars, readVars>>

EdgesSpec == EdgesInit /\ [][EdgesNext]_edgeVars
=============================================================================
