------------------------------ MODULE GovernedTool ------------------------------
(***************************************************************************)
(* A tool of an AI agent that runs under a loop                            *)
(* (packages/adapter-vercel-ai): each call starts a loop of its own, takes *)
(* it to AI_ANALYSIS, and then either waits for a human, or takes it to    *)
(* EXECUTING, runs the tool, and takes it to EXECUTED.  Each of these      *)
(* takes reads the state and then asks for a transition; between any two   *)
(* awaits others, who may know the loop from the engine's list, move it.   *)
(*                                                                         *)
(* engine.transition is one step that answers as LoopEngine does: rejected *)
(* if the loop is not, or no more, where the transition begins.            *)
(***************************************************************************)
EXTENDS Naturals, FiniteSets

CONSTANTS
  ToolCalls,   \* calls of the wrapped tool
  ToolPaths    \* definition.transitions: set of <<from, to>>

Initial == "REQUESTED"
Analysis == "AI_ANALYSIS"
Pending == "PENDING_HUMAN_APPROVAL"
Executing == "EXECUTING"
Done == "EXECUTED"
Denied == "DENIED"   \* a state of the loop that the wrapper does not know

ToolStates == {Initial, Analysis, Pending, Executing, Done, Denied}

ASSUME ToolAssumption == ToolPaths \subseteq ToolStates \X ToolStates

VARIABLES
  toolLoops,  \* call -> its loop: its state, "none" before start, and the states it was in
  tools       \* call -> its locals: the await it is at, its goal, the state it read

toolVars == <<toolLoops, tools>>

NoTool == [at |-> "none", approval |-> FALSE, goal |-> Analysis, current |-> Initial,
           runs |-> 0, answer |-> "none"]

ToolInit ==
  /\ toolLoops = [c \in ToolCalls |-> [state |-> "none", visited |-> {}]]
  /\ tools = [c \in ToolCalls |-> NoTool]

Moved(c, s) ==
  toolLoops' = [toolLoops EXCEPT ![c].state = s, ![c].visited = @ \cup {s}]

Becomes(c, q) == tools' = [tools EXCEPT ![c] = q]

Throws(c) == Becomes(c, [tools[c] EXCEPT !.at = "ended", !.answer = "threw"])

-----------------------------------------------------------------------------
(* What requiresApproval says of the input is known when it is called.     *)
ToolCalled(c, approval) ==
  /\ tools[c].at = "none"
  /\ Becomes(c, [NoTool EXCEPT !.at = "start", !.approval = approval])
  /\ UNCHANGED toolLoops

StartGovernedLoop(c) ==
  /\ tools[c].at = "start"
  /\ \/ Becomes(c, [tools[c] EXCEPT !.at = "get"]) /\ Moved(c, Initial)
     \/ Throws(c) /\ UNCHANGED toolLoops

(* What follows when the loop is in the state the wrapper took it to.      *)
Reached(q) ==
  CASE q.goal = Analysis ->
         [q EXCEPT !.at = "get", !.goal = IF q.approval THEN Pending ELSE Executing]
    [] q.goal = Pending -> [q EXCEPT !.at = "notify"]
    [] q.goal = Executing -> [q EXCEPT !.at = "tool"]
    [] q.goal = Done -> [q EXCEPT !.at = "ended", !.answer = "output"]

(* transitionToState: the state, and a transition that leads to the goal.  *)
GetToolState(c) ==
  LET q == tools[c]
      s == toolLoops[c].state
  IN
  /\ q.at = "get"
  /\ IF s = q.goal THEN Becomes(c, Reached(q))
     ELSE IF <<s, q.goal>> \in ToolPaths
     THEN Becomes(c, [q EXCEPT !.at = "move", !.current = s])
     ELSE Throws(c)
  /\ UNCHANGED toolLoops

(* Mutant: what the transition answered is not looked at.                  *)
MoveToolUnchecked(c) ==
  /\ tools[c].at = "move"
  /\ Becomes(c, Reached(tools[c]))
  /\ \/ toolLoops[c].state = tools[c].current /\ Moved(c, tools[c].goal)
     \/ UNCHANGED toolLoops

(* The transition executes, or is refused: by a guard, for the actor,      *)
(* because approval is needed, or because the loop was moved meanwhile.    *)
MoveTool(c) ==
  LET q == tools[c] IN
  /\ q.at = "move"
  /\ \/ /\ toolLoops[c].state = q.current
        /\ Becomes(c, Reached(q))
        /\ Moved(c, q.goal)
     \/ Throws(c) /\ UNCHANGED toolLoops

(* onApprovalRequired, then the answer that says so.                       *)
Notify(c) ==
  /\ tools[c].at = "notify"
  /\ \/ Becomes(c, [tools[c] EXCEPT !.at = "ended", !.answer = "pending_approval"])
     \/ Throws(c)
  /\ UNCHANGED toolLoops

(* tool.execute: it ran, also if it throws.                                *)
RunTool(c) ==
  LET ran == [tools[c] EXCEPT !.runs = @ + 1] IN
  /\ tools[c].at = "tool"
  /\ \/ Becomes(c, [ran EXCEPT !.at = "get", !.goal = Done])
     \/ Becomes(c, [ran EXCEPT !.at = "ended", !.answer = "threw"])
  /\ UNCHANGED toolLoops

(* Someone else, a human who decides for one, moves the loop.              *)
OthersMove(c, s) ==
  /\ <<toolLoops[c].state, s>> \in ToolPaths
  /\ Moved(c, s)
  /\ UNCHANGED tools

ToolStep(c) ==
  \/ StartGovernedLoop(c)
  \/ GetToolState(c)
  \/ MoveTool(c)
  \/ Notify(c)
  \/ RunTool(c)

ToolNext ==
  \E c \in ToolCalls :
    \/ \E approval \in BOOLEAN : ToolCalled(c, approval)
    \/ ToolStep(c)
    \/ \E s \in ToolStates : OthersMove(c, s)

ToolSpec == ToolInit /\ [][ToolNext]_toolVars

-----------------------------------------------------------------------------

(* Whoever moves its loop meanwhile: a tool runs at most once for a call,  *)
(* after its loop was in EXECUTING, and never for a call that needs        *)
(* approval; a call that answers with the output left its loop in, or      *)
(* past, EXECUTED, and one that answers "pending_approval" stopped for it. *)
ToolsRunGoverned ==
  \A c \in ToolCalls :
    LET q == tools[c]
        visited == toolLoops[c].visited
    IN
    /\ q.runs <= 1
    /\ q.runs = 1 => ~q.approval /\ {Analysis, Executing} \subseteq visited
    /\ q.answer = "output" => q.runs = 1 /\ Done \in visited
    /\ q.answer = "pending_approval" => q.runs = 0 /\ Pending \in visited
=============================================================================
