------------------------------ MODULE AgentToolbox ------------------------------
(***************************************************************************)
(* src/agent/tools: a call of any tool, and the bill review in detail.     *)
(* The two share no state: AgentTools has bom_review as the consultations  *)
(* it makes, BomReview what it makes of each item.                         *)
(***************************************************************************)
EXTENDS AgentTools, BomReview

ToolboxSpec == ToolsSpec /\ BomSpec

\* The agent's tools, the bill review among them, tell what their backends hold
\* (agent/tools).
ToolsAreComplete == ToolsTellWhatTheyFind /\ ReviewsOverlookNothing
=============================================================================
