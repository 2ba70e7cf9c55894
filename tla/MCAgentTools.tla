---------------------------- MODULE MCAgentTools -----------------------------
(* Instances of AgentTools for TLC. *)
EXTENDS AgentTools

DeployedColumns == Chips \cup Params

\* Each tool called by the agent, and the comparison by POST /compare, too.
Calls ==
  {[tool |-> t, maker |-> "agent"] : t \in Tool}
    \cup {[tool |-> "chip_compare", maker |-> "compare"]}

\* Stores that hold everything, nothing, or all but one thing.
Contents ==
  {Holding, {}} \cup {Holding \ {h} : h \in {"analysis", "params", "chips of 2", "errata"}}
=============================================================================
