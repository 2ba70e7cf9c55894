---------------------------- MODULE AgentContract ----------------------------
(***************************************************************************)
(* What a caller of AgentOrchestrator.run may rely on, and all it may: the *)
(* run makes at most MaxIterations rounds, starts none once the token      *)
(* budget is spent, and ends with one reason that says why.                *)
(***************************************************************************)
EXTENDS Integers

CONSTANTS MaxIterations,  \* AgentConfig.max_iterations
          MaxTokens,      \* AgentConfig.max_total_tokens
          Usage           \* what the LLM may report as total_tokens

VARIABLES outcome,        \* "running", or AgentResult.stopped_reason, or "raised"
          rounds,         \* LLM answers received
          spent           \* TokenBudget.used

vars == <<outcome, rounds, spent>>

Reasons == {"complete", "token_budget_exhausted", "max_iterations"}

Init == outcome = "running" /\ rounds = 0 /\ spent = 0

\* One LLM answer; it ends the run when it asks for no tool.
Round ==
  /\ outcome = "running"
  /\ rounds < MaxIterations
  /\ spent < MaxTokens
  /\ \E u \in Usage : spent' = spent + u
  /\ rounds' = rounds + 1
  /\ outcome' \in {"running", "complete"}

StopOnBudget ==
  /\ outcome = "running"
  /\ spent >= MaxTokens
  /\ rounds < MaxIterations
  /\ outcome' = "token_budget_exhausted"
  /\ UNCHANGED <<rounds, spent>>

StopOnIterations ==
  /\ outcome = "running"
  /\ rounds = MaxIterations
  /\ outcome' = "max_iterations"
  /\ UNCHANGED <<rounds, spent>>

\* The LLM call, or the writing of an observation, failed: the exception is
\* the caller's.
Raise ==
  /\ outcome = "running"
  /\ outcome' = "raised"
  /\ UNCHANGED <<rounds, spent>>

Next == Round \/ StopOnBudget \/ StopOnIterations \/ Raise

Spec == Init /\ [][Next]_vars /\ WF_vars(Next)
=============================================================================
