------------------------------ MODULE AgentLoop ------------------------------
(***************************************************************************)
(* One call of AgentOrchestrator.run, src/agent/orchestrator.py: the ReAct *)
(* loop over the LLM, the token budget of src/agent/safety/token_budget.py *)
(* and the tools, which run in parallel or one after the other, each under *)
(* a timeout.  Message bodies and the wording of answers are left out.     *)
(***************************************************************************)
EXTENDS Integers, Sequences, Lists

CONSTANTS
  MaxIterations,  \* AgentConfig.max_iterations
  MaxTokens,      \* AgentConfig.max_total_tokens
  Usage,          \* what the LLM may report as total_tokens, 0 if nothing
  Registered,     \* names in the ToolRegistry
  Name,           \* names the LLM may call, registered or invented
  CallId,         \* ids the LLM may give its calls
  MaxCalls        \* bound: tool calls in one LLM answer

ASSUME MaxIterationsAssumption == MaxIterations \in Nat
ASSUME MaxTokensAssumption == MaxTokens \in Nat
ASSUME UsageAssumption == Usage \subseteq Nat
ASSUME RegisteredAssumption == Registered \subseteq Name
ASSUME MaxCallsAssumption == MaxCalls \in Nat

VARIABLES
  parallel,  \* AgentConfig.parallel_tool_calls, set once
  pc,        \* where run() is
  i,         \* the loop variable
  used,      \* TokenBudget._used
  messages,  \* the conversation sent to the LLM
  calls,     \* tool_calls of the answer in hand
  tokens,    \* and its total_tokens
  obs,       \* one observation per call, or how far its tool is
  steps      \* AgentResult.tool_calls_log

vars == <<parallel, pc, i, used, messages, calls, tokens, obs, steps>>

-----------------------------------------------------------------------------
Call == [name : Name, id : CallId]
Calls == UNION {[1..n -> Call] : n \in 0..MaxCalls}

\* A tool of the answer in hand is waiting for its turn, running, or answered;
\* "opaque" is a result json.dumps cannot write, a timestamp of a row say.
Observation == {"result", "error", "opaque"}
Progress == {"waiting", "running"} \cup Observation

Stops == {"complete", "token_budget_exhausted", "max_iterations"}
PC == {"check", "chat", "tools", "raised"} \cup Stops

Message == [role : {"system", "user"}]
      \cup [role : {"assistant"}, ids : Seq(CallId)]
      \cup [role : {"tool"}, id : CallId, content : {"result", "error"}]

AgentStep == [calls : Seq(Call), obs : Seq({"result", "error"}), tokens : Nat]

TypeOK ==
  /\ parallel \in BOOLEAN
  /\ pc \in PC
  /\ i \in 0..MaxIterations
  /\ used \in Nat
  /\ messages \in Seq(Message)
  /\ calls \in Calls
  /\ tokens \in Nat
  /\ obs \in [DOMAIN calls -> Progress]
  /\ steps \in Seq(AgentStep)

Init ==
  /\ parallel \in BOOLEAN
  /\ pc = "check"
  /\ i = 0
  /\ used = 0
  /\ messages = <<[role |-> "system"], [role |-> "user"]>>
  /\ calls = <<>>
  /\ tokens = 0
  /\ obs = <<>>
  /\ steps = <<>>

Exhausted == used >= MaxTokens

\* Mutant: one iteration too many.
CheckBudgetOffByOne ==
  /\ pc = "check"
  /\ pc' = IF i > MaxIterations THEN "max_iterations"
           ELSE IF Exhausted THEN "token_budget_exhausted"
           ELSE "chat"
  /\ UNCHANGED <<i, used, messages, calls, tokens, obs, steps>>

\* Mutant: the budget is counted and never looked at.
CheckIterationsOnly ==
  /\ pc = "check"
  /\ pc' = IF i = MaxIterations THEN "max_iterations" ELSE "chat"
  /\ UNCHANGED <<i, used, messages, calls, tokens, obs, steps>>

\* Mutant: the budget is looked at before the range of the loop.
CheckBudgetFirst ==
  /\ pc = "check"
  /\ pc' = IF Exhausted THEN "token_budget_exhausted"
           ELSE IF i = MaxIterations THEN "max_iterations"
           ELSE "chat"
  /\ UNCHANGED <<i, used, messages, calls, tokens, obs, steps>>

\* The head of the loop: its range first, then the budget.
CheckBudget ==
  /\ pc = "check"
  /\ pc' = IF i = MaxIterations THEN "max_iterations"
           ELSE IF Exhausted THEN "token_budget_exhausted"
           ELSE "chat"
  /\ UNCHANGED <<i, used, messages, calls, tokens, obs, steps>>

\* The LLM raises; run() has no handler.
ChatRaises ==
  /\ pc = "chat"
  /\ pc' = "raised"
  /\ UNCHANGED <<i, used, messages, calls, tokens, obs, steps>>

\* Mutant: the final answer is returned without its step.
FinalAnswerNotLogged ==
  /\ pc = "chat"
  /\ \E u \in Usage : used' = used + u
  /\ pc' = "complete"
  /\ UNCHANGED <<i, messages, calls, tokens, obs, steps>>

\* An answer without tool calls is the final one.
FinalAnswer ==
  /\ pc = "chat"
  /\ \E u \in Usage :
       /\ used' = used + u
       /\ steps' = Append(steps, [calls |-> <<>>, obs |-> <<>>, tokens |-> u])
  /\ pc' = "complete"
  /\ UNCHANGED <<i, messages, calls, tokens, obs>>

\* _execute_tool_calls starts every tool at once, or the first of them.
Started(cs) ==
  [k \in DOMAIN cs |-> IF k = 1 \/ parallel THEN "running" ELSE "waiting"]

\* An answer with tool calls: its message joins the conversation, its tools
\* start.
ToolCalls ==
  /\ pc = "chat"
  /\ \E cs \in Calls \ {<<>>}, u \in Usage :
       /\ used' = used + u
       /\ tokens' = u
       /\ calls' = cs
       /\ obs' = Started(cs)
       /\ messages' = Append(messages,
            [role |-> "assistant", ids |-> [k \in DOMAIN cs |-> cs[k].id]])
  /\ pc' = "tools"
  /\ UNCHANGED <<i, steps>>

\* Mutant: the next call in line is not started.
AnsweredOnly(k, o) == [n \in DOMAIN obs |-> IF n = k THEN o ELSE obs[n]]

\* The observation of call k; the next call in line starts.
Answered(k, o) ==
  [n \in DOMAIN obs |-> IF n = k THEN o
                        ELSE IF n = k + 1 /\ obs[n] = "waiting" THEN "running"
                        ELSE obs[n]]

\* _run_single_tool: a registered tool answers, or raises, or runs into its
\* timeout; a name that is not registered is an error observation at once.
ToolAnswers(k) ==
  /\ pc = "tools"
  /\ obs[k] = "running"
  /\ calls[k].name \in Registered
  /\ \E o \in {"result", "opaque"} : obs' = Answered(k, o)
  /\ UNCHANGED <<pc, i, used, messages, calls, tokens, steps>>

ToolFails(k) ==
  /\ pc = "tools"
  /\ obs[k] = "running"
  /\ obs' = Answered(k, "error")
  /\ UNCHANGED <<pc, i, used, messages, calls, tokens, steps>>

\* Mutant: a tool that failed gets no message.
ToolMessagesOfResults ==
  SelectSeq([k \in DOMAIN calls |->
               [role |-> "tool", id |-> calls[k].id, content |-> obs[k]]],
            LAMBDA m : m.content = "result")

ToolMessages ==
  [k \in DOMAIN calls |-> [role |-> "tool", id |-> calls[k].id, content |-> obs[k]]]

\* Every tool has answered: the observations are appended in the order of the
\* calls, the step is logged, and the loop goes round.
Observe ==
  /\ pc = "tools"
  /\ \A k \in DOMAIN calls : obs[k] \in {"result", "error"}
  /\ messages' = messages \o ToolMessages
  /\ steps' = Append(steps, [calls |-> calls, obs |-> obs, tokens |-> tokens])
  /\ calls' = <<>>
  /\ obs' = <<>>
  /\ i' = i + 1
  /\ pc' = "check"
  /\ UNCHANGED <<used, tokens>>

\* json.dumps raises on the observation, outside any handler: one tool that
\* answered too richly takes the whole run down.
ObserveRaises ==
  /\ pc = "tools"
  /\ \A k \in DOMAIN calls : obs[k] \in Observation
  /\ \E k \in DOMAIN calls : obs[k] = "opaque"
  /\ pc' = "raised"
  /\ UNCHANGED <<i, used, messages, calls, tokens, obs, steps>>

ToolStep == \E k \in DOMAIN calls : ToolAnswers(k) \/ ToolFails(k)

Next ==
  /\ UNCHANGED parallel
  /\ \/ CheckBudget
     \/ ChatRaises \/ FinalAnswer \/ ToolCalls
     \/ ToolStep
     \/ Observe \/ ObserveRaises

\* The LLM client and wait_for both bound their awaits.
Spec == Init /\ [][Next]_vars /\ WF_vars(Next)
-----------------------------------------------------------------------------
(* Properties *)

\* LLM answers received so far.
Answers == i + IF calls # <<>> \/ pc = "complete" THEN 1 ELSE 0

\* The budget is looked at between answers, never inside one: a run goes over
\* it by less than the last answer it received.
OverrunIsOneAnswer == used = 0 \/ \E u \in Usage : used - u < MaxTokens

\* Nothing is lost from the log, and no observation is missing or pending in
\* it: one step per LLM answer but the one whose tools still run.
LogIsComplete ==
  /\ Len(steps) = IF pc = "complete" THEN i + 1 ELSE i
  /\ \A n \in DOMAIN steps : DOMAIN steps[n].obs = DOMAIN steps[n].calls

\* The LLM API refuses a conversation in which an assistant message with tool
\* calls is not followed by one answer to each call.  Whenever the LLM may be
\* called, the conversation is well formed, whatever failed or timed out.
ConversationIsWellFormed ==
  pc \notin {"tools", "raised"} =>
    \A n \in DOMAIN messages :
      messages[n].role = "assistant" =>
        \A k \in DOMAIN messages[n].ids :
          /\ n + k \in DOMAIN messages
          /\ messages[n + k].role = "tool"
          /\ messages[n + k].id = messages[n].ids[k]

\* Without parallel_tool_calls tools run one at a time, in the order of the
\* calls.
SequentialToolsDoNotOverlap ==
  ~parallel =>
    \A k, n \in DOMAIN obs :
      k < n /\ obs[n] # "waiting" => obs[k] \in Observation

\* total_tokens is the sum of what the answers cost: those in the log, and
\* the one whose tools still run (orchestrator.py:134).
TokensAddUp ==
  used = Added([n \in DOMAIN steps |-> steps[n].tokens]) + IF calls # <<>> THEN tokens ELSE 0

\* A run is orderly: every tool call is answered in its place, one tool runs
\* after the other unless they may run at once, and every token is counted.
RunsAreOrderly == ConversationIsWellFormed /\ SequentialToolsDoNotOverlap /\ TokensAddUp

\* The run implements its contract: bounded rounds, none past the budget, one
\* truthful reason, and an end.
Contract == INSTANCE AgentContract WITH
  outcome <- IF pc \in Stops \cup {"raised"} THEN pc ELSE "running",
  rounds <- Answers,
  spent <- used

ImplementsContract == Contract!Spec

\* Every run returns or raises.
RunEnds == <>(pc \in Stops \cup {"raised"})

\* "When the budget is exhausted the orchestrator must produce a final answer
\* immediately instead of continuing the loop."
NoToolPastBudget == pc = "tools" => ~Exhausted
=============================================================================
