--------------------------- MODULE AgentLoop_proofs ---------------------------
(***************************************************************************)
(* Proofs about the agent and its tools, for any limits, any usage the LLM *)
(* may report, any number of calls in an answer, and any stores and bills. *)
(***************************************************************************)
EXTENDS AgentLoop, AgentToolbox, Lists_proofs, SequenceTheorems, TLAPS

\* Where the loop is bounds what it has done.
Control ==
  /\ pc = "chat" => i < MaxIterations /\ used < MaxTokens
  /\ pc \in {"tools", "complete", "token_budget_exhausted"} => i < MaxIterations
  /\ pc = "tools" => calls # <<>>
  /\ calls # <<>> => pc \in {"tools", "raised"} /\ i < MaxIterations
  /\ pc = "token_budget_exhausted" => used >= MaxTokens
  /\ pc = "max_iterations" => i = MaxIterations

IInv == TypeOK /\ Control

-----------------------------------------------------------------------------
(* Types *)

LEMMA CallsAreSequences == Calls \subseteq Seq(Call)
<1> SUFFICES ASSUME NEW n \in 0..MaxCalls, NEW cs \in [1..n -> Call]
             PROVE  cs \in Seq(Call)
  BY DEF Calls
<1> QED
  BY MaxCallsAssumption

\* What an answer with tool calls sets up.
LEMMA StartedType ==
  ASSUME NEW cs \in Calls
  PROVE  /\ Started(cs) \in [DOMAIN cs -> Progress]
         /\ [role |-> "assistant", ids |-> [k \in DOMAIN cs |-> cs[k].id]] \in Message
<1>1. Started(cs) \in [DOMAIN cs -> Progress]
  BY DEF Started, Progress
<1>2. cs \in Seq(Call)
  BY CallsAreSequences
<1>3. [k \in DOMAIN cs |-> cs[k].id] \in Seq(CallId)
  <2>1. PICK n \in Nat : cs \in [1..n -> Call]
    BY MaxCallsAssumption DEF Calls
  <2>2. [k \in 1..n |-> cs[k].id] \in [1..n -> CallId]
    BY <2>1 DEF Call
  <2> QED
    BY <2>1, <2>2
<1> QED
  BY <1>1, <1>3 DEF Message

LEMMA AnsweredType ==
  ASSUME TypeOK, NEW k \in DOMAIN calls, NEW o \in Observation
  PROVE  Answered(k, o) \in [DOMAIN calls -> Progress]
BY DEF TypeOK, Answered, Progress, Observation

\* Once every tool has answered, the answers can be sent and logged.
LEMMA ObservedType ==
  ASSUME TypeOK, \A k \in DOMAIN calls : obs[k] \in {"result", "error"}
  PROVE  /\ ToolMessages \in Seq(Message) /\ Len(ToolMessages) = Len(calls)
         /\ [calls |-> calls, obs |-> obs, tokens |-> tokens] \in AgentStep
<1>1. PICK n \in Nat : calls \in [1..n -> Call]
  BY MaxCallsAssumption DEF TypeOK, Calls
<1>2. calls \in Seq(Call) /\ DOMAIN calls = 1..n /\ Len(calls) = n
  BY <1>1
<1>3. obs \in [1..n -> {"result", "error"}]
  BY <1>2 DEF TypeOK
<1>4. obs \in Seq({"result", "error"})
  BY <1>3
<1>5. \A k \in 1..n : [role |-> "tool", id |-> calls[k].id, content |-> obs[k]] \in Message
  <2> SUFFICES ASSUME NEW k \in 1..n
               PROVE  [role |-> "tool", id |-> calls[k].id, content |-> obs[k]] \in Message
    OBVIOUS
  <2>1. calls[k].id \in CallId /\ obs[k] \in {"result", "error"}
    BY <1>1, <1>3 DEF Call
  <2> QED
    BY <2>1 DEF Message
<1>6. ToolMessages \in [1..n -> Message]
  BY <1>2, <1>5 DEF ToolMessages
<1>7. ToolMessages \in Seq(Message) /\ Len(ToolMessages) = n
  BY <1>6
<1> QED
  BY <1>2, <1>4, <1>7 DEF AgentStep, TypeOK

LEMMA IInvInit == Init => IInv
<1> SUFFICES ASSUME Init PROVE IInv
  OBVIOUS
<1>1. messages \in Seq(Message)
  BY DEF Init, Message
<1>2. <<>> \in Calls
  BY MaxCallsAssumption DEF Calls
<1>3. <<>> \in Seq(AgentStep) /\ DOMAIN <<>> = {}
  OBVIOUS
<1> QED
  BY <1>1, <1>2, <1>3, MaxIterationsAssumption DEF Init, IInv, TypeOK, Control, PC, Stops

LEMMA IInvInductive == IInv /\ [Next]_vars => IInv'
<1> SUFFICES ASSUME IInv, [Next]_vars PROVE IInv'
  OBVIOUS
<1> USE MaxIterationsAssumption, MaxTokensAssumption, UsageAssumption
<1>0. parallel' \in BOOLEAN
  BY DEF Next, vars, IInv, TypeOK
<1>1. CASE CheckBudget
  BY <1>0, <1>1 DEF CheckBudget, IInv, TypeOK, Control, PC, Stops, Exhausted
<1>2. CASE ChatRaises
  BY <1>0, <1>2 DEF ChatRaises, IInv, TypeOK, Control, PC, Stops
<1>3. CASE FinalAnswer
  <2>1. PICK u \in Usage :
          /\ used' = used + u
          /\ steps' = Append(steps, [calls |-> <<>>, obs |-> <<>>, tokens |-> u])
    BY <1>3 DEF FinalAnswer
  <2>2. [calls |-> <<>>, obs |-> <<>>, tokens |-> u] \in AgentStep
    <3>1. u \in Nat /\ <<>> \in Seq(Call) /\ <<>> \in Seq({"result", "error"})
      OBVIOUS
    <3> QED
      BY <3>1 DEF AgentStep
  <2>3. steps' \in Seq(AgentStep)
    BY <2>1, <2>2 DEF IInv, TypeOK
  <2>4. TypeOK'
    BY <1>0, <1>3, <2>1, <2>3 DEF FinalAnswer, IInv, TypeOK, PC, Stops
  <2> QED
    BY <1>3, <2>4 DEF FinalAnswer, IInv, Control
<1>4. CASE ToolCalls
  <2>1. PICK cs \in Calls \ {<<>>}, u \in Usage :
          /\ used' = used + u /\ tokens' = u /\ calls' = cs /\ obs' = Started(cs)
          /\ messages' = Append(messages,
               [role |-> "assistant", ids |-> [k \in DOMAIN cs |-> cs[k].id]])
    BY <1>4 DEF ToolCalls
  <2> DEFINE m == [role |-> "assistant", ids |-> [k \in DOMAIN cs |-> cs[k].id]]
  <2>0. cs \in Calls /\ m \in Message /\ Started(cs) \in [DOMAIN cs -> Progress]
    BY StartedType
  <2> HIDE DEF m
  <2>2. messages' \in Seq(Message) /\ obs' \in [DOMAIN calls' -> Progress]
    BY <2>1, <2>0 DEF IInv, TypeOK, m
  <2>3. TypeOK'
    BY <1>0, <1>4, <2>1, <2>2 DEF ToolCalls, IInv, TypeOK, PC
  <2> QED
    BY <1>4, <2>1, <2>3 DEF ToolCalls, IInv, Control
<1>5. CASE ToolStep
  <2>1. PICK k \in DOMAIN calls, o \in Observation :
          /\ pc = "tools" /\ obs' = Answered(k, o)
          /\ UNCHANGED <<pc, i, used, messages, calls, tokens, steps>>
    BY <1>5 DEF ToolStep, ToolAnswers, ToolFails, Observation
  <2>2. obs' \in [DOMAIN calls -> Progress]
    BY <2>1, AnsweredType DEF IInv
  <2> QED
    BY <1>0, <2>1, <2>2 DEF IInv, TypeOK, Control
<1>6. CASE Observe
  <2>1. ToolMessages \in Seq(Message)
        /\ [calls |-> calls, obs |-> obs, tokens |-> tokens] \in AgentStep
    BY <1>6, ObservedType DEF Observe, IInv
  <2>2. messages' \in Seq(Message) /\ steps' \in Seq(AgentStep)
    BY <1>6, <2>1 DEF Observe, IInv, TypeOK
  <2>3. <<>> \in Calls /\ DOMAIN <<>> = {}
    BY MaxCallsAssumption DEF Calls
  <2>4. i' \in 0..MaxIterations
    BY <1>6 DEF Observe, IInv, TypeOK, Control
  <2>5. calls' = <<>> /\ obs' \in [DOMAIN calls' -> Progress]
    BY <1>6, <2>3 DEF Observe
  <2>6. TypeOK'
    BY <1>0, <1>6, <2>2, <2>3, <2>4, <2>5 DEF Observe, IInv, TypeOK, PC
  <2> QED
    BY <1>6, <2>6 DEF Observe, IInv, Control
<1>7. CASE ObserveRaises
  BY <1>0, <1>7 DEF ObserveRaises, IInv, TypeOK, Control, PC
<1>8. CASE UNCHANGED vars
  BY <1>8 DEF vars, IInv, TypeOK, Control
<1> QED
  BY <1>1, <1>2, <1>3, <1>4, <1>5, <1>6, <1>7, <1>8 DEF Next

LEMMA IInvAlways == Spec => []IInv
BY IInvInit, IInvInductive, PTL DEF Spec

\* Whatever the LLM answers and however tools end, the conversation, the log
\* and the observations have the shape the next step of run() relies on.
THEOREM TypeCorrect == Spec => []TypeOK
<1>1. IInv => TypeOK
  BY DEF IInv
<1> QED
  BY <1>1, IInvAlways, PTL

-----------------------------------------------------------------------------
(* Tools *)

\* With parallel_tool_calls off no tool starts before the one in front of it
\* has answered, failed or timed out.
THEOREM SequentialToolsRunInOrder == Spec => []SequentialToolsDoNotOverlap
<1>1. Init => SequentialToolsDoNotOverlap
  BY DEF Init, SequentialToolsDoNotOverlap
<1>2. IInv /\ SequentialToolsDoNotOverlap /\ [Next]_vars => SequentialToolsDoNotOverlap'
  <2> SUFFICES ASSUME IInv, SequentialToolsDoNotOverlap, [Next]_vars, ~parallel,
                      parallel' = parallel, NEW a \in DOMAIN obs', NEW b \in DOMAIN obs',
                      a < b, obs'[b] # "waiting"
               PROVE  obs'[a] \in Observation
    BY DEF SequentialToolsDoNotOverlap, Next, vars
  <2>1. CASE ToolCalls
    <3>1. PICK cs \in Calls : obs' = Started(cs)
      BY <2>1 DEF ToolCalls
    <3>2. PICK n \in Nat : DOMAIN cs = 1..n
      BY MaxCallsAssumption DEF Calls
    <3>3. b = 1 /\ a \in 1..n
      BY <3>1, <3>2 DEF Started
    <3> QED
      BY <3>3
  <2>2. CASE ToolStep
    <3>1. PICK k \in DOMAIN calls, o \in Observation :
            obs[k] = "running" /\ obs' = Answered(k, o)
      BY <2>2 DEF ToolStep, ToolAnswers, ToolFails, Observation
    <3>2. PICK n \in Nat : DOMAIN obs = 1..n /\ k \in 1..n
      BY MaxCallsAssumption DEF IInv, TypeOK, Calls
    <3>3. a \in 1..n /\ b \in 1..n
      BY <3>1, <3>2 DEF Answered
    <3>4. CASE obs[b] # "waiting"
      <4>1. obs[a] \in Observation
        BY <3>2, <3>3, <3>4 DEF SequentialToolsDoNotOverlap
      <4> QED
        BY <3>1, <3>2, <3>3, <4>1 DEF Answered, Observation
    <3>5. CASE obs[b] = "waiting"
      <4>1. b = k + 1
        BY <3>1, <3>2, <3>3, <3>5 DEF Answered
      <4>2. CASE a = k
        BY <3>1, <3>2, <4>2 DEF Answered
      <4>3. CASE a # k
        <5>1. a < k /\ obs[a] \in Observation
          BY <3>1, <3>2, <3>3, <4>1, <4>3 DEF SequentialToolsDoNotOverlap
        <5> QED
          BY <3>1, <3>2, <3>3, <5>1 DEF Answered, Observation
      <4> QED
        BY <4>2, <4>3
    <3> QED
      BY <3>4, <3>5
  <2>3. CASE obs' = <<>>
    BY <2>3
  <2>4. CASE UNCHANGED obs
    BY <2>4 DEF SequentialToolsDoNotOverlap
  <2> QED
    BY <2>1, <2>2, <2>3, <2>4 DEF Next, CheckBudget, ChatRaises, FinalAnswer, Observe,
                                  ObserveRaises, vars
<1> QED
  BY <1>1, <1>2, IInvAlways, PTL DEF Spec

-----------------------------------------------------------------------------
(* The token budget *)

\* A run goes over its token budget by less than its last answer, whatever
\* the LLM answers and however its tools end.
THEOREM BudgetIsBounded == Spec => []OverrunIsOneAnswer
<1>1. Init => OverrunIsOneAnswer
  BY DEF Init, OverrunIsOneAnswer
<1>2. IInv /\ OverrunIsOneAnswer /\ [Next]_vars => OverrunIsOneAnswer'
  <2> SUFFICES ASSUME IInv, OverrunIsOneAnswer, [Next]_vars PROVE OverrunIsOneAnswer'
    OBVIOUS
  <2>1. CASE UNCHANGED used
    BY <2>1 DEF OverrunIsOneAnswer
  <2>2. CASE FinalAnswer \/ ToolCalls
    <3>1. PICK u \in Usage : used' = used + u
      BY <2>2 DEF FinalAnswer, ToolCalls
    <3>2. used < MaxTokens /\ used \in Nat /\ u \in Nat
      BY <2>2, UsageAssumption DEF FinalAnswer, ToolCalls, IInv, Control, TypeOK
    <3>3. used' - u < MaxTokens
      BY <3>1, <3>2, MaxTokensAssumption
    <3> QED
      BY <3>3 DEF OverrunIsOneAnswer
  <2> QED
    BY <2>1, <2>2 DEF Next, CheckBudget, ChatRaises, ToolStep, ToolAnswers, ToolFails,
                      Observe, ObserveRaises, vars
<1> QED
  BY <1>1, <1>2, IInvAlways, PTL DEF Spec

-----------------------------------------------------------------------------
(* The log *)

\* Every LLM answer but the one whose tools still run, or that could not be
\* written, is in the log, with one observation for each of its calls.
THEOREM LogNeverLosesAStep == Spec => []LogIsComplete
<1>1. Init => LogIsComplete
  BY DEF Init, LogIsComplete
<1>2. IInv /\ LogIsComplete /\ [Next]_vars => LogIsComplete'
  <2> SUFFICES ASSUME IInv, LogIsComplete, [Next]_vars PROVE LogIsComplete'
    OBVIOUS
  <2>1. steps \in Seq(AgentStep) /\ i \in Nat
    BY MaxIterationsAssumption DEF IInv, TypeOK
  <2>2. CASE FinalAnswer
    <3>1. PICK u \in Usage :
            steps' = Append(steps, [calls |-> <<>>, obs |-> <<>>, tokens |-> u])
      BY <2>2 DEF FinalAnswer
    <3> QED
      BY <2>1, <2>2, <3>1 DEF FinalAnswer, LogIsComplete
  <2>3. CASE Observe
    <3>1. steps' = Append(steps, [calls |-> calls, obs |-> obs, tokens |-> tokens])
      BY <2>3 DEF Observe
    <3>2. DOMAIN obs = DOMAIN calls
      BY DEF IInv, TypeOK
    <3> QED
      BY <2>1, <2>3, <3>1, <3>2 DEF Observe, LogIsComplete
  <2>4. CASE UNCHANGED <<steps, i>> /\ pc # "complete" /\ pc' # "complete"
    BY <2>4 DEF LogIsComplete
  <2>5. CASE UNCHANGED vars
    BY <2>5 DEF LogIsComplete, vars
  <2> QED
    BY <2>2, <2>3, <2>4, <2>5 DEF Next, CheckBudget, ChatRaises, ToolCalls, ToolStep,
                                  ToolAnswers, ToolFails, ObserveRaises
<1> QED
  BY <1>1, <1>2, IInvAlways, PTL DEF Spec

-----------------------------------------------------------------------------
(* The conversation and the count of tokens *)

AnsweredAfter(n) ==
  \A k \in DOMAIN messages[n].ids :
    /\ n + k \in DOMAIN messages
    /\ messages[n + k].role = "tool"
    /\ messages[n + k].id = messages[n].ids[k]

\* The message whose tools have not been observed yet; the last one, and of a
\* run that raised, too.
InHand(n) ==
  /\ calls # <<>> /\ n = Len(messages)
  /\ messages[n].ids = [k \in DOMAIN calls |-> calls[k].id]

ConversationInv ==
  \A n \in DOMAIN messages : messages[n].role = "assistant" => AnsweredAfter(n) \/ InHand(n)

LEMMA MessagesAppended ==
  ASSUME ConversationInv, calls = <<>>, messages \in Seq(Message),
         NEW ms \in Seq(Message), messages' = messages \o ms, NEW L \in Nat, L = Len(messages),
         \A k \in DOMAIN ms : ms[k].role = "assistant" => InHand(L + k)'
  PROVE  ConversationInv'
<1>1. /\ Len(messages') = Len(messages) + Len(ms) /\ Len(messages) \in Nat /\ Len(ms) \in Nat
      /\ DOMAIN messages' = 1..(Len(messages) + Len(ms))
      /\ DOMAIN messages = 1..Len(messages) /\ DOMAIN ms = 1..Len(ms)
      /\ \A n \in 1..Len(messages) : messages'[n] = messages[n]
      /\ \A k \in 1..Len(ms) : messages'[Len(messages) + k] = ms[k]
  BY ConcatProperties
<1>2. SUFFICES ASSUME NEW n \in DOMAIN messages', messages'[n].role = "assistant"
               PROVE  AnsweredAfter(n)' \/ InHand(n)'
  BY DEF ConversationInv
<1>3. CASE n \in DOMAIN messages
  <2>1. AnsweredAfter(n) /\ messages'[n] = messages[n]
    BY <1>1, <1>2, <1>3 DEF ConversationInv, InHand
  <2>2. \A k \in DOMAIN messages[n].ids :
          n + k \in DOMAIN messages' /\ messages'[n + k] = messages[n + k]
    BY <1>1, <2>1 DEF AnsweredAfter
  <2> QED
    BY <2>1, <2>2 DEF AnsweredAfter
<1>4. CASE n \notin DOMAIN messages
  <2>1. n - Len(messages) \in 1..Len(ms) /\ Len(messages) + (n - Len(messages)) = n
    BY <1>1, <1>2, <1>4
  <2>2. PICK k \in DOMAIN ms : n = Len(messages) + k
    BY <1>1, <2>1
  <2>3. ms[k].role = "assistant"
    BY <1>1, <1>2, <2>2
  <2>4. InHand(L + k)' /\ n = L + k
    BY <2>2, <2>3
  <2>5. PICK p : p = L + k
    OBVIOUS
  <2> QED
    BY <2>4
<1> QED
  BY <1>3, <1>4

LEMMA ConversationStep ==
  ASSUME IInv, ConversationInv, [Next]_vars
  PROVE  ConversationInv'
<1>0. messages \in Seq(Message) /\ (calls # <<>> => pc \in {"tools", "raised"})
  BY DEF IInv, TypeOK, Control
<1>1. CASE ToolCalls
  <2>1. PICK cs \in Calls \ {<<>>} :
          /\ calls' = cs
          /\ messages' = Append(messages,
               [role |-> "assistant", ids |-> [k \in DOMAIN cs |-> cs[k].id]])
    BY <1>1 DEF ToolCalls
  <2>2. PICK m \in Message : /\ m = [role |-> "assistant", ids |-> [k \in DOMAIN cs |-> cs[k].id]]
                             /\ m.ids = [k \in DOMAIN cs |-> cs[k].id]
    BY StartedType
  <2>3. /\ messages' = messages \o <<m>> /\ <<m>> \in Seq(Message) /\ DOMAIN <<m>> = {1}
        /\ Len(messages') = Len(messages) + 1 /\ messages'[Len(messages) + 1] = m
    <3>1. messages' = Append(messages, m)
      BY <2>1, <2>2
    <3>2. <<m>> \in Seq(Message) /\ DOMAIN <<m>> = {1} /\ Append(messages, m) = messages \o <<m>>
      BY <1>0, AppendIsConcat
    <3>3. /\ Len(Append(messages, m)) = Len(messages) + 1
          /\ Append(messages, m)[Len(messages) + 1] = m
      BY <1>0, AppendProperties
    <3> QED
      BY <3>1, <3>2, <3>3
  <2>6. PICK L \in Nat : L = Len(messages)
    BY <1>0
  <2>4. InHand(L + 1)'
    BY <2>1, <2>2, <2>3, <2>6 DEF InHand
  <2>5. calls = <<>>
    BY <1>0, <1>1 DEF ToolCalls
  <2>7. \A k \in DOMAIN <<m>> : InHand(L + k)'
    BY <2>3, <2>4
  <2> QED
    BY <1>0, <2>3, <2>5, <2>6, <2>7, MessagesAppended
<1>2. CASE Observe
  <2>1. /\ ToolMessages \in Seq(Message) /\ Len(ToolMessages) = Len(calls)
        /\ messages' = messages \o ToolMessages /\ calls' = <<>>
    BY <1>2, ObservedType DEF IInv, Observe
  <2>2. /\ DOMAIN ToolMessages = DOMAIN calls
        /\ \A k \in DOMAIN calls :
             ToolMessages[k].role = "tool" /\ ToolMessages[k].id = calls[k].id
    BY DEF ToolMessages
  <2>3. /\ Len(messages) \in Nat /\ DOMAIN calls = 1..Len(ToolMessages) /\ Len(ToolMessages) \in Nat
        /\ DOMAIN messages' = 1..(Len(messages) + Len(ToolMessages))
        /\ DOMAIN messages = 1..Len(messages)
        /\ \A n \in 1..Len(messages) : messages'[n] = messages[n]
        /\ \A k \in 1..Len(ToolMessages) : messages'[Len(messages) + k] = ToolMessages[k]
    <3>1. PICK m \in Nat : DOMAIN calls = 1..m /\ Len(calls) = m
      BY MaxCallsAssumption DEF IInv, TypeOK, Calls
    <3>2. /\ Len(messages \o ToolMessages) = Len(messages) + Len(ToolMessages)
          /\ \A n \in 1..(Len(messages) + Len(ToolMessages)) :
               (messages \o ToolMessages)[n] =
                 IF n <= Len(messages) THEN messages[n] ELSE ToolMessages[n - Len(messages)]
          /\ messages \o ToolMessages \in Seq(Message)
      BY <1>0, <2>1, ConcatProperties
    <3>3. Len(messages) \in Nat /\ Len(ToolMessages) \in Nat
      BY <1>0, <2>1
    <3>4. \A n \in 1..Len(messages) : messages'[n] = messages[n]
      BY <2>1, <3>2, <3>3
    <3>5. \A k \in 1..Len(ToolMessages) : messages'[Len(messages) + k] = ToolMessages[k]
      <4>1. TAKE k \in 1..Len(ToolMessages)
      <4>2. /\ Len(messages) + k \in 1..(Len(messages) + Len(ToolMessages))
            /\ ~(Len(messages) + k <= Len(messages)) /\ Len(messages) + k - Len(messages) = k
        BY <3>3
      <4> QED
        BY <2>1, <3>2, <4>2
    <3> QED
      BY <1>0, <2>1, <3>1, <3>2, <3>3, <3>4, <3>5
  <2>4. SUFFICES ASSUME NEW n \in DOMAIN messages', messages'[n].role = "assistant"
                 PROVE  AnsweredAfter(n)'
    BY DEF ConversationInv
  <2>5. n \in 1..Len(messages) /\ messages'[n] = messages[n]
    <3>1. SUFFICES ASSUME n \notin 1..Len(messages) PROVE FALSE
      BY <2>3
    <3>2. n - Len(messages) \in 1..Len(ToolMessages) /\ Len(messages) + (n - Len(messages)) = n
      BY <2>3, <2>4, <3>1
    <3> QED
      BY <2>2, <2>3, <2>4, <3>2
  <2>6. CASE AnsweredAfter(n)
    <3>1. \A k \in DOMAIN messages[n].ids :
            n + k \in DOMAIN messages' /\ messages'[n + k] = messages[n + k]
      BY <2>3, <2>6 DEF AnsweredAfter
    <3> QED
      BY <2>5, <2>6, <3>1 DEF AnsweredAfter
  <2>7. CASE InHand(n)
    <3>1. /\ DOMAIN messages[n].ids = 1..Len(ToolMessages) /\ n = Len(messages)
          /\ \A k \in DOMAIN messages[n].ids : messages[n].ids[k] = calls[k].id
      BY <2>3, <2>7 DEF InHand
    <3>2. \A k \in DOMAIN messages[n].ids :
            /\ n + k \in DOMAIN messages' /\ messages'[n + k].role = "tool"
            /\ messages'[n + k].id = messages[n].ids[k]
      BY <2>2, <2>3, <3>1
    <3> QED
      BY <2>5, <3>2 DEF AnsweredAfter
  <2> QED
    BY <2>4, <2>5, <2>6, <2>7, <2>3 DEF ConversationInv
<1>3. CASE UNCHANGED <<messages, calls>>
  BY <1>3 DEF ConversationInv, AnsweredAfter, InHand
<1> QED
  BY <1>1, <1>2, <1>3 DEF Next, CheckBudget, ChatRaises, FinalAnswer, ToolStep, ToolAnswers,
                          ToolFails, ObserveRaises, vars

Costs == [n \in DOMAIN steps |-> steps[n].tokens]

LEMMA StepsCost == \A s \in AgentStep : s.tokens \in Nat
BY DEF AgentStep

\* The costs of a log that grows by a step.
LEMMA CostsGrow ==
  ASSUME TypeOK, NEW s \in AgentStep, steps' = Append(steps, s)
  PROVE  /\ Costs \in Seq(Nat) /\ Costs' = Append(Costs, s.tokens) /\ s.tokens \in Nat
         /\ Added(Costs)' = Added(Costs) + s.tokens
<1>1. /\ steps' \in Seq(AgentStep) /\ steps \in Seq(AgentStep) /\ Len(steps) \in Nat
      /\ Len(steps') = Len(steps) + 1 /\ steps'[Len(steps) + 1] = s
      /\ \A n \in 1..Len(steps) : steps'[n] = steps[n]
      /\ DOMAIN steps = 1..Len(steps) /\ DOMAIN steps' = 1..(Len(steps) + 1)
  BY AppendProperties DEF TypeOK
<1>2. \A n \in 1..Len(steps) : steps[n].tokens \in Nat
  BY <1>1, StepsCost
<1>3. s.tokens \in Nat
  BY StepsCost
<1>4. Costs \in [1..Len(steps) -> Nat] /\ \A n \in 1..Len(steps) : Costs[n] = steps[n].tokens
  BY <1>1, <1>2 DEF Costs
<1>5. Costs \in Seq(Nat) /\ Len(Costs) = Len(steps)
  BY <1>1, <1>4
<1>6. /\ Append(Costs, s.tokens) \in [1..(Len(steps) + 1) -> Nat]
      /\ Append(Costs, s.tokens)[Len(steps) + 1] = s.tokens
      /\ \A n \in 1..Len(steps) : Append(Costs, s.tokens)[n] = Costs[n]
  <2> DEFINE t == Append(Costs, s.tokens)
  <2>1. /\ t \in Seq(Nat) /\ Len(t) = Len(Costs) + 1
        /\ t[Len(Costs) + 1] = s.tokens /\ \A n \in 1..Len(Costs) : t[n] = Costs[n]
    BY <1>3, <1>5, AppendProperties
  <2> HIDE DEF t
  <2>2. /\ t \in [1..(Len(steps) + 1) -> Nat] /\ t[Len(steps) + 1] = s.tokens
        /\ \A n \in 1..Len(steps) : t[n] = Costs[n]
    BY <1>5, <2>1
  <2> QED
    BY <2>2 DEF t
<1>7. Costs' \in [1..(Len(steps) + 1) -> Nat]
      /\ \A n \in 1..(Len(steps) + 1) : Costs'[n] = Append(Costs, s.tokens)[n]
  BY <1>1, <1>2, <1>3, <1>4, <1>6 DEF Costs
<1>8. Costs' = Append(Costs, s.tokens)
  BY <1>6, <1>7
<1>9. Added(Costs)' = Added(Append(Costs, s.tokens))
  BY <1>8
<1> QED
  BY <1>3, <1>5, <1>8, <1>9, AddedAppend

CountInv == used = Added(Costs) + IF calls # <<>> THEN tokens ELSE 0

LEMMA CountStep ==
  ASSUME IInv, CountInv, [Next]_vars
  PROVE  CountInv'
<1>0. TypeOK /\ (calls # <<>> => pc \in {"tools", "raised"}) /\ tokens \in Nat /\ used \in Nat
  BY DEF IInv, TypeOK, Control
<1>1. CASE FinalAnswer
  <2>1. PICK u \in Usage :
          /\ used' = used + u
          /\ steps' = Append(steps, [calls |-> <<>>, obs |-> <<>>, tokens |-> u])
    BY <1>1 DEF FinalAnswer
  <2>2. u \in Nat /\ <<>> \in Seq(Call) /\ <<>> \in Seq({"result", "error"})
    BY UsageAssumption
  <2>6. [calls |-> <<>>, obs |-> <<>>, tokens |-> u] \in AgentStep
    BY <2>2 DEF AgentStep
  <2>3. PICK s \in AgentStep : s = [calls |-> <<>>, obs |-> <<>>, tokens |-> u] /\ s.tokens = u
    BY <2>6
  <2>4. Added(Costs)' = Added(Costs) + u /\ Costs \in Seq(Nat)
    BY <1>0, <2>1, <2>3, CostsGrow
  <2>5. calls = <<>> /\ calls' = <<>>
    BY <1>0, <1>1 DEF FinalAnswer
  <2>7. Added(Costs) \in Nat
    BY <2>4, AddedShort
  <2> QED
    BY <1>0, <2>1, <2>2, <2>4, <2>5, <2>7 DEF CountInv
<1>2. CASE Observe
  <2>1. [calls |-> calls, obs |-> obs, tokens |-> tokens] \in AgentStep
    BY <1>2, ObservedType DEF IInv, Observe
  <2>2. PICK s \in AgentStep : s = [calls |-> calls, obs |-> obs, tokens |-> tokens] /\ s.tokens = tokens
    BY <2>1
  <2>3. steps' = Append(steps, s) /\ calls' = <<>> /\ calls # <<>> /\ used' = used
    BY <1>2, <2>2 DEF Observe, IInv, Control
  <2>4. Added(Costs)' = Added(Costs) + tokens /\ Costs \in Seq(Nat)
    BY <1>0, <2>2, <2>3, CostsGrow
  <2>5. Added(Costs) \in Nat
    BY <2>4, AddedShort
  <2> QED
    BY <1>0, <2>3, <2>4, <2>5 DEF CountInv
<1>3. CASE ToolCalls
  <2>1. PICK cs \in Calls \ {<<>>}, u \in Usage : used' = used + u /\ tokens' = u /\ calls' = cs
    BY <1>3 DEF ToolCalls
  <2>2. calls = <<>> /\ Costs' = Costs
    BY <1>0, <1>3 DEF ToolCalls, Costs
  <2>3. Added(Costs)' = Added(Costs)
    BY <2>2
  <2>4. used = Added(Costs) + 0 
    BY <2>2 DEF CountInv
  <2>5. \A n \in DOMAIN steps : steps[n].tokens \in Nat
    BY <1>0, StepsCost DEF TypeOK
  <2>6. Costs \in Seq(Nat)
    BY <1>0, <2>5 DEF TypeOK, Costs
  <2>7. Added(Costs) \in Nat
    BY <2>6, AddedShort
  <2> QED
    BY <2>1, <2>3, <2>4, <2>7, UsageAssumption DEF CountInv
<1>4. CASE UNCHANGED <<used, steps, calls, tokens>>
  BY <1>4 DEF CountInv, Costs
<1> QED
  BY <1>1, <1>2, <1>3, <1>4 DEF Next, CheckBudget, ChatRaises, ToolStep, ToolAnswers,
                               ToolFails, ObserveRaises, vars

\* Whatever the LLM calls and however the tools end, whenever the LLM is called
\* every call in the conversation has its answer in its place, and no token of
\* an answer is left out of the count or counted twice.
THEOREM RunsStayOrderly == Spec => []RunsAreOrderly
<1>1. Init => ConversationInv /\ CountInv
  <2> SUFFICES ASSUME Init PROVE ConversationInv /\ CountInv
    OBVIOUS
  <2>1. ConversationInv
    BY DEF Init, ConversationInv
  <2>2. Costs \in Seq(Nat) /\ Len(Costs) = 0
    BY DEF Init, Costs
  <2>3. Added(Costs) = 0
    BY <2>2, AddedShort
  <2> QED
    BY <2>1, <2>3 DEF Init, CountInv
<1>2. IInv /\ ConversationInv /\ CountInv /\ [Next]_vars => ConversationInv' /\ CountInv'
  BY ConversationStep, CountStep
<1>3. IInv /\ ConversationInv /\ CountInv /\ SequentialToolsDoNotOverlap => RunsAreOrderly
  BY DEF IInv, Control, ConversationInv, InHand, AnsweredAfter, CountInv, Costs,
         RunsAreOrderly, ConversationIsWellFormed, TokensAddUp
<1> QED
  BY <1>1, <1>2, <1>3, IInvAlways, SequentialToolsRunInOrder, PTL DEF Spec

-----------------------------------------------------------------------------
(* The contract *)

\* A run is a run of its contract: as many rounds as iterations, none past
\* the budget, and a reason that says which limit stopped it.  Its end, under
\* fairness, is model-checked.
THEOREM RunKeepsItsContract == Spec => Contract!Init /\ [][Contract!Next]_(Contract!vars)
<1> USE DEF Contract!vars
<1>1. Init => Contract!Init
  BY DEF Init, Contract!Init, Answers, Stops
<1>2. IInv /\ [Next]_vars => [Contract!Next]_(Contract!vars)
  <2> SUFFICES ASSUME IInv, [Next]_vars PROVE [Contract!Next]_(Contract!vars)
    OBVIOUS
  <2> USE DEF Answers, Stops
  <2>1. TypeOK /\ Control /\ i \in Nat /\ used \in Nat
    BY MaxIterationsAssumption DEF IInv, TypeOK
  <2>2. CASE CheckBudget
    BY <2>1, <2>2, MaxIterationsAssumption, MaxTokensAssumption
       DEF CheckBudget, Control, Exhausted, TypeOK,
           Contract!Next, Contract!StopOnBudget, Contract!StopOnIterations
  <2>3. CASE ChatRaises
    BY <2>1, <2>3 DEF ChatRaises, Control, Contract!Next, Contract!Raise
  <2>4. CASE FinalAnswer
    BY <2>1, <2>4 DEF FinalAnswer, Control, Contract!Next, Contract!Round
  <2>5. CASE ToolCalls
    BY <2>1, <2>5 DEF ToolCalls, Control, Contract!Next, Contract!Round
  <2>6. CASE ToolStep
    BY <2>6 DEF ToolStep, ToolAnswers, ToolFails
  <2>7. CASE Observe
    BY <2>1, <2>7 DEF Observe, Control
  <2>8. CASE ObserveRaises
    BY <2>1, <2>8 DEF ObserveRaises, Control, Contract!Next, Contract!Raise
  <2>9. CASE UNCHANGED vars
    BY <2>9 DEF vars
  <2> QED
    BY <2>2, <2>3, <2>4, <2>5, <2>6, <2>7, <2>8, <2>9 DEF Next
<1> QED
  BY <1>1, <1>2, IInvAlways, PTL DEF Spec

-----------------------------------------------------------------------------
(* The tools (AgentTools): what the steps of a call that are over brought. *)

Rule == {"go on", "nothing", "error"}

\* Step s of a plan, as its j-th, says what becomes of the call, and waits for
\* earlier ones only.
Fits(s, j) == s.ifLost \in Rule /\ s.ifNone \in Rule /\ s.after \subseteq 1..(j - 1)

IsPlan(p) ==
  /\ Len(p) \in 0..6
  /\ DOMAIN p = 1..Len(p)
  /\ \A j \in 1..Len(p) : Fits(p[j], j)

LEMMA PlanOf1 ==
  ASSUME NEW s1,
         Fits(s1, 1)
  PROVE  IsPlan(<<s1>>)
  BY DEF IsPlan

LEMMA PlanOf3 ==
  ASSUME NEW s1, NEW s2, NEW s3,
         Fits(s1, 1), Fits(s2, 2), Fits(s3, 3)
  PROVE  IsPlan(<<s1, s2, s3>>)
  BY DEF IsPlan

LEMMA PlanOf4 ==
  ASSUME NEW s1, NEW s2, NEW s3, NEW s4,
         Fits(s1, 1), Fits(s2, 2), Fits(s3, 3), Fits(s4, 4)
  PROVE  IsPlan(<<s1, s2, s3, s4>>)
  BY DEF IsPlan

LEMMA PlanOf5 ==
  ASSUME NEW s1, NEW s2, NEW s3, NEW s4, NEW s5,
         Fits(s1, 1), Fits(s2, 2), Fits(s3, 3), Fits(s4, 4), Fits(s5, 5)
  PROVE  IsPlan(<<s1, s2, s3, s4, s5>>)
  BY DEF IsPlan

LEMMA PlanOf6 ==
  ASSUME NEW s1, NEW s2, NEW s3, NEW s4, NEW s5, NEW s6,
         Fits(s1, 1), Fits(s2, 2), Fits(s3, 3), Fits(s4, 4), Fits(s5, 5), Fits(s6, 6)
  PROVE  IsPlan(<<s1, s2, s3, s4, s5, s6>>)
  BY DEF IsPlan

\* Every tool works by a plan.
LEMMA PlansAre == \A t \in Tool : IsPlan(Plan[t])
<1>1. /\ {1} \subseteq 1..(2 - 1) /\ {1} \subseteq 1..(3 - 1) /\ {1} \subseteq 1..(4 - 1)
      /\ {2} \subseteq 1..(3 - 1) /\ {3} \subseteq 1..(4 - 1)
  OBVIOUS
<1>2. IsPlan(SearchPlan)
  <2>1. Fits(SearchPlan[1], 1)
    BY DEF SearchPlan, Consult, Fits, Rule
  <2> QED BY <2>1, PlanOf1 DEF SearchPlan
<1>3. IsPlan(NotesPlan)
  <2>1. Fits(NotesPlan[1], 1)
    BY DEF NotesPlan, Consult, Fits, Rule
  <2> QED BY <2>1, PlanOf1 DEF NotesPlan
<1>4. IsPlan(GraphPlan)
  <2>1. Fits(GraphPlan[1], 1)
    BY DEF GraphPlan, Consult, Fits, Rule
  <2> QED BY <2>1, PlanOf1 DEF GraphPlan
<1>5. IsPlan(SqlPlan)
  <2>1. Fits(SqlPlan[1], 1)
    BY DEF SqlPlan, Consult, Fits, Rule
  <2> QED BY <2>1, PlanOf1 DEF SqlPlan
<1>6. IsPlan(ComparePlan)
  <2>1. /\ ComparePlan[1].ifLost = "go on" /\ ComparePlan[1].ifNone = "error" /\ ComparePlan[1].after = {}
        /\ ComparePlan[2].ifLost = "go on" /\ ComparePlan[2].ifNone = "go on" /\ ComparePlan[2].after = {1}
        /\ ComparePlan[3].ifLost = "go on" /\ ComparePlan[3].ifNone = "error" /\ ComparePlan[3].after = {}
        /\ ComparePlan[4].ifLost = "go on" /\ ComparePlan[4].ifNone = "go on" /\ ComparePlan[4].after = {3}
        /\ ComparePlan[5].ifLost = "go on" /\ ComparePlan[5].ifNone = "go on" /\ ComparePlan[5].after = {}
        /\ ComparePlan[6].ifLost = "go on" /\ ComparePlan[6].ifNone = "go on" /\ ComparePlan[6].after = {}
    BY DEF ComparePlan, Consult
  <2>2. Fits(ComparePlan[1], 1)
    BY <1>1, <2>1 DEF Fits, Rule
  <2>3. Fits(ComparePlan[2], 2)
    BY <1>1, <2>1 DEF Fits, Rule
  <2>4. Fits(ComparePlan[3], 3)
    BY <1>1, <2>1 DEF Fits, Rule
  <2>5. Fits(ComparePlan[4], 4)
    BY <1>1, <2>1 DEF Fits, Rule
  <2>6. Fits(ComparePlan[5], 5)
    BY <1>1, <2>1 DEF Fits, Rule
  <2>7. Fits(ComparePlan[6], 6)
    BY <1>1, <2>1 DEF Fits, Rule
  <2> QED BY <2>2, <2>3, <2>4, <2>5, <2>6, <2>7, PlanOf6 DEF ComparePlan
<1>7. IsPlan(SelectPlan)
  <2>1. /\ SelectPlan[1].ifLost = "nothing" /\ SelectPlan[1].ifNone = "nothing" /\ SelectPlan[1].after = {}
        /\ SelectPlan[2].ifLost = "go on" /\ SelectPlan[2].ifNone = "go on" /\ SelectPlan[2].after = {1}
        /\ SelectPlan[3].ifLost = "go on" /\ SelectPlan[3].ifNone = "go on" /\ SelectPlan[3].after = {1}
        /\ SelectPlan[4].ifLost = "go on" /\ SelectPlan[4].ifNone = "go on" /\ SelectPlan[4].after = {1}
    BY DEF SelectPlan, Consult
  <2>2. Fits(SelectPlan[1], 1)
    BY <1>1, <2>1 DEF Fits, Rule
  <2>3. Fits(SelectPlan[2], 2)
    BY <1>1, <2>1 DEF Fits, Rule
  <2>4. Fits(SelectPlan[3], 3)
    BY <1>1, <2>1 DEF Fits, Rule
  <2>5. Fits(SelectPlan[4], 4)
    BY <1>1, <2>1 DEF Fits, Rule
  <2> QED BY <2>2, <2>3, <2>4, <2>5, PlanOf4 DEF SelectPlan
<1>8. IsPlan(ReviewPlan)
  <2>1. /\ ReviewPlan[1].ifLost = "go on" /\ ReviewPlan[1].ifNone = "go on" /\ ReviewPlan[1].after = {}
        /\ ReviewPlan[2].ifLost = "go on" /\ ReviewPlan[2].ifNone = "go on" /\ ReviewPlan[2].after = {1}
        /\ ReviewPlan[3].ifLost = "go on" /\ ReviewPlan[3].ifNone = "go on" /\ ReviewPlan[3].after = {1}
    BY DEF ReviewPlan, Consult
  <2>2. Fits(ReviewPlan[1], 1)
    BY <1>1, <2>1 DEF Fits, Rule
  <2>3. Fits(ReviewPlan[2], 2)
    BY <1>1, <2>1 DEF Fits, Rule
  <2>4. Fits(ReviewPlan[3], 3)
    BY <1>1, <2>1 DEF Fits, Rule
  <2> QED BY <2>2, <2>3, <2>4, PlanOf3 DEF ReviewPlan
<1>9. IsPlan(DesignPlan)
  <2>1. /\ DesignPlan[1].ifLost = "go on" /\ DesignPlan[1].ifNone = "go on" /\ DesignPlan[1].after = {}
        /\ DesignPlan[2].ifLost = "go on" /\ DesignPlan[2].ifNone = "go on" /\ DesignPlan[2].after = {}
        /\ DesignPlan[3].ifLost = "go on" /\ DesignPlan[3].ifNone = "go on" /\ DesignPlan[3].after = {2}
        /\ DesignPlan[4].ifLost = "go on" /\ DesignPlan[4].ifNone = "go on" /\ DesignPlan[4].after = {}
        /\ DesignPlan[5].ifLost = "go on" /\ DesignPlan[5].ifNone = "go on" /\ DesignPlan[5].after = {}
    BY DEF DesignPlan, Consult
  <2>2. Fits(DesignPlan[1], 1)
    BY <1>1, <2>1 DEF Fits, Rule
  <2>3. Fits(DesignPlan[2], 2)
    BY <1>1, <2>1 DEF Fits, Rule
  <2>4. Fits(DesignPlan[3], 3)
    BY <1>1, <2>1 DEF Fits, Rule
  <2>5. Fits(DesignPlan[4], 4)
    BY <1>1, <2>1 DEF Fits, Rule
  <2>6. Fits(DesignPlan[5], 5)
    BY <1>1, <2>1 DEF Fits, Rule
  <2> QED BY <2>2, <2>3, <2>4, <2>5, <2>6, PlanOf5 DEF DesignPlan
<1>10. IsPlan(TestCasePlan)
  <2>1. /\ TestCasePlan[1].ifLost = "error" /\ TestCasePlan[1].ifNone = "error" /\ TestCasePlan[1].after = {}
        /\ TestCasePlan[2].ifLost = "go on" /\ TestCasePlan[2].ifNone = "go on" /\ TestCasePlan[2].after = {}
        /\ TestCasePlan[3].ifLost = "error" /\ TestCasePlan[3].ifNone = "go on" /\ TestCasePlan[3].after = {}
    BY DEF TestCasePlan, Consult
  <2>2. Fits(TestCasePlan[1], 1)
    BY <1>1, <2>1 DEF Fits, Rule
  <2>3. Fits(TestCasePlan[2], 2)
    BY <1>1, <2>1 DEF Fits, Rule
  <2>4. Fits(TestCasePlan[3], 3)
    BY <1>1, <2>1 DEF Fits, Rule
  <2> QED BY <2>2, <2>3, <2>4, PlanOf3 DEF TestCasePlan
<1>11. IsPlan(<<>>)
  BY DEF IsPlan
<1> QED BY <1>2, <1>3, <1>4, <1>5, <1>6, <1>7, <1>8, <1>9, <1>10, <1>11 DEF Plan, Tool

\* What is offered: tools that exist, and those made by hand with all they need.
LEMMA OfferIs ==
  ASSUME NEW b \in SUBSET Backend
  PROVE  /\ DOMAIN Offer(b) \subseteq Tool
         /\ \A t \in DOMAIN Offer(b) : Offer(b)[t] \subseteq Backend
         /\ \A t \in DOMAIN Offer(b) \cap DOMAIN ByHand : ByHand[t] \subseteq Offer(b)[t]
<1> DEFINE g == GivenByHand(b)
           d == Discovered(DOMAIN g)
<1>1. DOMAIN ByHand = {"rag_search", "graph_query", "sql_query", "knowledge_search"}
  BY DEF ByHand
<1>2. \A t \in DOMAIN ByHand : ByHand[t] \subseteq Backend
  BY DEF ByHand, Backend
<1>3. /\ DOMAIN g \subseteq DOMAIN ByHand
      /\ \A t \in DOMAIN g : ByHand[t] \subseteq g[t] /\ g[t] \subseteq Backend
  BY <1>2 DEF GivenByHand
<1>4. /\ DOMAIN d = Tool \ (DOMAIN g \cup Demanding \cup Skipped)
      /\ \A t \in DOMAIN d : d[t] = {}
  BY DEF Discovered
<1>5. DOMAIN d \subseteq Tool /\ DOMAIN d \cap DOMAIN ByHand = {}
  BY <1>1, <1>4 DEF Demanding, Skipped
<1>6. DOMAIN ByHand \subseteq Tool
  BY <1>1 DEF Tool
<1>7. /\ DOMAIN Offer(b) = DOMAIN g \cup DOMAIN d
      /\ \A t \in DOMAIN Offer(b) : Offer(b)[t] = IF t \in DOMAIN g THEN g[t] ELSE d[t]
  BY DEF Offer
<1> HIDE DEF g, d
<1> QED BY <1>3, <1>4, <1>5, <1>6, <1>7

Planned == Plan[invoked.tool]

\* What a step that is over brought: its rows, if there were any to ask for.
Told(j) ==
  j \notin failed /\ Planned[j].of \in holds /\ Planned[j].after \subseteq got => j \in got

ToolsInv ==
  /\ ToolsTypeOK
  /\ offered = Offer(up) \/ DOMAIN offered = {}
  /\ invoked.step <= Len(Planned) + 1
  /\ got \subseteq 1..(invoked.step - 1)
  /\ invoked.said = "answer" => invoked.step = Len(Planned) + 1
  /\ \A j \in 1..(invoked.step - 1) : Told(j)

LEMMA ToolsInitInv == ToolsInit => ToolsInv
<1> SUFFICES ASSUME ToolsInit PROVE ToolsInv
  OBVIOUS
<1>1. PICK a \in Asking : invoked = [tool |-> a.tool, maker |-> a.maker, step |-> 0, said |-> "pending"]
  BY DEF ToolsInit
<1>2. a \in [tool : Tool, maker : Maker]
  BY ToolsAssumption
<1>3. invoked.tool \in Tool /\ invoked.maker \in Maker /\ invoked.step = 0 /\ invoked.said = "pending"
  BY <1>1, <1>2
<1>4. ToolsTypeOK
  BY <1>1, <1>2, HoldingsAssumption DEF ToolsInit, ToolsTypeOK
<1>5. DOMAIN offered = {} /\ got = {}
  BY DEF ToolsInit
<1>6. IsPlan(Planned)
  BY <1>3, PlansAre DEF Planned
<1>7. Len(Planned) \in Nat
  BY <1>6 DEF IsPlan
<1> QED BY <1>3, <1>4, <1>5, <1>7 DEF ToolsInv

\* A call that is being answered, and its step.
LEMMA CallIs ==
  ASSUME ToolsInv
  PROVE  /\ invoked.tool \in Tool /\ invoked.maker \in Maker /\ invoked.step \in 0..7
         /\ IsPlan(Planned)
         /\ AtStep => invoked.step \in 1..Len(Planned) /\ Now = Planned[invoked.step]
<1>1. invoked.tool \in Tool /\ invoked.maker \in Maker /\ invoked.step \in 0..7
  BY DEF ToolsInv, ToolsTypeOK
<1>2. IsPlan(Planned)
  BY <1>1, PlansAre DEF Planned
<1>3. Len(Planned) \in Nat
  BY <1>2 DEF IsPlan
<1> QED BY <1>1, <1>2, <1>3 DEF AtStep, Running, Now, Planned

CallType ==
  [tool : Tool, maker : Maker, step : 0..7, said : {"pending", "answer", "nothing", "error"}]

\* A step is over: the next one follows, or the end.
LEMMA ProceedIs ==
  ASSUME invoked \in CallType, NEW rule \in Rule, Proceed(rule), invoked.step < 7
  PROVE  /\ invoked' \in CallType
         /\ invoked'.tool = invoked.tool
         /\ \/ rule = "go on" /\ invoked'.step = invoked.step + 1 /\ invoked'.said = invoked.said
            \/ invoked'.step = invoked.step /\ invoked'.said = rule /\ rule # "go on"
<1>1. CASE rule = "go on"
  <2>1. invoked' = [invoked EXCEPT !.step = @ + 1]
    BY <1>1 DEF Proceed
  <2>2. invoked.step + 1 \in 0..7
    BY DEF CallType
  <2> QED BY <1>1, <2>1, <2>2 DEF CallType
<1>2. CASE rule # "go on"
  <2>1. invoked' = [invoked EXCEPT !.said = rule]
    BY <1>2 DEF Proceed
  <2>2. rule \in {"pending", "answer", "nothing", "error"}
    BY <1>2 DEF Rule
  <2> QED BY <1>2, <2>1, <2>2 DEF CallType
<1> QED BY <1>1, <1>2

\* A step was skipped, lost or taken; if the call goes on, its rows are there
\* when they were to be had.
StepOver(rule) ==
  /\ AtStep /\ Proceed(rule) /\ UNCHANGED <<up, offered, holds>>
  /\ got' \in {got, got \cup {invoked.step}} /\ failed' \in {failed, failed \cup {invoked.step}}
  /\ got' # got => rule = "go on"
  /\ rule = "go on" =>
       (invoked.step \notin failed' /\ Now.of \in holds /\ Now.after \subseteq got => invoked.step \in got')

LEMMA StepKeepsTools ==
  ASSUME ToolsInv, NEW rule \in Rule, StepOver(rule)
  PROVE  ToolsInv'
<1>1. AtStep /\ Proceed(rule) /\ UNCHANGED <<up, offered, holds>>
  BY DEF StepOver
<1>2. /\ got' \in {got, got \cup {invoked.step}} /\ failed' \in {failed, failed \cup {invoked.step}}
      /\ got' # got => rule = "go on"
      /\ rule = "go on" =>
           (invoked.step \notin failed' /\ Now.of \in holds /\ Now.after \subseteq got => invoked.step \in got')
  BY DEF StepOver
<1>3. PICK n \in 0..7 : n = invoked.step
  BY <1>1, CallIs
<1>4. n \in 1..Len(Planned) /\ Now = Planned[n] /\ IsPlan(Planned)
  BY <1>3, <1>1, CallIs
<1>5. n \in 1..6 /\ Len(Planned) \in 0..6
  BY <1>4 DEF IsPlan
<1>6. invoked.said = "pending"
  BY <1>1 DEF AtStep, Running
<1>7. /\ invoked' \in CallType
      /\ invoked'.tool = invoked.tool
      /\ \/ rule = "go on" /\ invoked'.step = n + 1 /\ invoked'.said = invoked.said
         \/ invoked'.step = n /\ invoked'.said = rule /\ rule # "go on"
  <2>1. invoked \in CallType
    BY DEF ToolsInv, ToolsTypeOK, CallType
  <2>2. invoked.step < 7
    BY <1>3, <1>5
  <2> QED BY <1>3, <1>1, <2>1, <2>2, ProceedIs
<1>8. PICK m \in 0..7 : m = invoked'.step
  BY <1>7 DEF CallType
<1>9. \/ rule = "go on" /\ m = n + 1
      \/ rule # "go on" /\ m = n
  BY <1>7, <1>8
<1>10. m = n \/ m = n + 1
  BY <1>9
<1>11. rule # "go on" => m = n
  BY <1>9
<1>12. m \in Int /\ n \in Int
  OBVIOUS
<1>13. Planned' = Planned
  BY <1>3, <1>7 DEF Planned
<1>14. invoked'.said # "answer"
  BY <1>3, <1>6, <1>7 DEF Rule
<1>15. \A j \in 1..(n - 1) : Told(j)
  BY <1>3 DEF ToolsInv
<1>16. got \subseteq 1..(n - 1) /\ got \subseteq 1..6 /\ failed \subseteq 1..6
  BY <1>3 DEF ToolsInv, ToolsTypeOK
<1>17. 1..(n - 1) \subseteq 1..(m - 1) /\ (m = n + 1 => n \in 1..(m - 1))
  BY <1>5, <1>12, <1>10
<1>18. \/ got' = got
       \/ got' = got \cup {n} /\ rule = "go on"
  BY <1>3 DEF StepOver
<1>19. rule = "go on" => m = n + 1
  BY <1>9
<1>20. got' \subseteq 1..(m - 1)
  BY <1>16, <1>17, <1>18, <1>19
<1>21. got' \subseteq 1..6 /\ failed' \subseteq 1..6
  BY <1>3, <1>2, <1>5, <1>16
<1>22. m <= Len(Planned) + 1
  <2>1. PICK l \in 0..6 : l = Len(Planned)
    BY <1>5
  <2>2. n \in 1..l
    BY <1>4, <2>1
  <2>3. m <= l + 1
    BY <2>2, <1>12, <1>10
  <2> QED BY <2>1, <2>3
<1>23. ToolsTypeOK'
  BY <1>1, <1>7, <1>21 DEF ToolsInv, ToolsTypeOK, CallType
<1>24. \A j \in 1..(n - 1) : Planned[j].after \subseteq 1..(j - 1)
  BY <1>4, <1>5 DEF IsPlan, Fits
<1>25. Planned[n].after \subseteq 1..(n - 1)
  BY <1>4, <1>5 DEF IsPlan, Fits
<1>26. ASSUME NEW j \in 1..(m - 1) PROVE Told(j)'
  <2> SUFFICES ASSUME j \notin failed', Planned[j].of \in holds, Planned[j].after \subseteq got'
               PROVE  j \in got'
    BY <1>1, <1>13 DEF Told
  <2>1. CASE j \in 1..(n - 1)
    <3>1. n \notin Planned[j].after
      BY <1>3, <1>5, <1>24, <2>1
    <3>2. Planned[j].after \subseteq got
      BY <1>3, <1>2, <3>1
    <3>3. j \notin failed
      BY <1>2
    <3> QED BY <1>2, <1>15, <2>1, <3>2, <3>3 DEF Told
  <2>2. CASE j \notin 1..(n - 1)
    <3>1. j = n /\ m # n
      BY <1>5, <1>12, <1>10, <2>2
    <3>2. Planned[n].after \subseteq got
      <4>1. n \notin Planned[n].after
        BY <1>5, <1>25
      <4> QED BY <1>3, <1>2, <3>1, <4>1
    <3>3. rule = "go on"
      BY <1>11, <3>1
    <3> QED BY <1>3, <1>2, <1>4, <3>1, <3>2, <3>3
  <2> QED BY <2>1, <2>2
<1>27. offered' = Offer(up') \/ DOMAIN offered' = {}
  BY <1>1 DEF ToolsInv
<1> QED BY <1>13, <1>14, <1>8, <1>20, <1>22, <1>23, <1>26, <1>27 DEF ToolsInv

LEMMA ToolsStepKeepsInv == ToolsInv /\ [ToolsNext]_toolsVars => ToolsInv'
<1> SUFFICES ASSUME ToolsInv, [ToolsNext]_toolsVars PROVE ToolsInv'
  OBVIOUS
<1>0. /\ invoked.tool \in Tool /\ invoked.maker \in Maker /\ invoked.step \in 0..7
      /\ IsPlan(Planned)
      /\ AtStep => invoked.step \in 1..Len(Planned) /\ Now = Planned[invoked.step]
  BY CallIs
<1>1. ASSUME AtStep PROVE Now.ifLost \in Rule /\ Now.ifNone \in Rule
  <2>1. invoked.step \in 1..Len(Planned) /\ Now = Planned[invoked.step]
    BY <1>0, <1>1
  <2> QED BY <1>0, <2>1 DEF IsPlan, Fits
<1>2. "go on" \in Rule
  BY DEF Rule
<1>3. CASE Assemble
  <2>1. up \in SUBSET Backend
    BY DEF ToolsInv, ToolsTypeOK
  <2>2. /\ DOMAIN offered' \subseteq Tool
        /\ \A t \in DOMAIN offered' : offered'[t] \subseteq Backend
    BY <1>3, <2>1, OfferIs DEF Assemble
  <2>3. /\ invoked' \in [tool : Tool, maker : Maker, step : 0..7, said : {"pending", "answer", "nothing", "error"}]
        /\ invoked'.tool = invoked.tool /\ invoked'.step = 1 /\ invoked'.said = invoked.said
    BY <1>3 DEF Assemble, ToolsInv, ToolsTypeOK
  <2>4. Planned' = Planned /\ Len(Planned) \in Nat
    BY <1>0, <2>3 DEF Planned, IsPlan
  <2>5. got = {} /\ got' = got /\ invoked.step = 0
    BY <1>3 DEF Assemble, ToolsInv
  <2>6. invoked.said # "answer"
    BY <2>4, <2>5 DEF ToolsInv
  <2>7. ToolsTypeOK'
    BY <1>3, <2>2, <2>3 DEF Assemble, ToolsInv, ToolsTypeOK
  <2>8. offered' = Offer(up')
    BY <1>3 DEF Assemble
  <2> QED BY <2>3, <2>4, <2>5, <2>6, <2>7, <2>8 DEF ToolsInv
<1>4. CASE SkipStep
  BY <1>2, <1>4, StepKeepsTools DEF SkipStep, StepOver
<1>5. CASE LoseStep
  <2>1. Now.ifLost \in Rule
    BY <1>1, <1>5 DEF LoseStep
  <2> QED BY <1>5, <2>1, StepKeepsTools DEF LoseStep, StepOver
<1>6. CASE TakeStep
  <2>1. Now.ifNone \in Rule
    BY <1>1, <1>6 DEF TakeStep
  <2>2. CASE Now.of \in holds
    BY <1>2, <1>6, <2>2, StepKeepsTools DEF TakeStep, StepOver
  <2>3. CASE Now.of \notin holds
    BY <1>6, <2>1, <2>3, StepKeepsTools DEF TakeStep, StepOver
  <2> QED BY <2>2, <2>3
<1>7. CASE Reply
  <2>1. /\ invoked' \in [tool : Tool, maker : Maker, step : 0..7, said : {"pending", "answer", "nothing", "error"}]
        /\ invoked'.tool = invoked.tool /\ invoked'.step = invoked.step
    BY <1>7 DEF Reply, ToolsInv, ToolsTypeOK
  <2>2. Planned' = Planned /\ Len(Planned) \in Nat
    BY <1>0, <2>1 DEF Planned, IsPlan
  <2>3. invoked.step = Len(Planned) + 1
    BY <1>0, <1>7, <2>2 DEF Reply, Planned, ToolsInv
  <2>4. ToolsTypeOK'
    BY <1>7, <2>1 DEF Reply, ToolsInv, ToolsTypeOK
  <2>5. UNCHANGED <<up, offered, holds, got, failed>>
    BY <1>7 DEF Reply
  <2>6. \A j \in 1..(invoked'.step - 1) : Told(j)'
    BY <2>1, <2>2, <2>5 DEF Told, ToolsInv
  <2> QED BY <2>1, <2>2, <2>3, <2>4, <2>5, <2>6 DEF ToolsInv
<1>8. CASE UNCHANGED toolsVars
  BY <1>8 DEF ToolsInv, ToolsTypeOK, Told, Planned, toolsVars
<1> QED BY <1>3, <1>4, <1>5, <1>6, <1>7, <1>8 DEF ToolsNext

LEMMA ToolsInvSuffices == ToolsInv => ToolsTellWhatTheyFind
<1> SUFFICES ASSUME ToolsInv PROVE ToolsTellWhatTheyFind
  OBVIOUS
<1>1. up \in SUBSET Backend
  BY DEF ToolsInv, ToolsTypeOK
<1>2. OfferedToolsHaveBackends
  BY <1>1, OfferIs DEF ToolsInv, OfferedToolsHaveBackends
<1>3. FailuresStayLocal
  <2> SUFFICES ASSUME invoked.said = "answer", NEW j \in DOMAIN Planned \ failed,
                      Planned[j].of \in holds, Planned[j].after \subseteq got
               PROVE  j \in got
    BY DEF FailuresStayLocal, Planned
  <2>1. IsPlan(Planned) /\ invoked.step = Len(Planned) + 1
    BY CallIs DEF ToolsInv
  <2>2. j \in 1..(invoked.step - 1)
    BY <2>1 DEF IsPlan
  <2> QED BY <2>2 DEF ToolsInv, Told
<1> QED BY <1>2, <1>3 DEF ToolsInv, ToolsTellWhatTheyFind

-----------------------------------------------------------------------------
(* The bill review (BomReview): what is known of each item, before, at and  *)
(* after the one that is looked at.                                         *)

Reviewing == {"exact", "prefix", "conflicts", "alternative"}

\* Nothing is known yet of the chip of item j.
Untouched(j) == items[j].chip = "none" /\ items[j].match = "unmatched"

\* Nothing was overlooked of item j.
Unknown(j) == \A q \in DOMAIN catalog : q # items[j].part /\ <<items[j].part, q>> \notin Begins
Warned(j) ==
  items[j].chip # "none" /\ items[j].flag # "none" /\ items[j].chip \in Replaceable =>
    items[j].alternative

Looked(j) ==
  j \notin failing =>
    /\ renewed = 0 /\ items[j].match = "unmatched" /\ items[j].part # "blank" => Unknown(j)
    /\ Warned(j)

ItemsAre ==
  \A j \in 1..Len(items) :
    /\ items[j].flag = FlagOf(items[j].status)
    /\ j < line => Looked(j)
    /\ j > line => Untouched(j)
    /\ j = line /\ step \in {"exact", "prefix"} => Untouched(j)
    /\ j = line /\ step = "prefix" /\ renewed = 0 => items[j].part \notin DOMAIN catalog
    /\ j = line /\ step \in {"conflicts", "alternative"} => items[j].match # "unmatched"

BomInv ==
  /\ BomTypeOK /\ ItemsAre
  /\ step \in Reviewing => line \in 1..Len(items)
  /\ step = "done" => line = Len(items) + 1
  /\ step = "read" => items = <<>>

LEMMA FlagIs == \A s : FlagOf(s) \in {"none", "eol", "nrnd"} /\ (s \in {"eol", "nrnd"} => FlagOf(s) # "none")
  BY DEF FlagOf

LEMMA NothingIsNotFlagged == FlagOf("none") = "none"
  BY DEF FlagOf

LEMMA BomInitInv == BomInit => BomInv
<1> SUFFICES ASSUME BomInit PROVE BomInv
  OBVIOUS
<1>1. <<>> \in Seq(Item) /\ Len(<<>>) = 0 /\ DOMAIN <<>> = {}
  OBVIOUS
<1>2. BomTypeOK
  BY <1>1, BomAssumption DEF BomInit, BomTypeOK
<1>3. ItemsAre
  BY <1>1 DEF BomInit, ItemsAre
<1> QED BY <1>2, <1>3 DEF BomInit, BomInv, Reviewing

LEMMA BlankIsText == "blank" \in CellText /\ "none" \in ChipName /\ "none" \in ChipStatus
  BY DEF CellText, ChipName, ChipStatus

\* A cell is text, and so is what stands for one that is not there.
LEMMA CellIs ==
  ASSUME bom \in Bom, NEW r \in DOMAIN bom.rows, NEW h
  PROVE  Cell(bom.rows[r], h) \in CellText
<1>1. bom.rows \in Seq(Seq(CellText))
  BY BomAssumption
<1>2. bom.rows[r] \in Seq(CellText)
  BY <1>1
<1>3. CASE Column(h) \in 1..Len(bom.rows[r])
  <2>1. bom.rows[r][Column(h)] \in CellText
    BY <1>2, <1>3
  <2> QED BY <1>3, <2>1 DEF Cell
<1>4. CASE Column(h) \notin 1..Len(bom.rows[r])
  BY <1>4, BlankIsText DEF Cell
<1> QED BY <1>3, <1>4

\* An item that was read.
LEMMA BOMItemIs ==
  ASSUME NEW n \in Nat, NEW p \in CellText, NEW d \in CellText, NEW q \in CellText
  PROVE  /\ BOMItem(n, p, d, q) \in Item
         /\ BOMItem(n, p, d, q).flag = "none" /\ BOMItem(n, p, d, q).status = "none"
         /\ BOMItem(n, p, d, q).chip = "none" /\ BOMItem(n, p, d, q).match = "unmatched"
  BY BlankIsText DEF BOMItem, Item

\* What was read: items of which nothing is known.
Fresh == {j \in Item : j.flag = "none" /\ j.status = "none" /\ j.chip = "none" /\ j.match = "unmatched"}

LEMMA SheetItemsAre ==
  ASSUME bom \in Bom, bom.kind = "file"
  PROVE  SheetItems \in Seq(Fresh)
<1> DEFINE all == [r \in DOMAIN bom.rows |-> r]
           T == {r \in DOMAIN bom.rows : Names(r) /\ Reached(r)}
           rows == Those(all, T)
<1>1. bom.rows \in Seq(Seq(CellText))
  BY BomAssumption
<1>2. all \in Seq(DOMAIN bom.rows) /\ DOMAIN bom.rows \subseteq Nat
  BY <1>1
<1> HIDE DEF all, T
<1>3. rows \in Seq(DOMAIN bom.rows)
  BY <1>2, ThoseHold
<1> HIDE DEF rows
<1>4. DOMAIN rows = 1..Len(rows) /\ Len(rows) \in Nat /\ \A k \in 1..Len(rows) : rows[k] \in DOMAIN bom.rows
  BY <1>3
<1> DEFINE Of(h, k) == Cell(bom.rows[rows[k]], h)
<1>5. ASSUME NEW k \in 1..Len(rows)
      PROVE  BOMItem(rows[k] + 1, Of("part_number", k), Of("description", k), Of("quantity", k)) \in Fresh
  <2>1. rows[k] \in DOMAIN bom.rows /\ rows[k] + 1 \in Nat
    BY <1>2, <1>4
  <2>2. Of("part_number", k) \in CellText /\ Of("description", k) \in CellText /\ Of("quantity", k) \in CellText
    BY <2>1, CellIs
  <2> HIDE DEF Of
  <2> QED BY <2>1, <2>2, BOMItemIs DEF Fresh
<1>6. SheetItems = [k \in 1..Len(rows) |->
         BOMItem(rows[k] + 1, Of("part_number", k), Of("description", k), Of("quantity", k))]
  BY <1>4 DEF SheetItems, rows, all, T
<1> HIDE DEF Of
<1> QED BY <1>4, <1>5, <1>6

LEMMA InlineItemsAre ==
  ASSUME bom \in Bom, bom.kind # "file"
  PROVE  InlineItems \in Seq(Fresh)
<1>1. bom.rows \in Seq(Seq(CellText)) /\ \A r \in DOMAIN bom.rows : Len(bom.rows[r]) = 3
  BY BomAssumption
<1>2. DOMAIN bom.rows = 1..Len(bom.rows) /\ Len(bom.rows) \in Nat
  BY <1>1
<1>3. ASSUME NEW r \in 1..Len(bom.rows)
      PROVE  BOMItem(r, bom.rows[r][1], bom.rows[r][2], bom.rows[r][3]) \in Fresh
  <2>1. bom.rows[r] \in Seq(CellText)
    BY <1>1, <1>2
  <2>4. Len(bom.rows[r]) = 3
    BY <1>1, <1>2
  <2>2. bom.rows[r][1] \in CellText /\ bom.rows[r][2] \in CellText /\ bom.rows[r][3] \in CellText
    BY <2>1, <2>4
  <2>3. r \in Nat
    BY <1>2
  <2> QED BY <2>2, <2>3, BOMItemIs DEF Fresh
<1> QED BY <1>2, <1>3 DEF InlineItems

LEMMA ReadKeepsInv == ASSUME BomInv, Read PROVE BomInv'
<1>1. bom \in Bom /\ items' \in Seq(Fresh)
  BY SheetItemsAre, InlineItemsAre DEF Read, BomInv, BomTypeOK
<1>2. items' \in Seq(Item) /\ Len(items') \in Nat
  BY <1>1 DEF Fresh
<1>3. DOMAIN items' = 1..Len(items') /\ \A j \in 1..Len(items') : items'[j] \in Fresh
  BY <1>1
<1>4. items' # <<>> => Len(items') > 0
  BY <1>2
<1>5. /\ step' \in {"error", "exact"} /\ line' \in {0, 1}
      /\ step' = "exact" => line' = 1 /\ items' # <<>>
      /\ line' = 1 => items' # <<>>
  BY DEF Read
<1>6. failing' = {} /\ UNCHANGED <<bom, catalog, renewed>>
  BY DEF Read, BomInv, BomTypeOK
<1>7. BomTypeOK'
  BY <1>2, <1>4, <1>5, <1>6 DEF BomInv, BomTypeOK
<1>8. ItemsAre'
  BY <1>2, <1>3, <1>5, NothingIsNotFlagged DEF ItemsAre, Fresh, Untouched
<1> QED BY <1>2, <1>4, <1>5, <1>7, <1>8 DEF BomInv, Reviewing

\* Item k is being looked at, and nothing else is touched.
LooksAt(k) ==
  /\ k \in 1..Len(items) /\ line = k /\ step \in Reviewing
  /\ items' \in Seq(Item) /\ Len(items') = Len(items)
  /\ \A j \in 1..Len(items) : j # k => items'[j] = items[j]
  /\ items'[k].flag = FlagOf(items'[k].status)
  /\ failing' \in {failing, failing \cup {k}}
  /\ UNCHANGED <<bom, catalog, renewed>>

LEMMA LookingKeepsTypes ==
  ASSUME BomInv, NEW k, LooksAt(k), line' \in {k, k + 1},
         step' \in {"exact", "prefix", "conflicts", "alternative", "done"}
  PROVE  BomTypeOK'
<1>1. items \in Seq(Item) /\ Len(items) \in Nat /\ DOMAIN items = 1..Len(items)
  BY DEF BomInv, BomTypeOK
<1>2. DOMAIN items' = 1..Len(items) /\ Len(items') = Len(items) /\ items' \in Seq(Item) /\ k \in 1..Len(items)
  BY DEF LooksAt
<1>3. line' \in 0..(Len(items') + 1)
  BY <1>1, <1>2
<1>4. failing' \subseteq DOMAIN items'
  BY <1>1, <1>2 DEF LooksAt, BomInv, BomTypeOK
<1> QED BY <1>2, <1>3, <1>4 DEF LooksAt, BomInv, BomTypeOK

\* The item is done with.
LEMMA NextItemKeepsInv ==
  ASSUME BomInv, NEW k, LooksAt(k), NextItem,
         k \notin failing' =>
           /\ renewed = 0 /\ items'[k].match = "unmatched" /\ items'[k].part # "blank" =>
                \A q \in DOMAIN catalog : q # items'[k].part /\ <<items'[k].part, q>> \notin Begins
           /\ items'[k].chip # "none" /\ items'[k].flag # "none" /\ items'[k].chip \in Replaceable =>
                items'[k].alternative
  PROVE  BomInv'
<1>1. k \in 1..Len(items) /\ Len(items) \in Nat /\ line = k
  BY DEF LooksAt, BomInv, BomTypeOK
<1>2. line' = k + 1 /\ step' = IF k = Len(items) THEN "done" ELSE "exact"
  BY <1>1 DEF NextItem
<1>3. BomTypeOK'
  BY <1>2, LookingKeepsTypes
<1>4. Looked(k)'
  BY DEF Looked, Unknown, Warned, LooksAt
<1>5. ASSUME NEW j \in 1..Len(items), j # k
      PROVE  (Looked(j) => Looked(j)') /\ (Untouched(j) => Untouched(j)') /\ items'[j] = items[j]
  BY <1>5 DEF Looked, Unknown, Warned, Untouched, LooksAt
<1>6. Len(items') = Len(items) /\ items'[k].flag = FlagOf(items'[k].status)
  BY DEF LooksAt
<1>7. ASSUME NEW j \in 1..Len(items)
      PROVE  /\ items'[j].flag = FlagOf(items'[j].status)
             /\ j < k + 1 => Looked(j)'
             /\ j >= k + 1 => Untouched(j)'
  <2>1. /\ items[j].flag = FlagOf(items[j].status)
        /\ j < k => Looked(j)
        /\ j > k => Untouched(j)
    BY <1>1 DEF BomInv, ItemsAre
  <2>2. CASE j = k
    BY <1>1, <1>4, <1>6, <2>2
  <2>3. CASE j < k
    BY <1>1, <1>5, <2>1, <2>3
  <2>4. CASE j > k
    BY <1>1, <1>5, <2>1, <2>4
  <2> QED BY <1>1, <2>2, <2>3, <2>4
<1>8. ItemsAre'
  BY <1>1, <1>2, <1>6, <1>7 DEF ItemsAre
<1> QED BY <1>1, <1>2, <1>3, <1>6, <1>8 DEF BomInv, Reviewing

\* It is looked at further.
LEMMA OnToKeepsInv ==
  ASSUME BomInv, NEW k, LooksAt(k), NEW next \in {"prefix", "conflicts", "alternative"}, OnTo(next),
         next = "prefix" =>
           /\ items'[k].chip = "none" /\ items'[k].match = "unmatched"
           /\ renewed = 0 => items'[k].part \notin DOMAIN catalog,
         next # "prefix" => items'[k].match # "unmatched"
  PROVE  BomInv'
<1>1. k \in 1..Len(items) /\ Len(items) \in Nat /\ line = k
  BY DEF LooksAt, BomInv, BomTypeOK
<1>2. line' = k /\ step' = next
  BY <1>1 DEF OnTo
<1>3. BomTypeOK'
  BY <1>2, LookingKeepsTypes
<1>5. ASSUME NEW j \in 1..Len(items), j # k
      PROVE  (Looked(j) => Looked(j)') /\ (Untouched(j) => Untouched(j)') /\ items'[j] = items[j]
  BY <1>5 DEF Looked, Unknown, Warned, Untouched, LooksAt
<1>6. /\ Len(items') = Len(items) /\ items'[k].flag = FlagOf(items'[k].status)
      /\ UNCHANGED <<catalog, renewed>>
  BY DEF LooksAt
<1>7. ASSUME NEW j \in 1..Len(items)
      PROVE  /\ items'[j].flag = FlagOf(items'[j].status)
             /\ j < k => Looked(j)'
             /\ j > k => Untouched(j)'
  <2>1. /\ items[j].flag = FlagOf(items[j].status)
        /\ j < k => Looked(j)
        /\ j > k => Untouched(j)
    BY <1>1 DEF BomInv, ItemsAre
  <2>2. CASE j = k
    BY <1>1, <1>6, <2>2
  <2>3. CASE j # k
    BY <1>5, <2>1, <2>3
  <2> QED BY <2>2, <2>3
<1>8. next = "prefix" => Untouched(k)'
  BY DEF Untouched
<1>9. ItemsAre'
  BY <1>1, <1>2, <1>6, <1>7, <1>8 DEF ItemsAre
<1> QED BY <1>1, <1>2, <1>3, <1>6, <1>9 DEF BomInv, Reviewing

\* The item that is looked at.
LEMMA ItemIs ==
  ASSUME BomInv, step \in Reviewing
  PROVE  /\ line \in 1..Len(items) /\ items[line] = item /\ item \in Item
         /\ items \in Seq(Item) /\ catalog \in Catalogs /\ failing \subseteq DOMAIN items
         /\ item.flag = FlagOf(item.status)
         /\ step \in {"exact", "prefix"} => item.chip = "none" /\ item.match = "unmatched"
         /\ step = "prefix" /\ renewed = 0 => item.part \notin DOMAIN catalog
         /\ step \in {"conflicts", "alternative"} => item.match # "unmatched"
<1>1. line \in 1..Len(items) /\ items \in Seq(Item) /\ catalog \in Catalogs /\ failing \subseteq DOMAIN items
  BY DEF BomInv, BomTypeOK
<1> QED BY <1>1 DEF BomInv, ItemsAre, Untouched, item

\* It is changed to x, or is x already.
Becomes(x) ==
  /\ \/ items' = [items EXCEPT ![line] = x]
     \/ items' = items /\ x = item
  /\ failing' \in {failing, failing \cup {line}}
  /\ UNCHANGED <<bom, catalog, renewed>>

LEMMA LooksWhen ==
  ASSUME BomInv, step \in Reviewing, NEW x \in Item, x.flag = FlagOf(x.status),
         Becomes(x), NEW k, k = line
  PROVE  LooksAt(k) /\ items'[k] = x
<1>1. k \in 1..Len(items) /\ items \in Seq(Item) /\ items[k] = item
  BY ItemIs
<1>2. CASE items' = [items EXCEPT ![k] = x]
  BY <1>1, <1>2 DEF LooksAt, Becomes
<1>3. CASE items' = items /\ x = item
  BY <1>1, <1>3 DEF LooksAt, Becomes
<1> QED BY <1>2, <1>3 DEF Becomes

\* A chip that was found.
LEMMA IdentifiedIs ==
  ASSUME catalog \in Catalogs, NEW j \in Item, NEW p \in DOMAIN catalog, NEW how \in {"matched", "ambiguous"}
  PROVE  /\ Identified(j, p, how) \in Item
         /\ Identified(j, p, how).match = how
         /\ Identified(j, p, how).flag = FlagOf(Identified(j, p, how).status)
<1>1. p \in ChipName /\ catalog[p].status \in ChipStatus
  BY DEF ChipName, ChipStatus
<1>2. FlagOf(catalog[p].status) \in {"none", "eol", "nrnd"}
  BY FlagIs
<1> QED BY <1>1, <1>2 DEF Identified, Item

LEMMA MatchingKeepsInv ==
  ASSUME BomInv, MatchExact \/ MatchPrefix \/ MatchFails
  PROVE  BomInv'
<1>1. step \in Reviewing /\ UNCHANGED <<bom, catalog, renewed>>
  BY DEF MatchExact, MatchPrefix, MatchFails, Reviewing
<1>2. PICK k \in 1..Len(items) : k = line
  BY <1>1, ItemIs
<1>3. /\ items[k] = item /\ item \in Item /\ items \in Seq(Item) /\ catalog \in Catalogs
      /\ item.flag = FlagOf(item.status)
  BY <1>1, <1>2, ItemIs
<1>4. /\ step \in {"exact", "prefix"} => item.chip = "none" /\ item.match = "unmatched"
      /\ step = "prefix" /\ renewed = 0 => item.part \notin DOMAIN catalog
  BY <1>1, ItemIs
<1>5. CASE items' = items
  <2>1. failing' \in {failing, failing \cup {line}}
    BY DEF MatchExact, MatchPrefix, MatchFails
  <2>2. LooksAt(k) /\ items'[k] = item
    BY <1>1, <1>2, <1>3, <1>5, <2>1, LooksWhen DEF Becomes
  <2>3. CASE MatchExact
    <3>1. step = "exact" /\ failing' = failing
      BY <2>3 DEF MatchExact
    <3>2. CASE item.part = "blank"
      <4>1. NextItem
        BY <2>3, <3>2 DEF MatchExact
      <4> QED BY <1>4, <2>2, <3>1, <3>2, <4>1, NextItemKeepsInv
    <3>3. CASE item.part # "blank" /\ item.part \in DOMAIN catalog
      <4>1. items' = [items EXCEPT ![line] = Identified(@, item.part, "matched")] /\ OnTo("conflicts")
        BY <2>3, <3>3 DEF MatchExact
      <4>2. items'[k] = Identified(item, item.part, "matched")
        BY <1>2, <1>3, <4>1
      <4>3. items'[k].match = "matched"
        BY <1>3, <3>3, <4>2, IdentifiedIs
      <4> QED BY <1>4, <2>2, <3>1, <4>3
    <3>4. CASE item.part # "blank" /\ item.part \notin DOMAIN catalog
      <4>1. OnTo("prefix")
        BY <2>3, <3>4 DEF MatchExact
      <4> QED BY <1>4, <2>2, <3>1, <3>4, <4>1, OnToKeepsInv
    <3> QED BY <3>2, <3>3, <3>4
  <2>4. CASE MatchPrefix
    <3>1. step = "prefix" /\ failing' = failing
      BY <2>4 DEF MatchPrefix
    <3>2. CASE Candidates = {}
      <4>1. NextItem
        BY <2>4, <3>2 DEF MatchPrefix
      <4>2. \A q \in DOMAIN catalog : <<item.part, q>> \notin Begins
        BY <3>2 DEF Candidates
      <4> QED BY <1>4, <2>2, <3>1, <4>1, <4>2, NextItemKeepsInv
    <3>3. CASE Candidates # {}
      <4>1. PICK q \in Candidates : items' = [items EXCEPT ![line] = Identified(@, q, "ambiguous")]
        BY <2>4, <3>3 DEF MatchPrefix
      <4>2. q \in DOMAIN catalog
        BY <4>1 DEF Candidates
      <4>3. items'[k] = Identified(item, q, "ambiguous")
        BY <1>2, <1>3, <4>1
      <4>4. items'[k].match = "ambiguous"
        BY <1>3, <4>2, <4>3, IdentifiedIs
      <4> QED BY <1>4, <2>2, <3>1, <4>4
    <3> QED BY <3>2, <3>3
  <2>5. CASE MatchFails
    <3>1. NextItem /\ k \in failing'
      BY <1>2, <2>5 DEF MatchFails
    <3> QED BY <2>2, <3>1, NextItemKeepsInv
  <2> QED BY <2>3, <2>4, <2>5
<1>6. CASE items' # items
  <2>1. PICK p \in DOMAIN catalog, how \in {"matched", "ambiguous"} :
          items' = [items EXCEPT ![line] = Identified(@, p, how)] /\ OnTo("conflicts")
    BY <1>6 DEF MatchExact, MatchPrefix, MatchFails, Candidates
  <2>2. failing' = failing
    BY <1>6 DEF MatchExact, MatchPrefix, MatchFails
  <2>3. PICK x \in Item : x = Identified(item, p, how) /\ x.match = how /\ x.flag = FlagOf(x.status)
    BY <1>3, IdentifiedIs
  <2>4. items' = [items EXCEPT ![line] = x]
    BY <1>2, <1>3, <2>1, <2>3
  <2>5. Becomes(x)
    BY <1>1, <2>2, <2>4 DEF Becomes
  <2>6. LooksAt(k) /\ items'[k] = x
    BY <1>1, <1>2, <2>3, <2>5, LooksWhen
  <2> QED BY <2>1, <2>3, <2>6, OnToKeepsInv
<1> QED BY <1>5, <1>6

LEMMA AfterConflictsKeepsInv ==
  ASSUME BomInv, NEW k, LooksAt(k), AfterConflicts, item = items[k],
         items'[k].match # "unmatched", items'[k].flag = item.flag
  PROVE  BomInv'
<1>1. CASE item.flag # "none"
  <2>1. OnTo("alternative")
    BY <1>1 DEF AfterConflicts
  <2> QED BY <2>1, OnToKeepsInv
<1>2. CASE item.flag = "none"
  <2>1. NextItem
    BY <1>2 DEF AfterConflicts
  <2> QED BY <1>2, <2>1, NextItemKeepsInv
<1> QED BY <1>1, <1>2

LEMMA CheckingKeepsInv ==
  ASSUME BomInv, CheckConflicts \/ ConflictsFail \/ FindAlternative \/ AlternativeFails
  PROVE  BomInv'
<1>1. step \in {"conflicts", "alternative"} /\ step \in Reviewing /\ UNCHANGED <<bom, catalog, renewed>>
  BY DEF CheckConflicts, ConflictsFail, FindAlternative, AlternativeFails, Reviewing
<1>2. PICK k \in 1..Len(items) : k = line
  BY <1>1, ItemIs
<1>3. /\ items[k] = item /\ item \in Item /\ items \in Seq(Item)
      /\ item.flag = FlagOf(item.status) /\ item.match # "unmatched"
  BY <1>1, <1>2, ItemIs
<1>4. CASE CheckConflicts
  <2>1. PICK b \in BOOLEAN : b = (item.description # "blank" /\ Exceeds)
    OBVIOUS
  <2>2. items' = [items EXCEPT ![line].conflict = b] /\ failing' = failing /\ AfterConflicts
    BY <1>4, <2>1 DEF CheckConflicts
  <2>3. [item EXCEPT !.conflict = b] \in Item
    BY <1>3 DEF Item
  <2>4. PICK x \in Item :
          x = [item EXCEPT !.conflict = b] /\ x.flag = item.flag /\ x.status = item.status /\ x.match = item.match
    BY <1>3, <2>3 DEF Item
  <2>5. items' = [items EXCEPT ![line] = x]
    BY <1>2, <1>3, <2>2, <2>4
  <2>6. Becomes(x)
    BY <1>1, <2>2, <2>5 DEF Becomes
  <2>7. LooksAt(k) /\ items'[k] = x
    BY <1>1, <1>2, <1>3, <2>4, <2>6, LooksWhen
  <2> QED BY <1>3, <2>2, <2>4, <2>7, AfterConflictsKeepsInv
<1>5. CASE ConflictsFail
  <2>1. items' = items /\ failing' = failing \cup {line} /\ AfterConflicts
    BY <1>5 DEF ConflictsFail
  <2>2. LooksAt(k) /\ items'[k] = item
    BY <1>1, <1>2, <1>3, <2>1, LooksWhen DEF Becomes
  <2> QED BY <1>3, <2>1, <2>2, AfterConflictsKeepsInv
<1>6. CASE FindAlternative
  <2>1. PICK b \in BOOLEAN : b <=> item.chip \in Replaceable
    <3>1. CASE item.chip \in Replaceable
      BY <3>1, Zenon
    <3>2. CASE item.chip \notin Replaceable
      BY <3>2, Zenon
    <3> QED BY <3>1, <3>2
  <2>2. items' = [items EXCEPT ![line].alternative = b] /\ failing' = failing /\ NextItem
    BY <1>6, <2>1 DEF FindAlternative
  <2>3. [item EXCEPT !.alternative = b] \in Item
    BY <1>3 DEF Item
  <2>4. PICK x \in Item :
        /\ x = [item EXCEPT !.alternative = b] /\ x.flag = item.flag /\ x.status = item.status /\ x.match = item.match
        /\ x.chip = item.chip /\ x.alternative = b
    BY <1>3, <2>3 DEF Item
  <2>5. items' = [items EXCEPT ![line] = x]
    BY <1>2, <1>3, <2>2, <2>4
  <2>6. Becomes(x)
    BY <1>1, <2>2, <2>5 DEF Becomes
  <2>7. LooksAt(k) /\ items'[k] = x
    BY <1>1, <1>2, <1>3, <2>4, <2>6, LooksWhen
  <2> QED BY <1>3, <2>1, <2>2, <2>4, <2>7, NextItemKeepsInv
<1>7. CASE AlternativeFails
  <2>1. items' = items /\ failing' = failing \cup {line} /\ NextItem
    BY <1>7 DEF AlternativeFails
  <2>2. LooksAt(k) /\ items'[k] = item
    BY <1>1, <1>2, <1>3, <2>1, LooksWhen DEF Becomes
  <2> QED BY <1>2, <2>1, <2>2, NextItemKeepsInv
<1> QED BY <1>4, <1>5, <1>6, <1>7

LEMMA CatalogChangesKeepsInv == ASSUME BomInv, CatalogChanges PROVE BomInv'
<1>1. renewed' # 0 /\ renewed' \in 0..MaxNewChips /\ catalog' \in Catalogs
  BY BomAssumption DEF CatalogChanges, BomInv, BomTypeOK
<1>2. UNCHANGED <<bom, items, line, step, failing>>
  BY DEF CatalogChanges
<1>3. BomTypeOK'
  BY <1>1, <1>2 DEF BomInv, BomTypeOK
<1>4. \A j \in 1..Len(items) : (Looked(j) => Looked(j)') /\ (Untouched(j) => Untouched(j)')
  BY <1>1, <1>2 DEF Looked, Unknown, Warned, Untouched
<1>5. ItemsAre'
  BY <1>1, <1>2, <1>4 DEF BomInv, ItemsAre
<1> QED BY <1>2, <1>3, <1>5 DEF BomInv

LEMMA BomStepKeepsInv == BomInv /\ [BomNext]_bomVars => BomInv'
<1> SUFFICES ASSUME BomInv, [BomNext]_bomVars PROVE BomInv'
  OBVIOUS
<1>1. CASE UNCHANGED bomVars
  BY <1>1 DEF BomInv, BomTypeOK, ItemsAre, Looked, Unknown, Warned, Untouched, bomVars
<1> QED BY <1>1, ReadKeepsInv, MatchingKeepsInv, CheckingKeepsInv, CatalogChangesKeepsInv DEF BomNext

LEMMA BomInvSuffices == BomInv => ReviewsOverlookNothing
<1> SUFFICES ASSUME BomInv PROVE ReviewsOverlookNothing
  OBVIOUS
<1>1. BomTypeOK /\ DOMAIN items = 1..Len(items) /\ Len(items) \in Nat
  BY DEF BomInv, BomTypeOK
<1>2. ASSUME step = "done", NEW j \in DOMAIN items
      PROVE  Looked(j) /\ items[j].flag = FlagOf(items[j].status)
  BY <1>1, <1>2 DEF BomInv, ItemsAre
<1>3. UnmatchedAreUnknown
  BY <1>2 DEF UnmatchedAreUnknown, Looked, Unknown
<1>4. WarningsAreGiven
  BY <1>2, FlagIs DEF WarningsAreGiven, Looked, Warned
<1> QED BY <1>1, <1>3, <1>4 DEF ReviewsOverlookNothing

-----------------------------------------------------------------------------
(* Both together *)

\* Whichever tool is called and whichever backends are missing or fail: tools
\* that need backends have them, and an answer lacks only what was lost, or
\* could only be asked for with it; and a review warns of what the chip table
\* knows, of every item no statement failed for (agent/tools).
THEOREM ToolsStayComplete == ToolboxSpec => []ToolsAreComplete
<1>1. ToolsSpec => []ToolsInv
  BY ToolsInitInv, ToolsStepKeepsInv, PTL DEF ToolsSpec
<1>2. BomSpec => []BomInv
  BY BomInitInv, BomStepKeepsInv, PTL DEF BomSpec
<1>3. ToolsInv /\ BomInv => ToolsAreComplete
  BY ToolsInvSuffices, BomInvSuffices DEF ToolsAreComplete
<1> QED BY <1>1, <1>2, <1>3, PTL DEF ToolboxSpec
=================================================================================
