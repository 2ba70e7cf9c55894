------------------------------ MODULE MCServing -------------------------------
(* The parts that serve a query, one run of TLC: a behaviour is one of the  *)
(* part it starts with, the other parts keep one initial state.             *)
EXTENDS QueryPipeline, OrchestratorSingleton, ModelServices

CONSTANTS r1, r2, p1, p2

VARIABLES
  part,
  slots, lost, ttl, localSlots, localLost, caller, raced, expired, unset

\* Two requests, each in a process of its own; MCComponents has the larger instance.
Slots == INSTANCE LlmSlots WITH
  Caller <- {r1, r2}, Process <- {p1, p2},
  Home <- [r \in {r1, r2} |-> IF r = r1 THEN p1 ELSE p2],
  MaxSlots <- 1, MaxTries <- 1, SlotTtl <- 2, SlotFaults <- {"redis", "crash"}, MaxLost <- 1

DownAtStart == 1  \* bound: backends that are down when the process starts

Parts == {"queries", "orchestrator", "slots", "services"}

\* Both requests ask the same, so one may meet the answer of the other.
SameQuestion == [r \in Ask |-> "q"]

\* A call of each kind; a batch that is empty, and one over the limit.
CallsOfAllKinds ==
  {[kind |-> k, size |-> 1] : k \in {"encode", "chat", "generate"}}
    \cup {[kind |-> "thin rerank", size |-> 0], [kind |-> "thin encode", size |-> 3]}

DefaultProviders ==
  [embedding |-> "bgem3", reranker |-> "bce", llm |-> "openai_compatible"]

-----------------------------------------------------------------------------
slotVars == <<slots, lost, ttl, localSlots, localLost, caller, raced, expired, unset>>

ServingInit ==
  /\ part \in Parts
  /\ PipelineInit
  /\ Slots!SlotInit
  /\ SingletonInit
  /\ IF part = "orchestrator" THEN Cardinality(Backend \ up) <= DownAtStart ELSE up = Backend
  /\ ServicesInit /\ (part # "services" => request.call.kind = "chat" /\ checker = "script")

ServingNext ==
  /\ UNCHANGED part
  /\ \/ /\ part = "queries" /\ PipelineNext
        /\ UNCHANGED <<singletonVars, slotVars, servicesVars>>
     \/ /\ part = "orchestrator" /\ SingletonNext
        /\ UNCHANGED <<pipelineVars, slotVars, servicesVars>>
     \/ /\ part = "slots" /\ Slots!SlotNext
        /\ UNCHANGED <<pipelineVars, singletonVars, servicesVars>>
     \/ /\ part = "services" /\ ServicesNext
        /\ UNCHANGED <<pipelineVars, singletonVars, slotVars>>

\* The fairness of each part, as its module states it.
ServingFairness ==
  /\ \A r \in Ask : WF_pipelineVars(part = "queries" /\ PipelineStep(r))
  /\ SF_singletonVars(part = "orchestrator" /\ Readiness)
  /\ SF_singletonVars(part = "orchestrator" /\ Probe)
  /\ WF_singletonVars(part = "orchestrator" /\ BackendRecovers)
  /\ \A c \in Client : SF_singletonVars(part = "orchestrator" /\ RequestStep(c))
  /\ WF_slotVars(part = "slots" /\ Slots!Tick)
  /\ \A r \in {r1, r2} : WF_slotVars(part = "slots" /\ Slots!SlotStep(r))
  /\ WF_servicesVars(part = "services" /\ Attempt)

servingVars == <<part, pipelineVars, singletonVars, slotVars, servicesVars>>

ServingSpec == ServingInit /\ [][ServingNext]_servingVars /\ ServingFairness

(* What each part comes to in the end, said of its own behaviours. *)

\* Whoever asks gets an answer: every request ends for its client (query.py),
\* no one waits for a slot for ever (rate_limiter.py), and every call to a model
\* service ends (lmstudio_client.py, bgem3_client.py).
RequestsEnd ==
  /\ part = "queries" => EveryQueryEnds
  /\ part = "slots" => Slots!AcquireAnswers
  /\ part = "services" => EveryCallEnds

\* What an outage or a crash took comes back: the orchestrator (query.py,
\* health.py), and the slots of dead processes when no one asks for any
\* (rate_limiter.py).
CapacityComesBack ==
  /\ part = "orchestrator" => ServiceRecovers
  /\ part = "slots" => Slots!QuietSlotsComeBack
=============================================================================
