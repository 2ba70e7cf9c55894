----------------------------- MODULE ModelServices -----------------------------
(***************************************************************************)
(* The model services and those who call them: the embedding and reranker  *)
(* services of src/services/, LM Studio (external), the clients of         *)
(* src/libs/{embedding,reranker,llm}/ with their retries, the thin clients *)
(* of src/api/dependencies.py, and the health checks of                    *)
(* src/api/routers/health.py and scripts/healthcheck.py.  Calls do not     *)
(* disturb each other, so one call and one health check are followed.      *)
(***************************************************************************)
EXTENDS Integers, Sequences

CONSTANTS
  Calls,         \* the calls considered: records of kind and size
  MaxBatch,      \* MAX_BATCH_SIZE of the embedding service
  Provider,      \* Provider[s]: the configured backend of service s
  ServiceFaults, \* subset of {"load", "crash", "slow"}
  MaxCrashes     \* bound: crashes of services

Kind == {"encode", "rerank", "chat", "generate", "thin encode", "thin rerank"}

Service == {"embedding", "reranker", "llm"}

\* readiness: GET /readiness; script: healthcheck.py.
Checker == {"readiness", "script"}

ASSUME ServicesAssumption ==
  /\ Calls \subseteq [kind : Kind, size : Nat]
  /\ MaxBatch \in Nat \ {0} /\ MaxCrashes \in Nat
  /\ ServiceFaults \subseteq {"load", "crash", "slow"}

VARIABLES
  service,  \* Service -> "starting", "ready", "unloaded", "down"
  request,  \* the call: what it asks, how far it is, and the attempts made
  checker,  \* who checks the health of the services
  replies,  \* what the services it asked answered, in the order asked
  crashes   \* crashes so far

servicesVars == <<service, request, checker, replies, crashes>>

\* What a service answers to GET /health: nothing when it is down or starting.
Reply == {"none", "loading", "ok"}

ServicesTypeOK ==
  /\ service \in [Service -> {"starting", "ready", "unloaded", "down"}]
  /\ request.call \in Calls
  /\ request.state \in {"new", "trying", "answered", "failed", "refused"}
  /\ request.tries \in 0..2 /\ request.rounds \in 0..1 /\ request.outages \in 0..4
  /\ checker \in Checker
  /\ replies \in UNION {[1..n -> Reply] : n \in 0..3}
  /\ crashes \in 0..MaxCrashes

ServicesInit ==
  /\ service = [s \in Service |-> "starting"]
  /\ \E c \in Calls :
       request = [call |-> c, state |-> "new", tries |-> 0, rounds |-> 0, outages |-> 0]
  /\ checker \in Checker /\ replies = <<>> /\ crashes = 0

-----------------------------------------------------------------------------
(* The services *)

\* The model is loaded before the first request is served; when that fails the
\* service runs all the same and says "loading".
Load(s) ==
  /\ service[s] = "starting"
  /\ \/ service' = [service EXCEPT ![s] = "ready"]
     \/ "load" \in ServiceFaults /\ service' = [service EXCEPT ![s] = "unloaded"]
  /\ UNCHANGED <<request, checker, replies, crashes>>

ServiceCrash(s) ==
  /\ "crash" \in ServiceFaults /\ crashes < MaxCrashes /\ service[s] # "down"
  /\ service' = [service EXCEPT ![s] = "down"] /\ crashes' = crashes + 1
  /\ UNCHANGED <<request, checker, replies>>

ServiceRestart(s) ==
  /\ service[s] = "down"
  /\ service' = [service EXCEPT ![s] = "starting"]
  /\ UNCHANGED <<request, checker, replies, crashes>>

\* The embedding service accepts between one text and a full batch; the
\* reranker any number of documents, and LM Studio any prompt.
Accepts(c) == c.kind \in {"encode", "thin encode"} => c.size \in 1..MaxBatch

-----------------------------------------------------------------------------
(* The clients *)

ServiceOf(c) == CASE c.kind \in {"encode", "thin encode"} -> "embedding"
                  [] c.kind \in {"rerank", "thin rerank"} -> "reranker"
                  [] OTHER -> "llm"

Registered == [embedding |-> {"bgem3"}, reranker |-> {"bce", "none"},
               llm |-> {"openai_compatible"}]

\* The factories only know registered providers, and "none" calls no service;
\* the thin clients of dependencies.py are made without a factory.
HasClient(c) ==
  \/ c.kind \in {"thin encode", "thin rerank"}
  \/ Provider[ServiceOf(c)] \in Registered[ServiceOf(c)] \ {"none"}

\* stop_after_attempt of the method; the thin clients do not retry.
AttemptsOf(c) == CASE c.kind \in {"encode", "rerank"} -> 3
                   [] c.kind \in {"chat", "generate"} -> 2
                   [] OTHER -> 1

\* generate() is retried itself and calls chat(), which is retried too.
RoundsOf(c) == IF c.kind = "generate" THEN 2 ELSE 1

Call ==
  /\ request.state = "new" /\ HasClient(request.call)
  /\ request' = [request EXCEPT !.state = "trying"]
  /\ UNCHANGED <<service, checker, replies, crashes>>

\* A connection error or a timeout: the next attempt, the next round, or the
\* error is raised.
AfterOutage(r) ==
  LET out == [r EXCEPT !.outages = @ + 1] IN
    IF r.tries + 1 < AttemptsOf(r.call) THEN [out EXCEPT !.tries = @ + 1]
      ELSE IF r.rounds + 1 < RoundsOf(r.call) THEN [out EXCEPT !.tries = 0, !.rounds = @ + 1]
      ELSE [out EXCEPT !.state = "failed"]

\* One POST.  A status of 4xx or 5xx raises at once: only connection errors and
\* timeouts are retried.
Attempt ==
  /\ request.state = "trying"
  /\ LET s == service[ServiceOf(request.call)] IN
       request' = CASE s \in {"down", "starting"} -> AfterOutage(request)
                    [] s = "unloaded" \/ (s = "ready" /\ ~Accepts(request.call)) ->
                         [request EXCEPT !.state = "refused"]
                    [] OTHER -> [request EXCEPT !.state = "answered"]
  /\ UNCHANGED <<service, checker, replies, crashes>>

\* A service that answers later than the client waits.
AttemptTimesOut ==
  /\ "slow" \in ServiceFaults /\ request.state = "trying"
  /\ service[ServiceOf(request.call)] = "ready"
  /\ request' = AfterOutage(request)
  /\ UNCHANGED <<service, checker, replies, crashes>>

-----------------------------------------------------------------------------
(* The health checks *)

\* The services are asked one after the other.
Order(k) == IF k = "readiness" THEN <<"embedding", "reranker", "llm">>
                               ELSE <<"llm", "embedding", "reranker">>

\* One GET of the next service.
Look ==
  /\ Len(replies) < 3
  /\ LET s == service[Order(checker)[Len(replies) + 1]] IN
       replies' = Append(replies, CASE s \in {"down", "starting"} -> "none"
                                    [] s = "unloaded" -> "loading"
                                    [] OTHER -> "ok")
  /\ UNCHANGED <<service, request, checker, crashes>>

\* Mutant: /readiness only looks at the status code.
CountsAsHealthyByStatus(k, reply) == reply \in {"loading", "ok"}

\* /readiness reads the "ready" flag and the list of loaded models; the script
\* is content with status 200.
CountsAsHealthy(k, reply) ==
  IF k = "readiness" THEN reply = "ok" ELSE reply \in {"loading", "ok"}

\* The check has asked every service, and all count as healthy.
SaysHealthy(k) ==
  /\ checker = k /\ Len(replies) = 3
  /\ \A i \in 1..3 : CountsAsHealthy(k, replies[i])

-----------------------------------------------------------------------------

ServicesNext ==
  \/ \E s \in Service : Load(s) \/ ServiceCrash(s) \/ ServiceRestart(s)
  \/ Call \/ Attempt \/ AttemptTimesOut
  \/ Look

\* tenacity sleeps for a bounded time between attempts.
ServicesFairness == WF_servicesVars(Attempt)

ServicesSpec == ServicesInit /\ [][ServicesNext]_servicesVars /\ ServicesFairness

\* A call is given up only when each of its attempts met an outage: three for
\* the clients of the services, two for a chat, four for generate, one for a
\* thin client.
FailuresAreExplained ==
  request.state = "failed" =>
    request.outages = CASE request.call.kind \in {"encode", "rerank"} -> 3
                        [] request.call.kind = "chat" -> 2
                        [] request.call.kind = "generate" -> 4
                        [] OTHER -> 1

\* When /readiness has found every service ready, one after the other, every
\* service can really be called, unless one crashed.
ReadyMeansReady ==
  SaysHealthy("readiness") /\ crashes = 0 => \A s \in Service : service[s] = "ready"

\* Every call ends, whatever the services do.
EveryCallEnds == (request.state = "trying") ~> (request.state # "trying")

\* "Exit codes: 0 = all healthy, 1 = at least one unhealthy."
\* (scripts/healthcheck.py:8): a service that reports it is still loading its
\* model is not healthy.
HealthyExitMeansReady == SaysHealthy("script") => \A i \in 1..3 : replies[i] = "ok"

\* "Uses Tenacity for automatic retry (2 attempts, 2-15 s backoff)."
\* (src/libs/llm/lmstudio_client.py:21).
TwoAttempts == ServiceOf(request.call) = "llm" => request.outages <= 2

\* What is said of the services is true: a call is given up after all of its
\* attempts and no earlier, and what is ready can be called.
ServicesAreAsTheySay == ServicesTypeOK /\ FailuresAreExplained /\ ReadyMeansReady
=============================================================================
