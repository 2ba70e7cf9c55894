------------------------- MODULE OrchestratorSingleton -------------------------
(***************************************************************************)
(* The lazily built objects of the API process: the agent orchestrator of  *)
(* src/api/routers/query.py, the graph store and the connection pool of    *)
(* src/api/dependencies.py, and the status that src/observability/         *)
(* lmstudio_probe.py keeps of the LLM from the first /readiness on.        *)
(*                                                                         *)
(* get_orchestrator is a plain function, so FastAPI runs it in a worker    *)
(* thread; the endpoint, which may build the orchestrator anew, runs on    *)
(* the event loop and holds it while it builds.  The threads share the     *)
(* module's globals and no lock.                                           *)
(***************************************************************************)
EXTENDS Integers, FiniteSets

CONSTANTS
  Client,      \* clients, each with one request at a time
  Streaming,   \* those that use /query/stream
  MaxOutages   \* bound: failures of backends and of builds

ASSUME SingletonAssumption == Streaming \subseteq Client /\ MaxOutages \in Nat

Backend == {"llm", "graph", "db"}
Tool == {"graph_query", "sql_query"}

Nobody == "nobody"

VARIABLES
  up,          \* the backends that work
  outages,     \* how often one, or a build, has failed
  theOrch,     \* _orchestrator: the empty set, or who built it with which tools
  initialized, \* _orchestrator_initialized
  theGraph,    \* _graph_store: whether there is one
  graphsMade,  \* how many Database objects have been opened
  thePool,     \* _db_pool: whether there is one
  poolsMade,   \* pools opened, up to two
  lmStatus,    \* app.state.lmstudio_status of the primary, "none" before the probe
  client,      \* the requests
  crowded      \* history: two requests have been on their way to the agent at once

singletonVars == <<up, outages, theOrch, initialized, theGraph, graphsMade,
                   thePool, poolsMade, lmStatus, client, crowded>>

Orch == [by : Client, tools : SUBSET Tool]

ClientPC == {"idle", "pool", "opening", "check", "claim", "graph", "openGraph", "assemble",
             "serve", "run"}

SingletonTypeOK ==
  /\ up \subseteq Backend /\ outages \in 0..MaxOutages
  /\ theOrch \subseteq Orch /\ Cardinality(theOrch) <= 1
  /\ {initialized, theGraph, thePool} \subseteq BOOLEAN
  /\ lmStatus \in {"none", "healthy", "unhealthy"}
  /\ graphsMade \in 0..2 /\ poolsMade \in 0..2
  /\ client \in [Client -> [pc : ClientPC, pool : BOOLEAN, onLoop : BOOLEAN, got : SUBSET Orch,
                            graph : BOOLEAN]]
  /\ crowded \in BOOLEAN

SingletonInit ==
  /\ up \in SUBSET Backend /\ outages = 0
  /\ theOrch = {} /\ initialized = FALSE
  /\ theGraph = FALSE /\ graphsMade = 0
  /\ thePool = FALSE /\ poolsMade = 0
  /\ lmStatus = "none"
  /\ client = [c \in Client |-> [pc |-> "idle", pool |-> FALSE, onLoop |-> FALSE, got |-> {}, graph |-> FALSE]]
  /\ crowded = FALSE

ClientAt(c, pc) == client[c].pc = pc

\* The loop runs one callback at a time.
LoopIsFree(c) == \A d \in Client : client[d].onLoop => d = c

OnTheirWay == {c \in Client : client[c].pc \notin {"idle", "run"}}

-----------------------------------------------------------------------------
(* The world, and the probe *)

BackendFails ==
  /\ outages < MaxOutages
  /\ \E b \in up : up' = up \ {b}
  /\ outages' = outages + 1
  /\ UNCHANGED <<theOrch, initialized, theGraph, graphsMade, thePool, poolsMade, lmStatus, client, crowded>>

BackendRecovers ==
  /\ \E b \in Backend \ up : up' = up \cup {b}
  /\ UNCHANGED <<outages, theOrch, initialized, theGraph, graphsMade, thePool, poolsMade, lmStatus, client, crowded>>

LoopIsIdle == \A c \in Client : ~client[c].onLoop

\* readiness_check starts the probe, with a status of "not yet run".
Readiness ==
  /\ lmStatus = "none" /\ LoopIsIdle
  /\ lmStatus' = "unhealthy"
  /\ UNCHANGED <<up, outages, theOrch, initialized, theGraph, graphsMade, thePool, poolsMade, client, crowded>>

\* _probe_loop: the status that queries read is as old as the last probe.
Probe ==
  /\ lmStatus # "none" /\ LoopIsIdle
  /\ lmStatus' = IF "llm" \in up THEN "healthy" ELSE "unhealthy"
  /\ UNCHANGED <<up, outages, theOrch, initialized, theGraph, graphsMade, thePool, poolsMade, client, crowded>>

-----------------------------------------------------------------------------
(* get_db_pool *)

Arrive(c) ==
  /\ ClientAt(c, "idle") /\ LoopIsFree(c)
  /\ client' = [client EXCEPT ![c] = [@ EXCEPT !.pc = IF thePool THEN "check" ELSE "opening",
                                               !.pool = thePool]]
  /\ crowded' = (crowded \/ OnTheirWay # {})
  /\ UNCHANGED <<up, outages, theOrch, initialized, theGraph, graphsMade, thePool, poolsMade, lmStatus>>

AtMost2(n) == IF n > 2 THEN 2 ELSE n

\* _create_db_pool comes back, with a pool or without.
OpenPool(c) ==
  /\ ClientAt(c, "opening") /\ LoopIsFree(c)
  /\ thePool' = ("db" \in up)
  /\ poolsMade' = IF "db" \in up THEN AtMost2(poolsMade + 1) ELSE poolsMade
  /\ client' = [client EXCEPT ![c].pc = "check", ![c].pool = thePool']
  /\ UNCHANGED <<up, outages, theOrch, initialized, theGraph, graphsMade, lmStatus, crowded>>

-----------------------------------------------------------------------------
(* _get_or_create_orchestrator *)

\* Mutant: the endpoint's view of the LLM is tested instead of the flag.
CheckStatus(c) ==
  /\ ClientAt(c, "check")
  /\ client' = IF initialized /\ lmStatus = "healthy"
                 THEN [client EXCEPT ![c].pc = "serve", ![c].got = theOrch]
                 ELSE [client EXCEPT ![c].pc = "claim"]
  /\ UNCHANGED <<up, outages, theOrch, initialized, theGraph, graphsMade, thePool, poolsMade, lmStatus, crowded>>

\* The flag is set: whatever is there is returned, be it still None.
CheckFlag(c) ==
  /\ ClientAt(c, "check")
  /\ client' = IF initialized THEN [client EXCEPT ![c].pc = "serve", ![c].got = theOrch]
                              ELSE [client EXCEPT ![c].pc = "claim"]
  /\ UNCHANGED <<up, outages, theOrch, initialized, theGraph, graphsMade, thePool, poolsMade, lmStatus, crowded>>

\* The flag is set before anything is built.
ClaimFlag(c) ==
  /\ ClientAt(c, "claim")
  /\ initialized' = TRUE
  /\ client' = [client EXCEPT ![c].pc = "graph"]
  /\ UNCHANGED <<up, outages, theOrch, theGraph, graphsMade, thePool, poolsMade, lmStatus, crowded>>

\* get_graph_store, to its test.
CheckGraph(c) ==
  /\ ClientAt(c, "graph")
  /\ client' = IF theGraph THEN [client EXCEPT ![c].pc = "assemble", ![c].graph = TRUE]
                           ELSE [client EXCEPT ![c].pc = "openGraph"]
  /\ UNCHANGED <<up, outages, theOrch, initialized, theGraph, graphsMade, thePool, poolsMade, lmStatus, crowded>>

\* GraphStoreFactory.create and the assignment.
OpenGraph(c) ==
  /\ ClientAt(c, "openGraph")
  /\ theGraph' = ("graph" \in up)
  /\ graphsMade' = IF "graph" \in up THEN AtMost2(graphsMade + 1) ELSE graphsMade
  /\ client' = [client EXCEPT ![c].pc = "assemble", ![c].graph = theGraph']
  /\ UNCHANGED <<up, outages, theOrch, initialized, thePool, poolsMade, lmStatus, crowded>>

\* The tools whose backends were there; they are not looked for again.
ToolsFor(c) == {t \in Tool : \/ t = "graph_query" /\ client[c].graph
                             \/ t = "sql_query" /\ client[c].pool}

\* The orchestrator, or None when anything it is made from raises.
Assemble(c) ==
  /\ ClientAt(c, "assemble")
  /\ \/ theOrch' = {[by |-> c, tools |-> ToolsFor(c)]} /\ UNCHANGED outages
     \/ theOrch' = {} /\ outages < MaxOutages /\ outages' = outages + 1
  /\ client' = [client EXCEPT ![c].pc = "serve", ![c].got = theOrch']
  /\ UNCHANGED <<up, initialized, theGraph, graphsMade, thePool, poolsMade, lmStatus, crowded>>

-----------------------------------------------------------------------------
(* query and stream_query *)

Refuse(c) == client' = [client EXCEPT ![c].pc = "idle", ![c].onLoop = FALSE, ![c].got = {}]

Run(c) == client' = [client EXCEPT ![c].pc = "run", ![c].onLoop = FALSE]

\* Mutant: nothing is built anew.
ServeWithoutHealing(c) ==
  /\ ClientAt(c, "serve") /\ LoopIsFree(c)
  /\ IF lmStatus # "unhealthy" /\ client[c].got # {} THEN Run(c) ELSE Refuse(c)
  /\ UNCHANGED <<up, outages, theOrch, initialized, theGraph, graphsMade, thePool, poolsMade, lmStatus, crowded>>

\* The endpoint: refuse, build anew (only /query, and once), or run the agent.
Serve(c) ==
  /\ ClientAt(c, "serve") /\ LoopIsFree(c)
  /\ \/ /\ client[c].got # {} /\ (lmStatus # "unhealthy" \/ client[c].onLoop)
        /\ Run(c) /\ UNCHANGED initialized
     \/ /\ client[c].got = {} /\ lmStatus = "healthy" /\ c \notin Streaming /\ ~client[c].onLoop
        /\ initialized' = FALSE
        /\ client' = [client EXCEPT ![c].pc = "check", ![c].onLoop = TRUE]
     \/ /\ \/ lmStatus = "unhealthy" /\ ~client[c].onLoop
           \/ client[c].got = {} /\ (lmStatus = "none" \/ c \in Streaming \/ client[c].onLoop)
        /\ Refuse(c) /\ UNCHANGED initialized
  /\ UNCHANGED <<up, outages, theOrch, theGraph, graphsMade, thePool, poolsMade, lmStatus, crowded>>

\* The agent run, see QueryPipeline, which keeps its orchestrator.
FinishRun(c) ==
  /\ ClientAt(c, "run")
  /\ client' = [client EXCEPT ![c].pc = "idle", ![c].got = {}]
  /\ UNCHANGED <<up, outages, theOrch, initialized, theGraph, graphsMade, thePool, poolsMade, lmStatus, crowded>>

RequestStep(c) ==
  \/ Arrive(c) \/ OpenPool(c) \/ CheckFlag(c) \/ ClaimFlag(c) \/ CheckGraph(c) \/ OpenGraph(c)
  \/ Assemble(c) \/ Serve(c) \/ FinishRun(c)

SingletonNext ==
  \/ BackendFails \/ BackendRecovers \/ Readiness \/ Probe
  \/ \E c \in Client : RequestStep(c)

\* Clients ask again and again, threads and loop run, the container runtime
\* polls /readiness, and the probe comes every 15 s.
SingletonFairness ==
  /\ SF_singletonVars(Readiness)
  /\ SF_singletonVars(Probe)
  /\ WF_singletonVars(BackendRecovers)
  /\ \A c \in Client : SF_singletonVars(RequestStep(c))

SingletonSpec == SingletonInit /\ [][SingletonNext]_singletonVars /\ SingletonFairness

-----------------------------------------------------------------------------
(* Properties *)

\* As long as requests do not overlap on their way to the agent, one that works
\* is neither lost nor replaced, whatever fails ...
OnlyOverlapReplacesTheOrchestrator ==
  [][theOrch # {} /\ theOrch' # theOrch => crowded]_singletonVars

\* ... and no second graph store or connection pool is opened, which nothing
\* would ever close.
OnlyOverlapOpensTwice == ~crowded => graphsMade <= 1 /\ poolsMade <= 1

\* Once the backends stay up and the clients keep asking, the service comes
\* back for good, whatever failed to be built before: by the reset in query(),
\* so there must be a client of /query and somebody who asks for /readiness.
ServiceRecovers == Streaming # Client => <>[](theOrch # {})

\* "A single process must hold exactly one writable Database instance"
\* (dependencies.py, line 331).
OneWritableDatabase == graphsMade <= 1

\* Without overlapping requests there is one orchestrator, one graph store and
\* one pool for the life of the process, through every outage.
OnlyOverlapRebuilds ==
  [](SingletonTypeOK /\ OnlyOverlapOpensTwice) /\ OnlyOverlapReplacesTheOrchestrator
=============================================================================
