# ChipWise Enterprise: TLA+ specifications

This directory holds TLA+ models of ChipWise Enterprise: the document pipeline,
the agent and its tools, the query pipeline with its memory and cache, sign-in,
evaluation, ingestion, and the algorithms whose boundaries matter. TLC checks
them on small instances; TLAPS proves safety results for every value of the
constants. Source paths below are relative to the repository; `README.md`
sections: 1 the system; 2 the modules; 3 the runs; 4 fairness; 5 the proofs;
6 where code and documentation disagree; 7 what is not modelled; 8 the plan.

## 1. The system

ChipWise is a FastAPI process (`src/api/main.py`) that answers questions about
chips from data sheets it ingests. It keeps its data in PostgreSQL, Milvus,
Kùzu, Redis and files, with no transaction across them; Celery workers, a
crawler and a directory watcher are a second way in. Within the API process the
`async` handlers run on one asyncio loop and interleave at `await`s only; plain
functions used as dependencies run on worker threads; across processes anything
goes.

| component | source | state | what is hard | module |
|---|---|---|---|---|
| document lifecycle | `src/api/routers/documents.py` | rows, files, chunks in Milvus, rules and errata | five handlers over four stores, each step able to fail, a crash between any two | `DocumentLifecycle` |
| agent orchestrator | `src/agent/orchestrator.py`, `safety/token_budget.py` | message list, budget, log, running tools | failures and timeouts inside a batch; two limits | `AgentLoop`, `AgentContract` |
| tool registry and tools | `src/agent/tool_registry.py`, `src/agent/tools/` | registry; none in the tools | two ways of registration; several backends per tool, each with its own `except` | `AgentTools`, `BomReview`, both in `AgentToolbox` |
| query router | `src/api/routers/query.py`, `src/api/dependencies.py` | the orchestrator singleton, the response stream | nine stages of which all but one swallow errors; clients that go | `QueryPipeline`, `OrchestratorSingleton` |
| grounding | `src/evaluation/grounding.py` | none | gates, tolerances, modes | `AnswerGrounding` |
| conversation memory | `src/core/conversation_manager.py`, `memory_retriever.py` | one JSON value per session in Redis | read-modify-write; a chain of lossy compactions | `ConversationMemory` |
| long-term memory | `src/core/memory_governance.py`, `procedural_memory.py`, `episodic_memory.py`, `memory_consolidator.py` | rows with a status, counts, episodes | reviews during queries | `LongTermMemory` |
| semantic cache | `src/cache/` | a Redis list per bucket | three commands per put; read-filter-rewrite | `SemanticCache` |
| rate limiter, LLM slots | `src/api/middleware/rate_limiter.py` | counters, a set with one expiry, local fallback | check-then-act; expiry of the whole set; lost replies | `LlmSlots`, `RateWindows`, both in `RateLimiter` |
| retrieval | `src/retrieval/`, `src/agent/tools/rag_search.py` | none | two searches over a store that changes; fallbacks | `Retrieval` |
| knowledge graph | `src/api/routers/documents.py`, `src/ingestion/graph_sync.py` | tables keyed by chip, the graph | snapshots copied while others write | `KnowledgeGraph` |
| ingestion chain, intake, delete | `src/ingestion/tasks.py`, `watchdog_monitor.py`, `crawler.py`, `document_manager.py` | progress keys, pending files, five stores | retries, redelivery, races on files, partial failure | `IngestionChain`, `DatasheetIntake`, `CoordinatedDelete` |
| chunking | `src/ingestion/chunking/` | none | boundaries of windows and overlaps | `Chunking` |
| evaluation | `src/evaluation/` | two JSONL files, a semaphore | files rewritten from a stale read; judges that say anything | `EvalStore`, `EvalSampling`, `EvalStatistics` |
| single sign-on | `src/api/routers/sso.py`, `src/auth/sso/`, `src/api/middleware/auth.py` | one-time states, users, keys | callbacks delivered twice, first logins racing | `SignIn` |
| model services | `src/services/`, `src/libs/` | services that load | nested retries; what "healthy" means | `ModelServices` |
| reports | `src/core/report_engine.py` | files | names by the second | `ReportFiles` |

How they meet: a query loads conversation memory, is told long-term memory,
looks in the cache, runs the agent in an LLM slot, checks grounding, appends
the exchange, records an episode and fills the cache. The agent's tools read
what the document pipeline wrote to Milvus, PostgreSQL and Kùzu. The pipeline
and the queries share nothing but those stores.

## 2. The modules

One module per component. Definitions bear the names of the code where TLA+
allows it; `PROJECT.json` maps each to its lines. Definitions marked "Mutant"
are plausible bugs next to the definition they would replace; they show that
each property can be violated, and nothing else uses them. List comprehensions,
slices, sums and sorts, which eight modules need, are in `Lists`, written so that
they can be proved about.

### DocumentLifecycle

`rows`, `files`, `vec` and `rules` are the four stores; `job[j]` is a request
handler, with its program counter and the locals it keeps across awaits. One
action stands for what a handler does between two awaits on a shared store.
Steps that touch no store the control flow depends on (embedding, LLM
extraction, statistics) are folded into their neighbour; that they may raise is
`StepFails`.

| code | actions |
|---|---|
| `upload_document` | `UploadWrite` (file on disk), `UploadSave` (upsert by `file_hash`; an error is swallowed) |
| `ingest_single`, `ingest_single_async`, `ingest_all` | `IngestSingle`, `IngestAsync`, `IngestAll`: the SELECT and its guards; `Advance` is the loop of ingest-all |
| `UPDATE ... 'processing'` | `Mark` |
| `_ingest_one` | `Read`, `Link`, `Wipe` and `Insert` (the two halves of `_milvus_upsert`), `Enrich` (rules and errata), `Finish` |
| the `except` clauses | `StepFails`, `MarkFailed` |
| `delete_document` | `DeleteStart`, `Unindex`, `Unlink`, `DropRow` |
| the process dies | `Crash`: all handlers are lost, the stores stay |

Abstractions: a content is its hash; a path is a manufacturer and a file name;
`PartNumber[name][content]` is the chip the code derives from the file name or
the first page; a `Batch` is all the chunks of one ingestion, tagged with the
handler because Milvus keeps duplicates a set would merge; `rules` counts to
two. `DocId` is drawn when the upload starts: the sequence only orders
`ingest_all`, and an id drawn and not used is what `ON CONFLICT` does too. The
value "pending", which the SELECT of ingest-all names and nothing writes, is
left out.

`Faults` names the failures an instance admits, each used by one action.

### AgentLoop, AgentContract

`AgentLoop` is one call of `run()`, with `AgentConfig.parallel_tool_calls` in
`parallel`, which no step changes: `CheckBudget` is the loop head,
`FinalAnswer`, `ToolCalls` and `ChatRaises` the three outcomes of the LLM call,
`ToolAnswers(k)` and `ToolFails(k)` those of one tool (`_run_single_tool`
turns exceptions, timeouts and unknown names into an error observation),
`Observe` and `ObserveRaises` the writing of the observations. "opaque" is a
result that `json.dumps` cannot write, as rows with timestamps are: line 170 is
outside every handler, so the run raises.

`AgentContract` is what a caller may rely on: bounded rounds, none started
beyond the budget, one truthful reason, and an end. `AgentLoop` implements it
under `outcome <- pc`, `rounds <- Answers`, `spent <- used`.

### ConversationMemory

One session's Redis value `store`, and the requests that load and save it. A
request loads when it starts (`LoadContext`) and again when it has an answer
(`AppendLoad`); a value in the old list format is compacted and written back
inside the load (`Migrate`); `AppendSave` extends what was
loaded, compacts (`Compress`, with `Compacted` for the slices) and overwrites.
`Abandon` covers every error and disconnect, `Expire` the TTL and
`clear_session`. A turn keeps its length and whether it is pinned; a summary is
a length, chosen nondeterministically within its limit, and the set of turns it
was made from. `kept` is a history variable: the turns no request was entitled
to forget. `Shown` is `MemoryRetriever.select_messages`, for any outcome of the
relevance scores. The entities dictionary and `append_turn`, which no router
calls, are left out.

### What a query meets

`QueryPipeline` is `_execute_query_with_memory` with both endpoints around it:
one action per stage (`LoadHistory` ... `Ground`, `Remember`, `Learn`,
`CacheAnswer`), each with the outcome its `except` gives it; a stream that ends
in `TellToken` steps and "done" or an error; a client that leaves, which cancels
the task at its next await. The agent is one step with the stop reasons that
`AgentContract` allows, the cache and the memory are the sets of what was put
there: how they work inside is the business of their own modules.

`OrchestratorSingleton` has the globals `_orchestrator` and its flag, the graph
store and the pool, the clients on threads (`get_orchestrator` is a plain
function) and on the loop (the healing rebuild in `query`), backends that go
down and come back, and the probe's status.

`LlmSlots` has a Redis set with one expiry, the local set of each process and
the callers' steps SCARD, SADD, EXPIRE, SREM, each of which may fail before or
after it took effect; killed processes leave ids in `lost`. `RateWindows` has
the counters and the local lists over a clock. `RateLimiter` is the two side by
side: minutes and hours in one, the set of slots in the other.

`ModelServices` follows one call with its nested retries and one health check
against services that load, crash, recover and are slow.

`AnswerGrounding` judges an answer (a list of figures) against citations (a score
and the figures they say) in the order of `check_grounding`. `Retrieval` is one
`rag_search` or `knowledge_search` over a store that changes between its two
searches. `AgentTools` builds the registry from the backends that are up, then
lets a tool go through its plan, one backend per step; `BomReview` takes the
items of a bill through match, end-of-life, conflicts and alternatives.
`AgentToolbox` is the two side by side: they share no state, and its property is
about every behaviour of both.

### What is remembered

`LongTermMemory` has governed records, procedures, episodes and their writers:
queries, reviewers, the consolidator. `SemanticCache` has one bucket, the
askers' GET, RPUSH, LTRIM, EXPIRE, and the invalidator's LRANGE and rewrite,
which puts back entries that were trimmed away since it read them (`putBack`).
`SignIn` has the states in Redis, callbacks delivered twice, what each provider
spends and tells, the rows of users, and the key files of a deployment.
`KnowledgeGraph` takes a document from the LLM's answers to rows, and from rows
through `sync_chip`, table by table, to nodes and edges.

### What runs behind the API

`IngestionChain` is the Celery chain, one action per task, with retries,
workers that die, late acknowledgement and the progress key polled by
WebSockets. `DatasheetIntake` is the crawler and the watchdog around one
directory. `CoordinatedDelete` is `DocumentManager.delete_document`.
`EvalStore` has the batch file, its temporary file and runs in several
processes; `EvalSampling` the semaphore, the judges and the scores.

### Algorithms

`Chunking` cuts a text of sentences, each with a length and what begins with
it, by all six strategies, and tables into groups of rows; positions stand for
characters. `EvalStatistics` is `aggregator.py` over a log that grows;
`ReportFiles` has exports that overlap in one second. They are functions of a
state that enumerates their inputs, compared with what each must give.

### Running several modules at once

The modules do not share variables, so one run of TLC checks many: `MCServing`,
`MCBackground` and `MCComponents` (which extends `MCStores`) have a variable
`part`, chosen in the initial state, that says whose actions are taken; the
other modules stay in one initial state (`IF part = "x" THEN TRUE ELSE v = ...`
in front of the module's own `Init`). The behaviours of a part are those of its
module; a safety property of the module is checked as it stands, a temporal one
as `part = "x" => ...`, and the fairness is the module's with `part = "x"` as a
conjunct. Run `Agent` checks `AgentLoop` itself. `MCServing` takes `LlmSlots` by INSTANCE with two callers, for
liveness; `MCComponents` has it with three. `DocumentScenarios` runs
`DocumentLifecycle` in a setting chosen at the start: `all` is the pipeline
itself; `loops` has ingest-all loops that overlap with each other and with
deletes; `serial` one handler at a time; `reingest` overlapping ingestions
without deletes and failures. Its steps are those of the pipeline, restricted.

## 3. The runs

`CHECK_DEADLOCK FALSE` everywhere: a quiet server, a finished request and an
exhausted bound are legitimate ends.

| run | states | questions |
|---|---|---|
| `DocFaults` | 7,140,000 | What holds of documents whatever happens? Setting `all`: two handlers, five endpoints, two contents under one file name, failing steps, status UPDATEs and DELETEs, Milvus errors, crashes: a completed document has its chip, chunks are under a chip their text names, duplicates need overlap, rules cite a row, no handler meets data it does not have |
| `DocScenarios` | 389,000 | When do the stores agree, and does every ingestion end? Documents that share neither file name nor chip, in the settings `loops`, `serial` (re-uploads, deletes, failing steps) and `reingest` |
| `Agent` | 130,000 | Budget, log, conversation, contract and end of a run, with tools in parallel and in turn |
| `Serving` | 264,000 | Does a client get the answer that is remembered, learned and cached; the orchestrator come back after an outage; a slot come back after a crash; a call end? |
| `Background` | 230,000 | Do chains, viewers, batches and samples end, and is what they leave behind true? |
| `Components` | 979,000 | The safety of fifteen further components, three of them pure algorithms |
| `DocDeleteLeavesRow`, `DocSameChip`, `FirstLogin`, `BomRows`, `Errata`, `Comparisons` | – | violated, see section 6 |

A property of a run is often a conjunction of named parts, each with its comment
in its module; the parts are what a reader should look at.

| run | property | parts |
|---|---|---|
| `DocScenarios` | `RowsFilesAndChunksAgree` | `CompletedIsSearchable`, `NoOrphanChunks`, `FileIsTheContent` |
| | `IngestionsEnd` | `FinalStatusArrives`, `IngestAllEnds` |
| `Agent` | `RunsAreOrderly` | `ConversationIsWellFormed`, `ToolsTakeTurns`, `TokensAddUp` |
| `Serving` | `OneAnswerIsTold` | `MemoryTellsWhatWasSaid`, `EpisodesAreTruthful`, `StreamsAreWhole` |
| | `OnlyOverlapRebuilds` | `OnlyOverlapReplacesTheOrchestrator`, `OnlyOverlapOpensTwice` |
| | `RequestsEnd`, `CapacityComesBack` | `EveryQueryEnds`, `AcquireAnswers`, `EveryCallEnds`; `ServiceRecovers`, `QuietSlotsComeBack` |
|  | `ServicesAreAsTheySay` | `FailuresAreExplained`, `ReadyMeansReady` |
| `Background` | `StoredIsExplained` | `EmptyIsExplained`, `SkippedLeavesNothing` |
|  | `ScoresAreEarned` | `FailedJudgesAreNotZeros`, `ScoresAreFractions` |
|  | `OnlyRacesDamageFiles` | `DownloadsAreWhole`, `OnlyRacesOverwrite` |
|  | `OnlyRacesHurtBatches` | `OnlyOverlapForgetsBatches`, `VerdictsAddUp`, `OnlyRacesMisname`, `OutcomesStay` |
|  | `BackgroundWorkEnds` | `EveryChainEnds`, `EveryViewerIsReleased`, `PendingIsTaken`, `BatchEnds`, `SampledEvaluationsEnd` |
| `Components` | `ToolsAreComplete` | `OfferedToolsHaveBackends`, `FailuresStayLocal`; `UnmatchedAreUnknown`, `WarningsAreGiven` |
|  | `FiguresAreJudged` | `MissingFiguresAreShown`, `QuotedFiguresPass`, `FactsAreReportedOnce`, `OnlyWeakEvidenceIsWithheld` |
|  | `DashboardsAccountForTheLog` | `EveryScoreIsCountedOnce`, `TrendsCompareTwoWindows`, `PercentilesAreOrdered`, `OutliersAreTheWorst` |
|  | `PromisesAreKept` | `PromisedReportsAreThere` |
|  | `ChunksMakeUpTheDocument` | `NothingIsLost`, `ChunksAreBounded`, `ChildrenMakeUpTheirParent`, `RowsStayInOrder`, `SplitMakesProgress` |
|  | `RemainsAreExplained` | `LeftoversAreExplained`, `OrphansAreExplained` |
|  | `LimitsHold` | `AdmissionsAreBounded`, `LocalListsStaySmall`; `LimitHoldsUnlessRaced`, `UsersAreCounted`, `NobodyElseIsCounted` |
|  | `SessionsKeepWhatWasSaid` | `OnlyOverlapForgets`, `NothingIsToldTwice`, `PinnedTurnsSurvive`, `AnswersFollowQuestions`, `StoredIsBounded`, `CompactionsAreReal` |
|  | `LoginsAreSound` | `StatesAreTakenOnce`, `TokensSayTheGroups`, `AddressesStayUnique`, `IssuedTokensVerify` |
|  | `GraphFollowsTheTables` | `GraphIsComplete`, `GraphInventsNothing` |
|  | `ResultsAreWhatWasFound` | `NothingTwice`, `AskedPartLeads`, `NothingMeansNothing` |
|  | `MemoryIsGoverned` | `OutcomesAreCounted`, `OnlyConfirmedIsTold` |
|  | `CacheFollowsTheChips` | `InvalidationIsComplete`, `BucketIsBounded`, `BucketsExpire`, `OnlyRacesDropAnswers` |

The type invariant of a component is part of its property; `DocFaults` and `Agent` have
theirs by itself.
Why the bounds are enough.

* *Documents*: two handlers give every pairwise overlap, and the properties that
  count batches count to two; two contents, names and chips are the least that
  can collide; a third name is for the re-upload. `MaxDocs` lets a document be
  deleted and uploaded anew; where handlers overlap `OverlapDocs` leaves two
  documents, and `LoopPaths` two file names to the loops, which is enough for a
  loop to go on after a document another loop or a delete has taken. Symmetry is
  used for handlers only, in runs
  without temporal properties.
* *Agent*: two answers, so that the budget is looked at after an overrun; two
  calls for a failed sibling, three for "running, done, waiting" in turn.
* *Serving*: two requests with the same question, one streamed, so that one may
  meet the other's answer; an answer of three characters in pieces of two, for
  the short last piece; one outage per backend, one killed process, one crash
  of a service, a batch that is empty and one that is too large.
* *Background*: a chain with two retries and one death, two viewers, one of them
  on an early task and one on a late; a link and a file of one name, so that
  crawler and watcher meet; three batches, one from the command line (another
  process) and one over the golden set; two samples behind one permit and one
  evaluation of a batch.
* *Components*: three requests over a migrated conversation with a keep count of
  two, one and an odd number; two logins of which one arrives twice; two users
  with one shared address; three askers over a bucket of one; two ingestions of
  one chip; four chunks in two opposite orders; three callers for one slot, two
  of them in one process; a minute of one tick and an hour of two, so that both
  limits are reached in different windows; texts of three sentences with
  lengths around the chunk size, where the last piece, a piece over the limit
  and an overlap longer than its buffer occur; three scores at the boundaries
  of windows, buckets and bins; four reports in three seconds.

`SchemaFits` says whether the table of users has the columns that the
provisioner writes. In the repository it does not, which is what `FirstLogin`
shows; `Components` has it true, so that what the sign-in does after a row is
written can be looked at. `Columns` does the same for the statements of the
tools and has the deployed columns everywhere.

## 4. Fairness

* `DocumentLifecycle`: weak fairness of each handler's `Step`: the event loop
  runs every ready task, and the awaits of a handler end (clients have timeouts,
  `to_thread` calls return). `StepFails` is part of `Step`, so fairness does not
  promise success; no client need ask and no process need crash.
* `AgentLoop`: weak fairness of `Next`: the LLM client has a timeout and each
  tool runs under `asyncio.wait_for`.
* `QueryPipeline`: weak fairness of each request's own steps, for the same
  reason. Clients may leave or stay.
* `OrchestratorSingleton`: backends that are down recover (the number of outages
  is bounded) and strong fairness of the requests, the readiness check and the
  probe: the property is about a service that goes on being used, and a request
  that finds the loop occupied again and again is served in the end.
* `LlmSlots`: weak fairness of time and of each caller's steps; a caller need
  not ask. `ModelServices`: weak fairness of `Attempt`, whose outcomes include
  each failure.
* `IngestionChain`: weak fairness of the workers' next task (Celery delivers
  what is queued), of a viewer's poll (the loop sleeps two seconds) and of the
  expiry of keys. Deaths of workers are bounded.
* `DatasheetIntake`: `process_pending` is called again and again and time goes
  on. `EvalStore`: a run takes its steps. `EvalSampling`: weak fairness of
  answers and ends; strong fairness of `Enter`, since `asyncio.Semaphore` serves
  its waiters in order.

The other modules have no liveness property.

## 5. The proofs

Eight modules named `..._proofs` prove, for every value of the constants that
satisfies the named assumptions of their modules:

| theorem | argument |
|---|---|
| `DocumentLifecycle_proofs!TypeCorrect` | Types alone are not inductive: `Read` puts the file's content into `text`, so rows must have a path, which needs the handlers' snapshots to have one. `Data` = `TypeOK` with `RowsAreComplete` and `LocalsAreComplete` is |
| `HandlersAreWellFormed`, `CompletedDocumentsAreLinked` | A row is completed by a handler that linked it, unless the row was deleted and its id taken over: `IInv` adds `IdsAreFresh` (no two live ids are equal, none is reused) and "a row that is completed, or being ingested beyond its link, is linked" |
| `DuplicatesComeFromOverlap`, `ChunksAreFiledCorrectly` | Between its `Wipe` and its `Insert` a handler has no chunks under its chip: the only steps that add chunks tag them with their own handler. `LocalsAreComplete` says that the chip a handler holds is one its text names |
| `RulesCiteDocuments` | `DropRow` needs no rules, `Enrich` needs the row |
| `ProcessingHasAnOwner` | Assumes that neither `"crash"` nor `"mark"` is in `Faults`; a handler leaves its document only after writing its outcome |
| `ScenariosAreRuns` | A step of a setting is a step of the pipeline, so all of the above holds in each setting |
| `StoresAgree` | What the stores hold follows the rows (`StoresFollow`: hashes are unique, a row's path and chip are those of its content, a file there holds the content, a chunk has its row), and what a handler has selected is still so when it acts (`HandlersFollow`), since only a delete changes it and a delete works alone. `NothingIsShared` makes a path and a chip tell the content, so that two ingestions only meet over one document |
| `AgentLoop_proofs!TypeCorrect`, `BudgetIsBounded`, `LogNeverLosesAStep`, `SequentialToolsRunInOrder` | One invariant, `IInv` = `TypeOK` and `Control`, which ties the program counter to the observations, the number of steps and the budget at the last check |
| `RunsStayOrderly` | Each assistant message is followed by the tool messages of its calls, in their order (`AnsweredAfter`), except the answer in hand, which is the last message (`InHand`). `used` is the sum of the log's tokens plus those of the answer in hand (`CountInv`, with `AddedAppend`) |
| `RunKeepsItsContract` | Each step of `AgentLoop` is, under the mapping, a step of `AgentContract` or a stutter |
| `ToolsStayComplete` | `ToolsInv` says what each step of a tool's plan that is over brought (`Told`); a step waits for earlier ones only (`PlansAre`, from the table of plans). `BomInv` describes the items before, at and after the one being looked at (`Looked`, `ItemsAre`). The two specifications share no state, so their invariants hold side by side |
| `Serving_proofs!OneAnswerIsToldToAll`, `SharedAnswersAreGood` | An entry of the memory, the episodes or the cache is written at a stage after which the answer of its request is fixed (`IsAbout`, `CachedOK`); `AskOK` and `ToldOK` say what a request and its client have at each stage. That a cache hit is somebody else's answer follows: who is cached has passed the stages at which one looks |
| `OnlyOverlapLosesWhatWorks` | As long as no two requests were on their way at once, what a request saw holds when it acts: `SeenIsSo` for each place between test and assignment, for any number of clients |
| `ServicesKeepTheirWord` | Each attempt before the one under way met an outage of its own (`OutagesAreCounted`), and what a health check has heard is still true while nothing crashes (`HeardIsSo`) |
| `PromisesStay` | What is in a file was put there by a request that took the file's name (`FilesAreOfTheirReports`), so only a second report of that second can replace a promised one |
| `JudgementsStand` | A report is none, a refusal for thin evidence, or splits the answer's facts into those the citations hold and the others (`IsLookup`); that good scores are never thin evidence is a fact about sums (`AddedAtLeast`), the rest is counting (`ThoseSplit`, `ThoseFewer`) |
| `Serving_proofs!SlotsStayCounted` | The properties speak of users; inductive is what is known of every holder of an id: one in Redis belongs to a caller between SADD and its release (or has expired), one in a process to a caller of it, and the limits bound the ids. Cardinalities by the library's finite-set theorems |
| `WindowsStayHeld` | Everyone admitted in a window is in its counter (`CountersHold`) or has an entry of its own in a local list (`FallbackHolds`); the bound on the admitted is that on the entries |
| `RateLimitsHold` | Both together, as `LimitsHold` states them |
| `Background_proofs!ChainsExplainThemselves` | What a task that is over left in its document, task by task, retries and redelivery included |
| `PermitsAreNeverLost`, `RecordsTellTheTruth` | Permits and running evaluations balance, once it is known that only the sampler's evaluations wait for the semaphore. A record is what its judges said (`RecordInv`) |
| `OnlyTwoProcessesHurtBatches` | As long as no second process was at the file, nobody is between another's read and rename: a run's line is in the file when it rewrites it, and what it then puts there agrees with its log (`EvalInv`) |
| `EveryArrivalIsAccounted` | The books balance because an entry that `process_pending` works on is still there when its turn comes (`ReadyIsPending`), and bound the counters |
| `FilesAreOnlyDamagedByRaces` | A run of the crawler visits each link once (`LinksAreDoneOnce`), and what it fetches was absent or has raced (`FetchesWhatIsAbsent`); a copy that goes on has begun (`CopiesAreThere`) |
| `DashboardsAccount` | Holds of every list of records, so the invariant is the log's type. Buckets and bins part the scores (`ThosePartition`, with the list of a series' points by `SetToSeqLists`), the windows of a trend part the recent records (`ThoseSplit`), and a sorted list is a permutation in the order of its keys (`SortedByHolds`), of which the percentiles and the outliers are places |
| `Chunking_proofs!ChunksMakeUp` | Holds of every text, so the invariant is the text's type; inductive are the loops. Groups of sentences are whole, with one separator between two (`Pieces`). A buffer being filled, and what is closed, cover the text up to the last piece taken (`FilledUpTo`); cuts cover a section up to where the rest begins, which after n cuts is n further (`CutSoFar`); each segment joined to the chunk before adds less than `MinSize` (`Joined`); a window begins before the one before it ends (`Reaches`, with the least window that reaches the end); a row added to the groups is appended to what they hold (`AddRowHolds`) |
| `ConversationMemory_proofs!SessionsRemember`, `SessionsKeepTheirWord` | Whatever is stored, or in the hands of a request, is of requests that are over (`TellsOfOver`), holds a turn at most once among turns and summary, and keeps pinned turns in the pinned list once they leave the turns; compaction preserves all this for every way of cutting (`ThoseHold`, `LastNElements`). That a compaction has something to compact (`CompactionsAreReal`) needs `Worthwhile`: turns are kept up to the threshold at most, and no question alone exceeds the budget |
| `Stores_proofs!GraphEndsUpWithTheTables` | A row that the graph lacks is on its way: some ingestion of its chip has yet to copy that table, or was refused (`Carries`) |
| `LoginsStaySound` | A state is stored once and, taken with GETDEL, lets one callback pass (`StatesAreConsumed`); a token has the row of its user behind it and a role its groups gave (`TokensAreBacked`); of two persons with one address one has no row (`AddressesAreOwned`) |
| `DeletesExplainThemselves` | A kind that is left although a delete has passed it met an error of some delete, or, for chunks, a delete that took the row meanwhile (`IsExplained`) |
| `MemoryStaysGoverned` | What is confirmed was confirmed by a reviewer or by its user's own wish (`RecordsAreGoverned`) |
| `CacheFollowsItsChips` | An entry that a change of its chip has made wrong will go: a message waits, or a reader that has seen it is about to rewrite (`WillGo`). The bucket's bound counts the pushes not yet trimmed and the entries put back |
| `ResultsStayTrue` | Results come in the order of the ranking, and fusing and expanding keep the asked part in front (`Leads`) |

The step lemmas have one step per action, from the definitions it changes, and
one lemma for what all steps that leave something alone have in common. Temporal
steps are the usual `Init => I`, `I /\ [Next]_vars => I'`; a composition (tools
with bills, windows with slots) is proved part by part and put together by PTL.

*Recursion.* The library's induction rules take a predicate as a parameter,
which the provers cannot instantiate. `Lists_proofs` therefore states induction
for a set of naturals (`SetInduction`) and unfolds recursive functions with the
library's definition theorem (`Recursion`); from these come the facts about
`Those`, `Added`, `LastN` and `AllButLastN` for lists of any length, and that
every list can be sorted (`SortingExists`), which the proofs about
conversations, bills, windows, caches, results and statistics rest on. The
chunkers' loops are unfolded the same way, one lemma per loop (`FillUnfold`,
`CutsUnfold`, `SemanticUnfold`, `RowsUnfold`).

*Assumptions.* Beyond types and ranges: `Past` lists a session's requests once
each; the marks for "no batch" are no batch ids; `Caller`, `Online`, `Deleter`
and what one document mentions are finite; the two rankings of a search name no
chunk twice; a bill's rows are lists of cells. TLC evaluates them on every run.
`Worthwhile` is a hypothesis of one theorem; the run's constants satisfy it, and
the repository's defaults (10 turns, 8000 characters) do for questions of at
most 8000 characters. `Sized` is the hypothesis of `ChunksMakeUp`: the overlap
is at most half of the chunk, and more than the shortest chunk of a page that is
kept. The run's sizes (7, 3 and 2) satisfy it, and so do those of
`config/settings.yaml` and of `_chunk_pages` (1000, 200 and 50); the fine, coarse
and parent-child chunkers do not look at the third. `SettingsAssumption` ties the
settings of documents to what may be shared and fail in them: `serial` and
`reingest` need documents without a common file name or chip, and DELETEs that
succeed. Both are needed: `DocSameChip` and `DocDeleteLeavesRow` show what
happens otherwise.

*What the proofs found.* `BucketIsBounded` did not hold as first stated: the
invalidator's rewrite puts back entries that an asker trimmed away after it
read them, as soon as two entries of other chips stand in the bucket; TLC
confirms it with a larger bucket. The bound now counts them (`putBack`).
`OnlyWeakEvidenceIsWithheld` said that a withheld answer has more missing than
found figures: with the configured share of 0.40 that was true of the small
answers of the run only, and it now says what the setting says. A
`MergePinned` that kept a turn pinned twice, ids of batches that equal the mark
of a lost one, and rows of a bill shorter than its header were other cases that
an inductive invariant asked about and the models had left open. The proof of
`StoresAgree` asked what happens when the DELETE of a row fails for another
reason than its rules: the fault `"drop"` was missing from the pipeline.

*Only model-checked*: everything about liveness (liveness and `ENABLED` are
beyond the prover), including the fairness half of `ImplementsContract`. Every
invariant and every action property that a passing run checks is stated by a
theorem.

## 6. Where code and documentation disagree

Runs that end in a violation, each against a sentence of the repository:

* `DocDeleteLeavesRow`: deleting a document with extracted rules removes its
  chunks and file and then fails on the foreign key; the row stays "completed".
* `DocSameChip`: chunks are keyed by chip; a second document of a chip replaces
  the chunks of the first, whose listing then shows the other's.
* `FirstLogin`: the INSERT of the provisioner names a column that the table does
  not have and gives no username, so no first login creates a user.
* `BomRows`: column positions counted from 0 are used as if counted from 1: no
  row of a bill is read with the part number of its column.
* `Errata`: the errata parser searches the printed form of the response object,
  so what the LLM found is dropped.
* `Comparisons`: the agent's `chip_compare` is made by discovery, without a
  pool, and compares empty tables.

Statements that do not hold of the models and that no run has, because the
repository does not promise them or says so only in passing. They are written
beside their modules for whoever changes the code:

| definition | what happens |
|---|---|
| `DocumentLifecycle!IngestIsIdempotent` | each re-ingestion stores another set of rules and errata |
| `AgentLoop!NoToolPastBudget` | the answer that exhausts the budget still has its tools run |
| `ConversationMemory!RecentTurnsComeFirst` | older relevant turns are shown at the expense of recent ones |
| `IngestionChain!CompletionIsReported` | completion is written under an empty task id; viewers leave by their timeout |
| `OrchestratorSingleton!OneWritableDatabase` | overlapping builds open Kùzu twice |
| `DatasheetIntake!SubmittedAreStable` | a file whose writing takes longer than the debounce is submitted in part |
| `LongTermMemory!HintsHaveSucceeded` | hints recommend procedures that have only failed |
| `Retrieval!KnowledgeIsSearched` | the collection of the notes lacks a field that the store asks for, so every search of it is refused |
| `AnswerGrounding!CountsMatchExactly` | pin counts match within one per cent |
| `KnowledgeGraph!MentionsReachTheGraph` | chips mentioned together are stored after the graph was synchronised |
| `LlmSlots!ReleaseGivesBack` | a slot taken in the memory of the process while Redis was away is not given back by a release that reaches Redis |
| `ModelServices!TwoAttempts`, `HealthyExitMeansReady` | nested retries make four attempts; a service that loads passes the script's check |

More facts the models show. After a crash a document says "processing" for
ever, since nothing resets it and ingest-async refuses it: `FinalStatusArrives`
is checked without `"crash"` for that reason, and `ProcessingIsOwned` without
`"mark"`. A delete that overlaps an ingestion leaves chunks nobody owns:
`RowsFilesAndChunksAgree` is about deletes or overlap, not both. `DatasheetSplitter`
is only sure to move on while the overlap is at most half of `chunk_size` (1000
and 200 are configured); with a larger one it may loop for ever, which its safety
test does not stop. After a failed build of the judge no answer is sampled again.

## 7. What is not modelled

The status of each component is in `PROJECT.json`. Left out for good: wording
and prompts, rendering, logging and tracing (nothing that decides reads them),
settings (constants of the models), read-only routers, set-up scripts that run
alone, the web front end, offline benchmarks (`graphrag.py`, `cli.py`). Code
that no part of the application calls is left out where it stands alone
(`fusion.py`, `guardrails.py`, the OIDC middleware, `append_turn`) and modelled
where it is a documented part (`CoordinatedDelete`, `RateWindows`, the crawler,
the watcher and the invalidator, none of which the application starts). The
golden set's handlers are synchronous and run on the event loop, so within a
process its edits are atomic; password login and token refresh change no state.
What an LLM says, what a PDF contains and how texts resemble each other are
inputs.

## 8. The plan

Done: everything in section 2. Next:

1. `StoresAgree` for deletes that overlap ingestions of other documents, which
   needs to say which documents a delete may disturb.
2. `LlmSlots` against an abstract counting semaphore.
3. `QueryPipeline` with `AgentLoop` and `ConversationMemory` in the place of its
   one-step agent and its set of exchanges.
