----------------------------- MODULE IngestionChain -----------------------------
(***************************************************************************)
(* The Celery chain of src/ingestion/tasks.py and the WebSocket of         *)
(* src/api/routers/tasks.py that follows one of its tasks.                 *)
(*                                                                         *)
(* The document travels from task to task in the message; each task has an *)
(* id of its own and writes its progress under that, in two commands.      *)
(* Tasks are acknowledged late, so one that was running when its worker    *)
(* died is delivered again, or is lost.  The WebSocket is modelled with its *)
(* Redis client set: the application never calls set_redis, and without it *)
(* every client is told that Redis is not available.                       *)
(***************************************************************************)
EXTENDS Integers, FiniteSets

CONSTANTS
  Chain,       \* documents on their way
  Blank,       \* those whose PDF has no text
  Viewer,      \* WebSocket clients
  Followed,    \* the tasks whose ids they know, <<document, number of the task>>
  ChainFaults, \* what may fail: "download", "file", "extract", "worker", "redis"
  MaxRetries,  \* of the download
  MaxDeaths    \* bound: workers that die

ASSUME ChainAssumption ==
  /\ Blank \subseteq Chain
  /\ Followed \subseteq Chain \X (1..11)
  /\ ChainFaults \subseteq {"download", "file", "extract", "worker", "redis"}
  /\ MaxRetries \in Nat /\ MaxDeaths \in Nat

Tasks == <<"download", "dedup", "text", "tables", "params", "chunk", "embed",
           "vectors", "metadata", "graph", "notify">>

VARIABLES
  chain,     \* the task each document is at, and what the message says of it
  progress,  \* the keys task:progress:{id} in Redis, of the ids that are followed
  viewer,    \* the WebSockets
  deaths

chainVars == <<chain, progress, viewer, deaths>>

\* notify_completion reports under the empty id.
NoTask == <<>>
ProgressKey == Followed \cup {NoTask}

Document == [skipped : BOOLEAN, error : BOOLEAN, text : BOOLEAN, chunks : BOOLEAN,
             vectors : BOOLEAN, stored : BOOLEAN]

ChainTypeOK ==
  /\ chain \in [Chain -> [at : DOMAIN Tasks, tries : 0..MaxRetries, doc : Document,
                          state : {"queued", "running", "failed", "completed"}]]
  /\ progress \in [ProgressKey -> [status : {"none", "running", "completed"}, expires : BOOLEAN]]
  /\ viewer \in [Viewer -> [of : Followed, state : {"open", "notFound", "told"}, saw : BOOLEAN]]
  /\ deaths \in 0..MaxDeaths

Absent == [status |-> "none", expires |-> FALSE]

ChainInit ==
  /\ chain = [c \in Chain |->
       [at |-> 1, tries |-> 0, state |-> "queued",
        doc |-> [skipped |-> FALSE, error |-> FALSE, text |-> FALSE, chunks |-> FALSE,
                 vectors |-> FALSE, stored |-> FALSE]]]
  /\ progress = [k \in ProgressKey |-> Absent]
  /\ viewer \in [Viewer -> [of : Followed, state : {"open"}, saw : {FALSE}]]
  /\ deaths = 0

TaskIs(c, name) == Tasks[chain[c].at] = name
Doc(c) == chain[c].doc

\* Tasks after the check pass a skipped document on.
Passes(c) == Doc(c).skipped /\ chain[c].at > 2

-----------------------------------------------------------------------------

\* A worker takes the task; _update_progress writes the hash and its expiry,
\* of which both, one or none arrive.
StartTask(c) ==
  /\ chain[c].state = "queued"
  /\ chain' = [chain EXCEPT ![c].state = "running"]
  /\ IF Passes(c) \/ TaskIs(c, "notify") \/ <<c, chain[c].at>> \notin Followed
       THEN UNCHANGED progress
       ELSE LET key == <<c, chain[c].at>>
            IN  \/ progress' = [progress EXCEPT ![key] = [status |-> "running", expires |-> TRUE]]
                \/ /\ "redis" \in ChainFaults
                   /\ \/ progress' = [progress EXCEPT ![key] = [@ EXCEPT !.status = "running"]]
                      \/ UNCHANGED progress
  /\ UNCHANGED <<viewer, deaths>>

\* The result becomes the input of the next task.
HandOn(c, doc) ==
  chain' = [chain EXCEPT ![c] = [at |-> @.at + 1, tries |-> 0, doc |-> doc, state |-> "queued"]]

\* download_document: retried three times, then the chain is given up.
Download(c) ==
  /\ chain[c].state = "running" /\ TaskIs(c, "download")
  /\ \/ HandOn(c, Doc(c))
     \/ /\ "download" \in ChainFaults /\ chain[c].tries < MaxRetries
        /\ chain' = [chain EXCEPT ![c].state = "queued", ![c].tries = @ + 1]
     \/ /\ "download" \in ChainFaults /\ chain[c].tries = MaxRetries
        /\ chain' = [chain EXCEPT ![c].state = "failed"]
  /\ UNCHANGED <<progress, viewer, deaths>>

\* validate_and_dedup: a file that is gone skips the document.
Dedup(c) ==
  /\ chain[c].state = "running" /\ TaskIs(c, "dedup")
  /\ \/ HandOn(c, Doc(c))
     \/ "file" \in ChainFaults /\ HandOn(c, [Doc(c) EXCEPT !.error = TRUE, !.skipped = TRUE])
  /\ UNCHANGED <<progress, viewer, deaths>>

\* Mutant: a failed extraction is not recorded.
ExtractedSilently(c) == {[Doc(c) EXCEPT !.text = c \notin Blank], Doc(c)}

\* What extract_text may make of the document: an error is recorded and the
\* chain goes on.
Extracted(c) ==
  {[Doc(c) EXCEPT !.text = c \notin Blank]}
    \cup IF "extract" \in ChainFaults THEN {[Doc(c) EXCEPT !.error = TRUE]} ELSE {}

\* extract_tables: likewise.
WithTables(c) ==
  {Doc(c)} \cup IF "extract" \in ChainFaults THEN {[Doc(c) EXCEPT !.error = TRUE]} ELSE {}

\* chunk_text: no text, no chunks.
Chunked(c) ==
  {[Doc(c) EXCEPT !.chunks = @ \/ Doc(c).text]}
    \cup IF "extract" \in ChainFaults THEN {[Doc(c) EXCEPT !.error = TRUE]} ELSE {}

\* The tasks from extract_text to sync_knowledge_graph.
Process(c) ==
  /\ chain[c].state = "running" /\ chain[c].at \in 3..10
  /\ \E doc \in CASE Passes(c) -> {Doc(c)}
                  [] ~Passes(c) /\ TaskIs(c, "text") -> Extracted(c)
                  [] ~Passes(c) /\ TaskIs(c, "tables") -> WithTables(c)
                  [] ~Passes(c) /\ TaskIs(c, "chunk") -> Chunked(c)
                  [] ~Passes(c) /\ TaskIs(c, "vectors") -> {[Doc(c) EXCEPT !.vectors = Doc(c).chunks]}
                  [] ~Passes(c) /\ TaskIs(c, "metadata") -> {[Doc(c) EXCEPT !.stored = TRUE]}
                  [] OTHER -> {Doc(c)} :
       HandOn(c, doc)
  /\ UNCHANGED <<progress, viewer, deaths>>

\* notify_completion, which is given an empty document instead of the result
\* and so reports under no id; the key never expires.
Notify(c) ==
  /\ chain[c].state = "running" /\ TaskIs(c, "notify")
  /\ chain' = [chain EXCEPT ![c].state = "completed"]
  /\ \/ progress' = [progress EXCEPT ![NoTask] = [status |-> "completed", expires |-> FALSE]]
     \/ "redis" \in ChainFaults /\ UNCHANGED progress
  /\ UNCHANGED <<viewer, deaths>>

\* The worker dies or a time limit kills the task: it is lost, or delivered again.
WorkerDies(c) ==
  /\ "worker" \in ChainFaults /\ deaths < MaxDeaths
  /\ chain[c].state = "running"
  /\ chain' = [chain EXCEPT ![c].state = "failed"] \/ chain' = [chain EXCEPT ![c].state = "queued"]
  /\ deaths' = deaths + 1
  /\ UNCHANGED <<progress, viewer>>

-----------------------------------------------------------------------------
(* task_progress_ws *)

\* Mutant: a client that has seen progress waits for more.
PollUntilCompleted(v) ==
  /\ viewer[v].state = "open"
  /\ LET key == progress[viewer[v].of]
     IN  viewer' = CASE key.status = "none" /\ ~viewer[v].saw -> [viewer EXCEPT ![v].state = "notFound"]
                     [] key.status = "none" /\ viewer[v].saw -> viewer
                     [] key.status = "running" -> [viewer EXCEPT ![v].saw = TRUE]
                     [] key.status = "completed" -> [viewer EXCEPT ![v].state = "told"]
  /\ UNCHANGED <<chain, progress, deaths>>

\* Every second: "Task not found", a progress message, or the end.
PollProgress(v) ==
  /\ viewer[v].state = "open"
  /\ LET key == progress[viewer[v].of]
     IN  viewer' = CASE key.status = "none" -> [viewer EXCEPT ![v].state = "notFound"]
                     [] key.status = "running" -> [viewer EXCEPT ![v].saw = TRUE]
                     [] key.status = "completed" -> [viewer EXCEPT ![v].state = "told"]
  /\ UNCHANGED <<chain, progress, deaths>>

\* A key has been quiet for 24 hours.
ProgressExpires(k) ==
  /\ progress[k].expires
  /\ progress' = [progress EXCEPT ![k] = Absent]
  /\ UNCHANGED <<chain, viewer, deaths>>

ChainStep(c) == StartTask(c) \/ Download(c) \/ Dedup(c) \/ Process(c) \/ Notify(c)

ChainNext ==
  \/ \E c \in Chain : ChainStep(c) \/ WorkerDies(c)
  \/ \E v \in Viewer : PollProgress(v)
  \/ \E k \in ProgressKey : ProgressExpires(k)

\* Workers take what is queued, time limits end what runs; keys expire; the
\* loop of a WebSocket goes on.
ChainFairness ==
  /\ \A c \in Chain : WF_chainVars(ChainStep(c))
  /\ \A v \in Viewer : WF_chainVars(PollProgress(v))
  /\ \A k \in ProgressKey : WF_chainVars(ProgressExpires(k))

ChainSpec == ChainInit /\ [][ChainNext]_chainVars /\ ChainFairness

-----------------------------------------------------------------------------
(* Properties *)

\* A document that was stored without vectors says why, in its error, unless
\* its PDF has no text: no failure in the middle of the chain is forgotten,
\* although the chain goes on to store the metadata.
EmptyIsExplained ==
  \A c \in Chain : Doc(c).stored /\ ~Doc(c).vectors => Doc(c).error \/ c \in Blank

\* Nothing is stored of a document that was skipped, and vectors are only
\* stored of text that was read.
SkippedLeavesNothing ==
  \A c \in Chain :
    /\ Doc(c).skipped => ~(Doc(c).text \/ Doc(c).chunks \/ Doc(c).stored)
    /\ Doc(c).vectors => Doc(c).text /\ Doc(c).chunks

\* Every chain ends, with each of its tasks done or given up.
EveryChainEnds == \A c \in Chain : <>(chain[c].state \in {"failed", "completed"})

\* A WebSocket is closed in the end, if only because the key expires, unless
\* the EXPIRE of that key was never sent.
EveryViewerIsReleased ==
  \A v \in Viewer :
    <>(viewer[v].state # "open"
         \/ progress[viewer[v].of] = [status |-> "running", expires |-> FALSE])

\* "Stream task progress via WebSocket until completion" (routers/tasks.py,
\* line 46): no task of a completed chain still says that it is running.
CompletionIsReported ==
  \A id \in Followed : chain[id[1]].state = "completed" => progress[id].status # "running"

\* What the chain leaves of a document is explained by what happened to it:
\* missing vectors by an error, nothing at all by its being skipped.
StoredIsExplained == ChainTypeOK /\ EmptyIsExplained /\ SkippedLeavesNothing
=============================================================================
