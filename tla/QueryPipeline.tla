----------------------------- MODULE QueryPipeline -----------------------------
(***************************************************************************)
(* _execute_query_with_memory of src/api/routers/query.py and the two      *)
(* endpoints around it: conversation memory, rewriting, hints, cache,      *)
(* agent, grounding, and what a finished query leaves behind.              *)
(*                                                                         *)
(* Every stage but the agent swallows its errors and goes on without.  The *)
(* streaming endpoint runs the stages in a task of their own, cancelled at *)
(* its next await when the client disconnects.                             *)
(***************************************************************************)
EXTENDS Integers, FiniteSets

CONSTANTS
  Ask,         \* requests
  Streamed,    \* those made to /query/stream
  Wants,       \* Wants[r]: the question, once rewritten
  AnswerChars, \* length of an answer
  ChunkChars   \* characters in a token event

ASSUME PipelineAssumption ==
  /\ Streamed \subseteq Ask
  /\ {AnswerChars, ChunkChars} \subseteq Nat \ {0}

VARIABLES
  ask,        \* the requests: stage and locals
  told,       \* what the client of each has received
  remembered, \* exchanges in the conversation memory
  episodes,   \* rows of memory_episodes
  cached      \* answers in the semantic cache

pipelineVars == <<ask, told, remembered, episodes, cached>>

Stage == {"new", "memory", "rewrite", "hints", "lookup", "agent", "ground",
          "remember", "record", "store", "respond",
          "answered", "failed", "refused", "cancelled"}

InFlight == Stage \ {"new", "answered", "failed", "refused", "cancelled"}

\* An answer: who made it, why the agent stopped, whether there is any text,
\* and whether grounding replaced it by an abstention.
Answer == [by : Ask, complete : BOOLEAN, text : BOOLEAN, abstained : BOOLEAN]

\* Nothing yet.
NoAnswer == {}

PipelineTypeOK ==
  /\ ask \in [Ask -> [pc : Stage, manager : BOOLEAN, hit : BOOLEAN,
                      answer : SUBSET Answer]]
  /\ \A r \in Ask : Cardinality(ask[r].answer) <= 1
  /\ told \in [Ask -> [chars : 0..AnswerChars,
                       last : {"nothing", "status", "token", "done", "error"}]]
  /\ remembered \subseteq [of : Ask, answer : Answer]
  /\ episodes \subseteq [of : Ask, answer : Answer,
                         outcome : {"success", "abstained", "stopped", "cache_hit"}]
  /\ cached \subseteq [of : {Wants[r] : r \in Ask}, answer : Answer]

PipelineInit ==
  /\ ask = [r \in Ask |-> [pc |-> "new", manager |-> FALSE, hit |-> FALSE, answer |-> NoAnswer]]
  /\ told = [r \in Ask |-> [chars |-> 0, last |-> "nothing"]]
  /\ remembered = {} /\ episodes = {} /\ cached = {}

StageIs(r, pc) == ask[r].pc = pc
GoStage(r, pc) == ask' = [ask EXCEPT ![r].pc = pc]

\* The answer of r, once there is one.
AnswerOf(r) == CHOOSE a \in Answer : a \in ask[r].answer

-----------------------------------------------------------------------------
(* Before the agent *)

\* An empty query is refused with 400.
Receive(r) ==
  /\ StageIs(r, "new")
  /\ GoStage(r, "memory") \/ GoStage(r, "refused")
  /\ UNCHANGED <<told, remembered, episodes, cached>>

\* _load_memory_context: an invalid session id is refused with 400, too; no
\* Redis, or an error, means no manager and no history.
LoadMemory(r) ==
  /\ StageIs(r, "memory")
  /\ \/ GoStage(r, "refused")
     \/ ask' = [ask EXCEPT ![r].pc = "rewrite", ![r].manager = TRUE]
     \/ ask' = [ask EXCEPT ![r].pc = "lookup"]
  /\ UNCHANGED <<told, remembered, episodes, cached>>

\* _rewrite_query_if_needed, only with a history.
Rewrite(r) ==
  /\ StageIs(r, "rewrite")
  /\ GoStage(r, "hints")
  /\ UNCHANGED <<told, remembered, episodes, cached>>

\* Confirmed memories and procedures become messages, or fail to.
LoadHints(r) ==
  /\ StageIs(r, "hints")
  /\ GoStage(r, "lookup")
  /\ UNCHANGED <<told, remembered, episodes, cached>>

\* _get_cached_response: any answer to this question that the cache finds,
\* unless its text is empty; a miss or an error goes to the agent.
LookUp(r) ==
  /\ StageIs(r, "lookup")
  /\ \/ \E c \in cached :
          /\ c.of = Wants[r] /\ c.answer.text
          /\ ask' = [ask EXCEPT ![r].pc = "remember", ![r].hit = TRUE,
                                ![r].answer = {c.answer}]
     \/ GoStage(r, "agent")
  /\ UNCHANGED <<told, remembered, episodes, cached>>

-----------------------------------------------------------------------------
(* Agent and grounding *)

\* orchestrator.run() answers, with or without text, or raises: 503.
RunAgent(r) ==
  /\ StageIs(r, "agent")
  /\ \/ \E complete, text \in BOOLEAN :
          ask' = [ask EXCEPT ![r].pc = "ground",
                    ![r].answer = {[by |-> r, complete |-> complete, text |-> text,
                                    abstained |-> FALSE]}]
     \/ GoStage(r, "failed")
  /\ UNCHANGED <<told, remembered, episodes, cached>>

\* _apply_grounding: an abstention puts a template in the answer's place; no
\* answer is lost when the check itself fails.
Ground(r) ==
  /\ StageIs(r, "ground")
  /\ \/ ask' = [ask EXCEPT ![r].pc = "remember",
                           ![r].answer = {[AnswerOf(r) EXCEPT !.abstained = TRUE, !.text = TRUE]}]
     \/ GoStage(r, "remember")
  /\ UNCHANGED <<told, remembered, episodes, cached>>

-----------------------------------------------------------------------------
(* What a query leaves behind *)

\* Mutant: the exchange is stored before the answer is checked.
RememberUnchecked(r) ==
  /\ StageIs(r, "remember")
  /\ GoStage(r, "record")
  /\ \/ /\ ask[r].manager
        /\ remembered' = remembered \cup
             {[of |-> r, answer |-> [AnswerOf(r) EXCEPT !.abstained = FALSE]]}
     \/ UNCHANGED remembered
  /\ UNCHANGED <<told, episodes, cached>>

\* _append_memory_exchange, when there is a manager and Redis accepts it.
Remember(r) ==
  /\ StageIs(r, "remember")
  /\ GoStage(r, "record")
  /\ \/ /\ ask[r].manager
        /\ remembered' = remembered \cup {[of |-> r, answer |-> AnswerOf(r)]}
     \/ UNCHANGED remembered
  /\ UNCHANGED <<told, episodes, cached>>

Outcome(r) ==
  CASE ask[r].hit -> "cache_hit"
    [] ~ask[r].hit /\ AnswerOf(r).abstained -> "abstained"
    [] ~ask[r].hit /\ ~AnswerOf(r).abstained /\ ~AnswerOf(r).complete -> "stopped"
    [] ~ask[r].hit /\ ~AnswerOf(r).abstained /\ AnswerOf(r).complete -> "success"

\* Mutant: every answer with a text is cached.
ShouldCacheText(r) == AnswerOf(r).text

\* _should_cache_answer
ShouldCache(r) ==
  /\ AnswerOf(r).text
  /\ AnswerOf(r).complete
  /\ ~AnswerOf(r).abstained

\* _record_episode_and_learn: the row, or an error that is logged.
RecordEpisode(r) ==
  /\ StageIs(r, "record")
  /\ GoStage(r, IF ~ask[r].hit /\ ShouldCache(r) THEN "store" ELSE "respond")
  /\ \/ episodes' = episodes \cup {[of |-> r, answer |-> AnswerOf(r), outcome |-> Outcome(r)]}
     \/ UNCHANGED episodes
  /\ UNCHANGED <<told, remembered, cached>>

\* _put_cached_response
StoreAnswer(r) ==
  /\ StageIs(r, "store")
  /\ GoStage(r, "respond")
  /\ \/ cached' = cached \cup {[of |-> Wants[r], answer |-> AnswerOf(r)]}
     \/ UNCHANGED cached
  /\ UNCHANGED <<told, remembered, episodes>>

\* The cache forgets an answer: expiry, trimming, invalidation.
Forget ==
  /\ \E c \in cached : cached' = cached \ {c}
  /\ UNCHANGED <<ask, told, remembered, episodes>>

-----------------------------------------------------------------------------
(* What the client sees *)

Sent(r) == told[r].last \in {"done", "error"}

\* What there is to send in all.
Tokens(r) == IF AnswerOf(r).text THEN AnswerChars ELSE 0

Smaller(a, b) == IF a < b THEN a ELSE b

\* /query: one response.
Respond(r) ==
  /\ r \notin Streamed
  /\ \/ /\ StageIs(r, "respond") /\ GoStage(r, "answered")
        /\ told' = [told EXCEPT ![r] = [chars |-> Tokens(r), last |-> "done"]]
     \/ /\ ask[r].pc \in {"failed", "refused"} /\ ~Sent(r)
        /\ told' = [told EXCEPT ![r].last = "error"]
        /\ UNCHANGED ask
  /\ UNCHANGED <<remembered, episodes, cached>>

\* stream_query: a status every two seconds while the task runs.
SendStatus(r) ==
  /\ r \in Streamed /\ ask[r].pc \in InFlight
  /\ told[r].last = "nothing"
  /\ told' = [told EXCEPT ![r].last = "status"]
  /\ UNCHANGED <<ask, remembered, episodes, cached>>

\* Mutant: only what the endpoint refuses itself is reported.
EndWithRefusal(r) ==
  /\ StageIs(r, "refused")
  /\ told' = [told EXCEPT ![r].last = "error"]

\* The task raised: an HTTPException or anything else.
EndWithError(r) ==
  /\ ask[r].pc \in {"failed", "refused"}
  /\ told' = [told EXCEPT ![r].last = "error"]

\* The answer in pieces, then "done"; an "error" event if the task raised.
Stream(r) ==
  /\ r \in Streamed /\ ~Sent(r)
  /\ \/ /\ StageIs(r, "respond") /\ told[r].chars < Tokens(r)
        /\ told' = [told EXCEPT ![r].chars = Smaller(@ + ChunkChars, Tokens(r)),
                                ![r].last = "token"]
        /\ UNCHANGED ask
     \/ /\ StageIs(r, "respond") /\ told[r].chars >= Tokens(r)
        /\ told' = [told EXCEPT ![r].last = "done"]
        /\ GoStage(r, "answered")
     \/ /\ EndWithError(r) /\ UNCHANGED ask
  /\ UNCHANGED <<remembered, episodes, cached>>

\* The client of a stream disconnects: the task ends at its next await.
Disconnect(r) ==
  /\ r \in Streamed /\ ask[r].pc \in InFlight
  /\ GoStage(r, "cancelled")
  /\ UNCHANGED <<told, remembered, episodes, cached>>

PipelineStep(r) ==
  \/ LoadMemory(r) \/ Rewrite(r) \/ LoadHints(r) \/ LookUp(r) \/ RunAgent(r) \/ Ground(r)
  \/ Remember(r) \/ RecordEpisode(r) \/ StoreAnswer(r) \/ Respond(r) \/ Stream(r)

PipelineNext ==
  \/ \E r \in Ask : Receive(r) \/ PipelineStep(r) \/ SendStatus(r) \/ Disconnect(r)
  \/ Forget

\* Each await of a request ends: databases, Redis and models have timeouts.
PipelineFairness == \A r \in Ask : WF_pipelineVars(PipelineStep(r))

PipelineSpec == PipelineInit /\ [][PipelineNext]_pipelineVars /\ PipelineFairness

-----------------------------------------------------------------------------
(* Properties *)

\* What the memory says was answered is what the client was or will be told,
\* abstentions included; the client may have gone by then.
MemoryTellsWhatWasSaid ==
  \A e \in remembered : ask[e.of].answer = {e.answer}

\* Only complete answers that grounding let pass are served to others, however
\* often they were found in the cache and stored again.
OnlyGoodAnswersAreShared ==
  \A r \in Ask : ask[r].hit =>
    AnswerOf(r).complete /\ AnswerOf(r).text /\ ~AnswerOf(r).abstained

\* Episodes feed what the system learns: one that says success is about an
\* answer of its own that was complete and not withheld, and one that says
\* cache_hit about an answer somebody else had made.
EpisodesAreTruthful ==
  \A e \in episodes :
    /\ e.outcome = "success" => e.answer.by = e.of /\ e.answer.complete /\ ~e.answer.abstained
    /\ e.outcome = "cache_hit" => e.answer.by # e.of
    /\ ask[e.of].answer = {e.answer}

\* A client is told the whole answer before "done", and nothing after an error.
StreamsAreWhole ==
  \A r \in Ask :
    /\ told[r].last = "done" => told[r].chars = IF AnswerOf(r).text THEN AnswerChars ELSE 0
    /\ told[r].last = "error" => told[r].chars = 0 /\ ask[r].pc \in {"failed", "refused"}

\* Every request ends for its client, unless that has gone.
EveryQueryEnds ==
  \A r \in Ask : StageIs(r, "memory") ~> (Sent(r) \/ StageIs(r, "cancelled"))

\* One answer is told of a request, to all who keep it: the client gets it
\* whole, the memory and the episode are about that answer and no other,
\* whoever cancelled, failed or asked the same meanwhile.
OneAnswerIsTold ==
  /\ PipelineTypeOK
  /\ MemoryTellsWhatWasSaid /\ EpisodesAreTruthful /\ StreamsAreWhole
=============================================================================
