----------------------------- MODULE Serving_proofs -----------------------------
(***************************************************************************)
(* Proofs about the parts that serve a query, for any number of requests,  *)
(* clients and calls, and about the limits that guard them, whatever the   *)
(* callers, limits and faults.                                             *)
(***************************************************************************)
EXTENDS QueryPipeline, OrchestratorSingleton, ModelServices, ReportFiles,
        AnswerGrounding, RateLimiter, Lists_proofs, FiniteSetTheorems, TLAPS

-----------------------------------------------------------------------------
(* The pipeline: one answer is told of a request to all who keep it, and    *)
(* only complete and checked answers are shared.  An entry of the memory,   *)
(* the episodes or the cache is written at a stage after which the answer   *)
(* of its request does not change.  That, and what a request may have at    *)
(* each stage, is inductive.                                                *)

Progress == [pc : Stage, manager : BOOLEAN, hit : BOOLEAN, answer : SUBSET Answer]
Received == [chars : 0..AnswerChars, last : {"nothing", "status", "token", "done", "error"}]

\* The stages before the agent has answered, those that have an answer, and those
\* at which something may have been kept of it.
Before == {"new", "memory", "rewrite", "hints", "lookup", "agent", "failed", "refused"}
Having == {"ground", "remember", "record", "store", "respond", "answered"}
Kept == {"record", "store", "respond", "answered", "cancelled"}

Good(a) == a.complete /\ a.text /\ ~a.abstained

\* What a request has at its stage.
AskOK(r) ==
  /\ ask[r].answer = {} \/ \E a \in Answer : ask[r].answer = {a}
  /\ ask[r].pc \in Before => ask[r].answer = {} /\ ~ask[r].hit
  /\ ask[r].pc \in Having => ask[r].answer # {}
  /\ ask[r].hit => ask[r].answer # {} /\ \A a \in ask[r].answer : a.by # r /\ Good(a)
  /\ ~ask[r].hit => \A a \in ask[r].answer : a.by = r
  /\ ask[r].pc = "ground" => ~ask[r].hit
  /\ ask[r].pc = "store" => ~ask[r].hit /\ \A a \in ask[r].answer : Good(a)

\* What its client has received.
ToldOK(r) ==
  /\ ask[r].pc \notin {"respond", "answered", "cancelled"} => told[r].chars = 0
  /\ ask[r].pc = "respond" => told[r].chars <= Tokens(r)
  /\ told[r].last = "done" => ask[r].pc = "answered" /\ told[r].chars = Tokens(r)
  /\ told[r].last = "error" => ask[r].pc \in {"failed", "refused"}

\* An entry is about the answer of its request, which is fixed.
IsAbout(e) == ask[e.of].pc \in Kept /\ ask[e.of].answer = {e.answer}

EpisodeOK(e) ==
  /\ e.outcome = "success" => e.answer.by = e.of /\ e.answer.complete /\ ~e.answer.abstained
  /\ e.outcome = "cache_hit" => e.answer.by # e.of

CachedOK(c) == Good(c.answer) /\ ask[c.answer.by].pc \in Kept

StoreTypes ==
  /\ remembered \subseteq [of : Ask, answer : Answer]
  /\ episodes \subseteq [of : Ask, answer : Answer,
                         outcome : {"success", "abstained", "stopped", "cache_hit"}]
  /\ cached \subseteq [of : {Wants[r] : r \in Ask}, answer : Answer]

StoresOK ==
  /\ StoreTypes
  /\ \A e \in remembered : IsAbout(e)
  /\ \A e \in episodes : IsAbout(e) /\ EpisodeOK(e)
  /\ \A c \in cached : CachedOK(c)

PipelineInv ==
  /\ ask \in [Ask -> Progress] /\ told \in [Ask -> Received]
  /\ \A r \in Ask : AskOK(r) /\ ToldOK(r)
  /\ StoresOK

-----------------------------------------------------------------------------
(* Answers *)

LEMMA AnswerOfIs ==
  ASSUME NEW r, NEW a \in Answer, ask[r].answer = {a}
  PROVE  AnswerOf(r) = a
BY DEF AnswerOf

LEMMA AnswersAreSingle ==
  ASSUME NEW r, AskOK(r)
  PROVE  /\ Cardinality(ask[r].answer) <= 1
         /\ ask[r].answer # {} => AnswerOf(r) \in Answer /\ ask[r].answer = {AnswerOf(r)}
<1>1. Cardinality({}) = 0 /\ \A a : Cardinality({a}) = 1
  BY FS_EmptySet, FS_Singleton
<1>2. CASE ask[r].answer = {}
  BY <1>1, <1>2
<1>3. ASSUME NEW a \in Answer, ask[r].answer = {a}
      PROVE  /\ Cardinality(ask[r].answer) <= 1
             /\ AnswerOf(r) \in Answer /\ ask[r].answer = {AnswerOf(r)}
  <2>1. AnswerOf(r) = a
    BY <1>3, AnswerOfIs
  <2>2. Cardinality(ask[r].answer) = 1
    BY <1>1, <1>3
  <2>. QED BY <1>3, <2>1, <2>2
<1>. QED BY <1>2, <1>3 DEF AskOK

LEMMA TokensAreBounded ==
  ASSUME NEW r
  PROVE  Tokens(r) \in 0..AnswerChars
BY PipelineAssumption DEF Tokens

\* The invariant says all the properties do.
LEMMA InvIsEnough ==
  ASSUME PipelineInv
  PROVE  OneAnswerIsTold /\ OnlyGoodAnswersAreShared
<1>. USE DEF PipelineInv
<1>1. PipelineTypeOK
  BY AnswersAreSingle DEF PipelineTypeOK, Progress, Received, StoresOK, StoreTypes
<1>2. MemoryTellsWhatWasSaid /\ EpisodesAreTruthful
  BY DEF MemoryTellsWhatWasSaid, EpisodesAreTruthful, StoresOK, IsAbout, EpisodeOK
<1>3. StreamsAreWhole
  BY DEF StreamsAreWhole, ToldOK, Tokens
<1>4. OnlyGoodAnswersAreShared
  <2>. SUFFICES ASSUME NEW r \in Ask, ask[r].hit
                PROVE  Good(AnswerOf(r))
    BY DEF OnlyGoodAnswersAreShared, Good
  <2>1. ask[r].answer # {} /\ \A a \in ask[r].answer : Good(a)
    BY DEF AskOK
  <2>. QED BY <2>1, AnswersAreSingle
<1>. QED BY <1>1, <1>2, <1>3, <1>4 DEF OneAnswerIsTold

LEMMA PipelineInitInv == PipelineInit => PipelineInv
<1>. SUFFICES ASSUME PipelineInit PROVE PipelineInv
  OBVIOUS
<1>. USE DEF PipelineInit, NoAnswer
<1>1. ask \in [Ask -> Progress]
  BY DEF Progress, Stage
<1>2. told \in [Ask -> Received]
  BY PipelineAssumption DEF Received
<1>3. \A r \in Ask : AskOK(r) /\ ToldOK(r)
  BY DEF AskOK, ToldOK, Before, Having
<1>4. StoresOK
  BY DEF StoresOK, StoreTypes
<1>. QED BY <1>1, <1>2, <1>3, <1>4 DEF PipelineInv

-----------------------------------------------------------------------------
(* What a step must show *)

\* A step of r leaves the others alone.
OnlyOf(r) ==
  /\ ask' \in [Ask -> Progress] /\ told' \in [Ask -> Received]
  /\ \A q \in Ask : q # r => ask'[q] = ask[q] /\ told'[q] = told[q]

\* It goes to a stage with the answer it has, or with another.
Goes(r, pc) == ask'[r].pc = pc /\ ask'[r].hit = ask[r].hit /\ ask'[r].answer = ask[r].answer

LEMMA OthersKeepTheirs ==
  ASSUME PipelineInv, NEW r \in Ask, OnlyOf(r)
  PROVE  \A q \in Ask : q # r => AskOK(q)' /\ ToldOK(q)'
BY DEF PipelineInv, OnlyOf, AskOK, ToldOK, Tokens, AnswerOf

\* What is kept stays true, unless r changes an answer of which something is kept.
LEMMA EntriesStayTrue ==
  ASSUME PipelineInv, NEW r \in Ask, OnlyOf(r),
         ask[r].pc \in Kept => ask'[r].pc \in Kept /\ ask'[r].answer = ask[r].answer
  PROVE  /\ \A e \in remembered : IsAbout(e)'
         /\ \A e \in episodes : IsAbout(e)' /\ EpisodeOK(e)'
         /\ \A c \in cached : CachedOK(c)'
<1>1. \A q \in Ask : ask[q].pc \in Kept => ask'[q].pc \in Kept /\ ask'[q].answer = ask[q].answer
  BY DEF OnlyOf
<1>2. \A c \in cached : c.answer.by \in Ask
  BY DEF PipelineInv, StoresOK, StoreTypes, Answer
<1>3. \A e \in remembered \cup episodes : e.of \in Ask
  BY DEF PipelineInv, StoresOK, StoreTypes
<1>. QED BY <1>1, <1>2, <1>3 DEF PipelineInv, StoresOK, IsAbout, EpisodeOK, CachedOK

\* A step that keeps nothing new.
LEMMA StepWithoutStore ==
  ASSUME PipelineInv, NEW r \in Ask, OnlyOf(r), AskOK(r)', ToldOK(r)',
         UNCHANGED <<remembered, episodes, cached>>,
         ask[r].pc \in Kept => ask'[r].pc \in Kept /\ ask'[r].answer = ask[r].answer
  PROVE  PipelineInv'
<1>1. \A q \in Ask : AskOK(q)' /\ ToldOK(q)'
  BY OthersKeepTheirs
<1>2. StoresOK'
  BY EntriesStayTrue DEF PipelineInv, StoresOK, StoreTypes
<1>. QED BY <1>1, <1>2 DEF PipelineInv, OnlyOf

\* GoStage, and the EXCEPTs that set the memory manager too.
LEMMA GoingIs ==
  ASSUME PipelineInv, NEW r \in Ask, NEW pc \in Stage,
         \/ GoStage(r, pc)
         \/ ask' = [ask EXCEPT ![r].pc = pc, ![r].manager = TRUE]
  PROVE  /\ ask' \in [Ask -> Progress] /\ Goes(r, pc)
         /\ \A q \in Ask : q # r => ask'[q] = ask[q]
<1>1. ask \in [Ask -> Progress] /\ ask[r] \in Progress
  BY DEF PipelineInv
<1>. QED BY <1>1 DEF GoStage, Goes, Progress

-----------------------------------------------------------------------------
(* Before and around the agent *)

\* Stages without an answer, and the end of a stream whose client left.
LEMMA PlainMoves ==
  ASSUME PipelineInv, NEW r \in Ask, NEW pc \in Stage,
         UNCHANGED <<told, remembered, episodes, cached>>,
         \/ GoStage(r, pc) \/ ask' = [ask EXCEPT ![r].pc = pc, ![r].manager = TRUE],
         \/ ask[r].pc \in Before \ {"failed", "refused"} /\ pc \in Before
         \/ ask[r].pc = "ground" /\ pc = "remember"
         \/ ask[r].pc \in InFlight /\ pc = "cancelled"
  PROVE  PipelineInv'
<1>1. /\ ask' \in [Ask -> Progress] /\ Goes(r, pc)
      /\ \A q \in Ask : q # r => ask'[q] = ask[q]
  BY GoingIs
<1>2. OnlyOf(r)
  BY <1>1 DEF OnlyOf, PipelineInv
<1>3. AskOK(r) /\ ToldOK(r)
  BY DEF PipelineInv
<1>4. AskOK(r)'
  BY <1>1, <1>3 DEF AskOK, Goes, Before, Having, InFlight, Stage
<1>5. ToldOK(r)'
  BY <1>1, <1>3 DEF ToldOK, Goes, Before, InFlight, Stage
<1>6. ask[r].pc \in Kept => ask'[r].pc \in Kept /\ ask'[r].answer = ask[r].answer
  BY <1>1 DEF Goes, Kept, Before
<1>. QED BY <1>2, <1>4, <1>5, <1>6, StepWithoutStore

\* Stages that set the answer: of those nothing has been kept so far.
LEMMA AnswerIsSet ==
  ASSUME PipelineInv, NEW r \in Ask, UNCHANGED <<told, remembered, episodes, cached>>,
         ask[r].pc \in {"lookup", "agent", "ground"},
         NEW h \in BOOLEAN, NEW pc \in {"ground", "remember"}, NEW a \in Answer,
         \/ ask' = [ask EXCEPT ![r].pc = pc, ![r].answer = {a}] /\ h = ask[r].hit
         \/ ask' = [ask EXCEPT ![r].pc = pc, ![r].hit = TRUE, ![r].answer = {a}] /\ h = TRUE,
         h => pc = "remember" /\ a.by # r /\ Good(a),
         ~h => a.by = r
  PROVE  PipelineInv'
<1>0. /\ ask \in [Ask -> Progress] /\ ask[r] \in Progress /\ pc \in Stage
      /\ {a} \in SUBSET Answer
  BY DEF PipelineInv, Stage
<1>1. /\ ask' \in [Ask -> Progress] /\ \A q \in Ask : q # r => ask'[q] = ask[q]
      /\ ask'[r].pc = pc /\ ask'[r].hit = h /\ ask'[r].answer = {a}
  BY <1>0 DEF Progress
<1>2. OnlyOf(r)
  BY <1>1 DEF OnlyOf, PipelineInv
<1>3. AskOK(r)'
  BY <1>1 DEF AskOK, Before, Having
<1>4. ToldOK(r)'
  BY <1>1 DEF PipelineInv, ToldOK
<1>5. ask[r].pc \notin Kept
  BY DEF Kept
<1>. QED BY <1>2, <1>3, <1>4, <1>5, StepWithoutStore

LEMMA AgentStagesKeepInv ==
  ASSUME PipelineInv, NEW r \in Ask,
         \/ Receive(r) \/ LoadMemory(r) \/ Rewrite(r) \/ LoadHints(r)
         \/ LookUp(r) \/ RunAgent(r) \/ Ground(r) \/ Disconnect(r)
  PROVE  PipelineInv'
<1>0. ask \in [Ask -> Progress] /\ ask[r] \in Progress /\ AskOK(r) /\ StoresOK
  BY DEF PipelineInv
<1>. USE DEF StageIs
<1>1. CASE Receive(r) \/ Rewrite(r) \/ LoadHints(r) \/ Disconnect(r)
  <2>1. PICK pc \in Stage :
          /\ GoStage(r, pc)
          /\ \/ ask[r].pc \in Before \ {"failed", "refused"} /\ pc \in Before
             \/ ask[r].pc \in InFlight /\ pc = "cancelled"
    BY <1>1 DEF Receive, Rewrite, LoadHints, Disconnect, Before, Stage
  <2>. QED BY <1>1, <2>1, PlainMoves DEF Receive, Rewrite, LoadHints, Disconnect
<1>2. CASE LoadMemory(r)
  <2>1. PICK pc \in {"refused", "rewrite", "lookup"} :
          GoStage(r, pc) \/ ask' = [ask EXCEPT ![r].pc = pc, ![r].manager = TRUE]
    BY <1>2 DEF LoadMemory, GoStage
  <2>. QED BY <1>2, <2>1, PlainMoves DEF LoadMemory, Before, Stage
<1>3. CASE LookUp(r)
  <2>1. CASE GoStage(r, "agent")
    BY <1>3, <2>1, PlainMoves DEF LookUp, Before, Stage
  <2>2. ASSUME NEW k \in cached,
               ask' = [ask EXCEPT ![r].pc = "remember", ![r].hit = TRUE, ![r].answer = {k.answer}]
        PROVE  PipelineInv'
    <3>2. k.answer \in Answer /\ Good(k.answer) /\ ask[k.answer.by].pc \in Kept
      BY <1>0 DEF StoresOK, StoreTypes, CachedOK
    <3>3. k.answer.by # r
      BY <1>3, <3>2 DEF LookUp, Kept
    <3>. QED BY <1>3, <2>2, <3>2, <3>3, AnswerIsSet DEF LookUp
  <2>. QED BY <1>3, <2>1, <2>2 DEF LookUp
<1>4. CASE RunAgent(r)
  <2>1. CASE GoStage(r, "failed")
    BY <1>4, <2>1, PlainMoves DEF RunAgent, Before, Stage
  <2>2. ASSUME NEW complete \in BOOLEAN, NEW text \in BOOLEAN,
               ask' = [ask EXCEPT ![r].pc = "ground",
                         ![r].answer = {[by |-> r, complete |-> complete, text |-> text,
                                         abstained |-> FALSE]}]
        PROVE  PipelineInv'
    <3>. DEFINE a == [by |-> r, complete |-> complete, text |-> text, abstained |-> FALSE]
    <3>1. a \in Answer /\ a.by = r
      BY DEF Answer
    <3>2. ~ask[r].hit /\ ask[r].pc = "agent"
      BY <1>0, <1>4 DEF RunAgent, AskOK, Before
    <3>3. ask' = [ask EXCEPT ![r].pc = "ground", ![r].answer = {a}] /\ ask[r].hit = FALSE
      BY <1>0, <2>2, <3>2 DEF Progress
    <3>. HIDE DEF a
    <3>. QED BY <1>4, <3>1, <3>2, <3>3, AnswerIsSet DEF RunAgent
  <2>. QED BY <1>4, <2>1, <2>2 DEF RunAgent
<1>5. CASE Ground(r)
  <2>1. CASE GoStage(r, "remember")
    BY <1>5, <2>1, PlainMoves DEF Ground, Stage
  <2>2. CASE ask' = [ask EXCEPT ![r].pc = "remember",
                       ![r].answer = {[AnswerOf(r) EXCEPT !.abstained = TRUE, !.text = TRUE]}]
    <3>. DEFINE a == [AnswerOf(r) EXCEPT !.abstained = TRUE, !.text = TRUE]
    <3>1. ~ask[r].hit /\ ask[r].pc = "ground" /\ AnswerOf(r) \in Answer /\ AnswerOf(r).by = r
      BY <1>0, <1>5, AnswersAreSingle DEF Ground, AskOK, Having
    <3>2. a \in Answer /\ a.by = r
      BY <3>1 DEF Answer
    <3>3. ask' = [ask EXCEPT ![r].pc = "remember", ![r].answer = {a}] /\ ask[r].hit = FALSE
      BY <1>0, <2>2, <3>1 DEF Progress
    <3>. HIDE DEF a
    <3>. QED BY <1>5, <3>1, <3>2, <3>3, AnswerIsSet DEF Ground
  <2>. QED BY <1>5, <2>1, <2>2 DEF Ground
<1>. QED BY <1>1, <1>2, <1>3, <1>4, <1>5

-----------------------------------------------------------------------------
(* What a query leaves behind *)

LEMMA KeepingKeepsInv ==
  ASSUME PipelineInv, NEW r \in Ask, Remember(r) \/ RecordEpisode(r) \/ StoreAnswer(r)
  PROVE  PipelineInv'
<1>. USE DEF StageIs
<1>0. /\ AskOK(r) /\ ToldOK(r) /\ StoresOK /\ told \in [Ask -> Received]
      /\ ask[r].pc \in {"remember", "record", "store"}
  BY DEF PipelineInv, Remember, RecordEpisode, StoreAnswer
<1>1. PICK pc \in {"record", "store", "respond"} :
        /\ GoStage(r, pc)
        /\ pc = "store" => ~ask[r].hit /\ ShouldCache(r)
  BY DEF Remember, RecordEpisode, StoreAnswer
<1>2. AnswerOf(r) \in Answer /\ ask[r].answer = {AnswerOf(r)}
  BY <1>0, AnswersAreSingle DEF AskOK, Having
<1>3. OnlyOf(r) /\ Goes(r, pc)
  BY <1>0, <1>1, GoingIs DEF OnlyOf, Stage, Remember, RecordEpisode, StoreAnswer
<1>4. AskOK(r)'
  BY <1>0, <1>1, <1>2, <1>3 DEF AskOK, Goes, Before, Having, ShouldCache, Good
<1>5. ToldOK(r)'
  <2>1. told'[r] = told[r] /\ told[r].chars = 0
    BY <1>0 DEF ToldOK, Remember, RecordEpisode, StoreAnswer
  <2>2. told[r].last \notin {"done", "error"} /\ Tokens(r)' \in Nat
    BY <1>0, PipelineAssumption DEF ToldOK, Tokens
  <2>. QED BY <1>3, <2>1, <2>2 DEF ToldOK, Goes
<1>6. \A q \in Ask : AskOK(q)' /\ ToldOK(q)'
  BY <1>3, <1>4, <1>5, OthersKeepTheirs
<1>7. /\ \A e \in remembered : IsAbout(e)'
      /\ \A e \in episodes : IsAbout(e)' /\ EpisodeOK(e)'
      /\ \A k \in cached : CachedOK(k)'
  BY <1>3, EntriesStayTrue DEF Goes, Kept
<1>8. ask'[r].answer = {AnswerOf(r)} /\ ask'[r].pc \in Kept
  BY <1>2, <1>3 DEF Goes, Kept
<1>9. StoresOK'
  <2>1. CASE Remember(r)
    <3>1. /\ UNCHANGED <<episodes, cached>>
          /\ remembered' \subseteq remembered \cup {[of |-> r, answer |-> AnswerOf(r)]}
      BY <2>1 DEF Remember
    <3>. QED BY <1>0, <1>2, <1>7, <1>8, <3>1 DEF StoresOK, StoreTypes, IsAbout
  <2>2. CASE RecordEpisode(r)
    <3>1. /\ Outcome(r) \in {"success", "abstained", "stopped", "cache_hit"}
          /\ Outcome(r) = "success" =>
               ~ask[r].hit /\ AnswerOf(r).complete /\ ~AnswerOf(r).abstained
          /\ Outcome(r) = "cache_hit" => ask[r].hit
      BY DEF Outcome
    <3>2. PICK new \in [of : Ask, answer : Answer,
                       outcome : {"success", "abstained", "stopped", "cache_hit"}] :
            new = [of |-> r, answer |-> AnswerOf(r), outcome |-> Outcome(r)]
      BY <1>2, <3>1
    <3>3. new.of = r /\ new.answer = AnswerOf(r) /\ new.outcome = Outcome(r)
      BY <3>2
    <3>4. UNCHANGED <<remembered, cached>> /\ episodes' \subseteq episodes \cup {new}
      BY <2>2, <3>2 DEF RecordEpisode
    <3>5. IsAbout(new)'
      BY <1>8, <3>3 DEF IsAbout
    <3>6. EpisodeOK(new)'
      BY <1>0, <1>2, <3>1, <3>3 DEF EpisodeOK, AskOK
    <3>. QED BY <1>0, <1>7, <3>4, <3>5, <3>6 DEF StoresOK, StoreTypes
  <2>3. CASE StoreAnswer(r)
    <3>1. /\ UNCHANGED <<remembered, episodes>>
          /\ cached' \subseteq cached \cup {[of |-> Wants[r], answer |-> AnswerOf(r)]}
      BY <2>3 DEF StoreAnswer
    <3>2. Good(AnswerOf(r)) /\ AnswerOf(r).by = r
      BY <1>0, <1>2, <2>3 DEF StoreAnswer, AskOK
    <3>. QED BY <1>0, <1>2, <1>7, <1>8, <3>1, <3>2 DEF StoresOK, StoreTypes, CachedOK
  <2>. QED BY <2>1, <2>2, <2>3
<1>. QED BY <1>3, <1>6, <1>9 DEF PipelineInv, OnlyOf

-----------------------------------------------------------------------------
(* What the client sees *)

LEMMA TellingKeepsInv ==
  ASSUME PipelineInv, NEW r \in Ask, Respond(r) \/ SendStatus(r) \/ Stream(r)
  PROVE  PipelineInv'
<1>. USE DEF StageIs
<1>0. /\ ask \in [Ask -> Progress] /\ told \in [Ask -> Received] /\ told[r] \in Received
      /\ AskOK(r) /\ ToldOK(r) /\ Tokens(r) \in 0..AnswerChars
      /\ AnswerChars \in Nat /\ ChunkChars \in Nat
  BY TokensAreBounded, PipelineAssumption DEF PipelineInv
<1>1. UNCHANGED <<remembered, episodes, cached>>
  BY DEF Respond, SendStatus, Stream
<1>2. PICK n \in 0..AnswerChars, last \in {"status", "token", "done", "error"} :
        /\ told' \in [Ask -> Received] /\ told'[r].chars = n /\ told'[r].last = last
        /\ \A q \in Ask : q # r => told'[q] = told[q]
        /\ \/ /\ ask' = ask /\ last = "status" /\ n = told[r].chars
           \/ /\ ask' = ask /\ last = "error" /\ n = told[r].chars
              /\ ask[r].pc \in {"failed", "refused"}
           \/ /\ ask' = ask /\ last = "token" /\ ask[r].pc = "respond" /\ n <= Tokens(r)
           \/ /\ GoStage(r, "answered") /\ last = "done" /\ ask[r].pc = "respond"
              /\ n = Tokens(r)
  <2>1. CASE Respond(r) /\ ask[r].pc = "respond"
    BY <1>0, <2>1 DEF Respond, Received
  <2>2. CASE Respond(r) /\ ask[r].pc # "respond"
    BY <1>0, <2>2 DEF Respond, Received
  <2>3. CASE SendStatus(r)
    BY <1>0, <2>3 DEF SendStatus, Received
  <2>4. CASE Stream(r) /\ ask[r].pc = "respond" /\ told[r].chars < Tokens(r)
    <3>1. PICK n \in 0..AnswerChars : n = Smaller(told[r].chars + ChunkChars, Tokens(r))
      BY <1>0, <2>4 DEF Smaller, Received
    <3>2. n <= Tokens(r)
      BY <1>0, <3>1 DEF Smaller, Received
    <3>3. told' = [told EXCEPT ![r].chars = n, ![r].last = "token"] /\ ask' = ask
      BY <1>0, <2>4, <3>1 DEF Stream, EndWithError, Received
    <3>. QED BY <1>0, <2>4, <3>2, <3>3 DEF Received
  <2>5. CASE Stream(r) /\ ask[r].pc = "respond" /\ told[r].chars >= Tokens(r)
    <3>1. told[r].chars = Tokens(r)
      BY <1>0, <2>5 DEF ToldOK, Received
    <3>2. told' = [told EXCEPT ![r].last = "done"] /\ GoStage(r, "answered")
      BY <1>0, <2>5 DEF Stream, EndWithError, Received
    <3>. QED BY <1>0, <2>5, <3>1, <3>2 DEF Received
  <2>6. CASE Stream(r) /\ ask[r].pc # "respond"
    BY <1>0, <2>6 DEF Stream, EndWithError, Received
  <2>7. told[r].chars \in Int /\ Tokens(r) \in Int
    BY <1>0 DEF Received
  <2>. QED BY <2>1, <2>2, <2>3, <2>4, <2>5, <2>6, <2>7
<1>4. /\ ask' \in [Ask -> Progress] /\ \A q \in Ask : q # r => ask'[q] = ask[q]
      /\ \/ Goes(r, ask[r].pc) /\ last # "done"
         \/ Goes(r, "answered") /\ ask[r].pc = "respond" /\ last = "done"
  BY <1>0, <1>2, GoingIs DEF Goes, Stage
<1>5. OnlyOf(r)
  BY <1>2, <1>4 DEF OnlyOf
<1>6. AskOK(r)'
  BY <1>0, <1>4 DEF AskOK, Goes, Before, Having
<1>7. ask'[r].answer = ask[r].answer /\ Tokens(r)' = Tokens(r)
  BY <1>4 DEF Goes, Tokens, AnswerOf
<1>8. ToldOK(r)'
  BY <1>0, <1>2, <1>4, <1>7 DEF ToldOK, Goes
<1>9. ask[r].pc \in Kept => ask'[r].pc \in Kept /\ ask'[r].answer = ask[r].answer
  BY <1>4 DEF Goes, Kept
<1>. QED BY <1>1, <1>5, <1>6, <1>8, <1>9, StepWithoutStore

-----------------------------------------------------------------------------
(* The theorems *)

LEMMA PipelineStepKeepsInv == PipelineInv /\ [PipelineNext]_pipelineVars => PipelineInv'
<1>. SUFFICES ASSUME PipelineInv, [PipelineNext]_pipelineVars PROVE PipelineInv'
  OBVIOUS
<1>1. ASSUME NEW r \in Ask, Receive(r) \/ PipelineStep(r) \/ SendStatus(r) \/ Disconnect(r)
      PROVE  PipelineInv'
  BY <1>1, AgentStagesKeepInv, KeepingKeepsInv, TellingKeepsInv DEF PipelineStep
<1>2. CASE Forget
  <2>1. UNCHANGED <<ask, told, remembered, episodes>> /\ cached' \subseteq cached
    BY <1>2 DEF Forget
  <2>. QED BY <2>1 DEF PipelineInv, AskOK, ToldOK, Tokens, AnswerOf, StoresOK, StoreTypes,
                       IsAbout, EpisodeOK, CachedOK
<1>3. CASE UNCHANGED pipelineVars
  BY <1>3 DEF pipelineVars, PipelineInv, AskOK, ToldOK, Tokens, AnswerOf, StoresOK, StoreTypes,
              IsAbout, EpisodeOK, CachedOK
<1>. QED BY <1>1, <1>2, <1>3 DEF PipelineNext

\* What the memory and the episodes say of a request is the answer its client is
\* told, whole before "done", whoever cancels, fails or asks the same meanwhile
\* (query.py, _execute_query_with_memory and stream_query).
THEOREM OneAnswerIsToldToAll == PipelineSpec => []OneAnswerIsTold
<1>. QED BY PipelineInitInv, PipelineStepKeepsInv, InvIsEnough, PTL DEF PipelineSpec

\* What the cache gives to others was complete and let pass by grounding, however
\* often it was found and stored (query.py, _should_cache_answer).
THEOREM SharedAnswersAreGood == PipelineSpec => []OnlyGoodAnswersAreShared
<1>. QED BY PipelineInitInv, PipelineStepKeepsInv, InvIsEnough, PTL DEF PipelineSpec

-----------------------------------------------------------------------------
(* The orchestrator: only overlapping requests lose one that works, or open *)
(* a second graph store or pool, whatever fails.  As long as nobody is      *)
(* overtaken, what a request saw when it looked still holds when it acts:   *)
(* Quiet says so for each place between the two.                            *)

ClientState == [pc : ClientPC, pool : BOOLEAN, onLoop : BOOLEAN, got : SUBSET Orch, graph : BOOLEAN]

OnTheWay == ClientPC \ {"idle", "run"}

\* What the only request on its way has seen.
SeenIsSo(c) ==
  /\ client[c].pc \in {"claim", "graph", "openGraph", "assemble"} => theOrch = {}
  /\ client[c].pc \in {"graph", "openGraph", "assemble"} => initialized = TRUE
  /\ client[c].pc = "serve" => client[c].got = theOrch
  /\ client[c].pc = "opening" => thePool = FALSE
  /\ client[c].pc = "openGraph" => theGraph = FALSE

Quiet ==
  /\ \A c, d \in Client : client[c].pc \in OnTheWay /\ client[d].pc \in OnTheWay => c = d
  /\ \A c \in Client : SeenIsSo(c)
  /\ initialized = FALSE => theOrch = {}
  /\ poolsMade <= 1 /\ (thePool = FALSE => poolsMade = 0)
  /\ graphsMade <= 1 /\ (theGraph = FALSE => graphsMade = 0)

SingletonInv == SingletonTypeOK /\ (crowded = FALSE => Quiet)

\* The request of c goes from one place to another, the others stay.
Moves(c, from, to) ==
  /\ client[c].pc \in from /\ client' \in [Client -> ClientState] /\ client'[c].pc \in to
  /\ \A d \in Client : d # c => client'[d] = client[d]

-----------------------------------------------------------------------------
(* Types *)

\* A request with other values of its fields is one.
LEMMA RequestsStayTyped ==
  ASSUME SingletonTypeOK, NEW c \in Client
  PROVE  /\ \A pc \in ClientPC, p \in BOOLEAN :
              /\ [client EXCEPT ![c] = [@ EXCEPT !.pc = pc, !.pool = p]] \in [Client -> ClientState]
              /\ [client EXCEPT ![c].pc = pc, ![c].pool = p] \in [Client -> ClientState]
              /\ [client EXCEPT ![c].pc = pc, ![c].graph = p] \in [Client -> ClientState]
              /\ [client EXCEPT ![c].pc = pc, ![c].onLoop = p] \in [Client -> ClientState]
         /\ \A pc \in ClientPC, o \in SUBSET Orch :
              /\ [client EXCEPT ![c].pc = pc] \in [Client -> ClientState]
              /\ [client EXCEPT ![c].pc = pc, ![c].got = o] \in [Client -> ClientState]
              /\ [client EXCEPT ![c].pc = pc, ![c].onLoop = FALSE, ![c].got = o]
                    \in [Client -> ClientState]
<1>1. client \in [Client -> ClientState] /\ client[c] \in ClientState
  BY DEF SingletonTypeOK, ClientState
<1>. QED BY <1>1 DEF ClientState

LEMMA RequestKeepsTypes ==
  ASSUME SingletonTypeOK, NEW c \in Client, RequestStep(c)
  PROVE  SingletonTypeOK'
<1>. USE SingletonAssumption DEF SingletonTypeOK
<1>0. client \in [Client -> ClientState] /\ client[c] \in ClientState
  BY DEF ClientState
<1>a. SUFFICES /\ client' \in [Client -> ClientState] /\ outages' \in 0..MaxOutages
               /\ theOrch' \subseteq Orch /\ Cardinality(theOrch') <= 1
               /\ {initialized', theGraph', thePool'} \subseteq BOOLEAN
               /\ graphsMade' \in 0..2 /\ poolsMade' \in 0..2 /\ crowded' \in BOOLEAN
               /\ up' = up /\ lmStatus' = lmStatus
  BY DEF ClientState
<1>1. CASE Arrive(c)
  <2>1. client' \in [Client -> ClientState]
    BY <1>1, RequestsStayTyped DEF Arrive, ClientPC
  <2>. QED BY <1>1, <2>1 DEF Arrive
<1>2. CASE OpenPool(c)
  <2>0. /\ thePool' \in BOOLEAN /\ "check" \in ClientPC
        /\ client' = [client EXCEPT ![c].pc = "check", ![c].pool = thePool']
    BY <1>2 DEF OpenPool, ClientPC
  <2>1. client' \in [Client -> ClientState]
    BY <2>0, RequestsStayTyped, Zenon
  <2>. QED BY <1>2, <2>1 DEF OpenPool, AtMost2
<1>3. CASE CheckFlag(c)
  <2>1. client' \in [Client -> ClientState]
    BY <1>3, RequestsStayTyped DEF CheckFlag, ClientPC
  <2>. QED BY <1>3, <2>1 DEF CheckFlag
<1>4. CASE ClaimFlag(c)
  <2>1. client' \in [Client -> ClientState]
    BY <1>4, RequestsStayTyped DEF ClaimFlag, ClientPC
  <2>. QED BY <1>4, <2>1 DEF ClaimFlag
<1>5. CASE CheckGraph(c)
  <2>0. TRUE \in BOOLEAN /\ {"assemble", "openGraph"} \subseteq ClientPC
    BY DEF ClientPC
  <2>1. client' \in [Client -> ClientState]
    BY <1>5, <2>0, RequestsStayTyped DEF CheckGraph
  <2>. QED BY <1>5, <2>1 DEF CheckGraph
<1>6. CASE OpenGraph(c)
  <2>0. /\ theGraph' \in BOOLEAN /\ "assemble" \in ClientPC
        /\ client' = [client EXCEPT ![c].pc = "assemble", ![c].graph = theGraph']
    BY <1>6 DEF OpenGraph, ClientPC
  <2>1. client' \in [Client -> ClientState]
    BY <2>0, RequestsStayTyped, Zenon
  <2>. QED BY <1>6, <2>1 DEF OpenGraph, AtMost2
<1>7. CASE Assemble(c)
  <2>1. theOrch' \subseteq Orch /\ Cardinality(theOrch') <= 1 /\ outages' \in 0..MaxOutages
    <3>1. ToolsFor(c) \subseteq Tool
      BY DEF ToolsFor
    <3>2. [by |-> c, tools |-> ToolsFor(c)] \in Orch
      BY <3>1 DEF Orch
    <3>3. Cardinality({}) = 0 /\ Cardinality({[by |-> c, tools |-> ToolsFor(c)]}) = 1
      BY FS_Singleton, FS_EmptySet
    <3>4. outages' \in 0..MaxOutages
      BY <1>7 DEF Assemble
    <3>5. theOrch' = {} \/ theOrch' = {[by |-> c, tools |-> ToolsFor(c)]}
      BY <1>7 DEF Assemble
    <3>6. CASE theOrch' = {}
      BY <3>3, <3>4, <3>6
    <3>7. CASE theOrch' = {[by |-> c, tools |-> ToolsFor(c)]}
      <4>1. theOrch' \subseteq Orch
        BY <3>2, <3>7
      <4>2. Cardinality(theOrch') = 1
        BY <3>3, <3>7
      <4>. QED BY <3>4, <4>1, <4>2
    <3>. QED BY <3>5, <3>6, <3>7
  <2>2. client' \in [Client -> ClientState]
    <3>1. /\ theOrch' \in SUBSET Orch /\ "serve" \in ClientPC
          /\ client' = [client EXCEPT ![c].pc = "serve", ![c].got = theOrch']
      BY <1>7, <2>1 DEF Assemble, ClientPC
    <3>. QED BY <3>1, RequestsStayTyped, Zenon
  <2>. QED BY <1>7, <2>1, <2>2 DEF Assemble
<1>8. CASE Serve(c)
  <2>0. /\ TRUE \in BOOLEAN /\ FALSE \in BOOLEAN /\ {} \in SUBSET Orch
        /\ "run" \in ClientPC /\ "check" \in ClientPC /\ "idle" \in ClientPC
    BY DEF ClientPC
  <2>a. \/ client' = [client EXCEPT ![c].pc = "run", ![c].onLoop = FALSE]
        \/ client' = [client EXCEPT ![c].pc = "check", ![c].onLoop = TRUE]
        \/ client' = [client EXCEPT ![c].pc = "idle", ![c].onLoop = FALSE, ![c].got = {}]
    BY <1>8 DEF Serve, Run, Refuse
  <2>1. /\ [client EXCEPT ![c].pc = "run", ![c].onLoop = FALSE] \in [Client -> ClientState]
        /\ [client EXCEPT ![c].pc = "check", ![c].onLoop = TRUE] \in [Client -> ClientState]
    BY <2>0, RequestsStayTyped, Zenon
  <2>2. [client EXCEPT ![c].pc = "idle", ![c].onLoop = FALSE, ![c].got = {}]
          \in [Client -> ClientState]
    BY <2>0, RequestsStayTyped, Zenon
  <2>3. client' \in [Client -> ClientState]
    BY <2>a, <2>1, <2>2, Zenon
  <2>. QED BY <1>8, <2>3 DEF Serve
<1>9. CASE FinishRun(c)
  <2>1. client' \in [Client -> ClientState]
    BY <1>9, RequestsStayTyped DEF FinishRun, ClientPC
  <2>. QED BY <1>9, <2>1 DEF FinishRun
<1>. QED BY <1>1, <1>2, <1>3, <1>4, <1>5, <1>6, <1>7, <1>8, <1>9 DEF RequestStep

LEMMA WorldKeepsTypes ==
  ASSUME SingletonTypeOK, BackendFails \/ BackendRecovers \/ Readiness \/ Probe
  PROVE  SingletonTypeOK'
<1>1. UNCHANGED <<theOrch, initialized, theGraph, graphsMade, thePool, poolsMade, client, crowded>>
  BY DEF BackendFails, BackendRecovers, Readiness, Probe
<1>2. up' \subseteq Backend /\ outages' \in 0..MaxOutages
  BY SingletonAssumption DEF SingletonTypeOK, BackendFails, BackendRecovers, Readiness, Probe
<1>3. lmStatus' \in {"none", "healthy", "unhealthy"}
  BY DEF SingletonTypeOK, BackendFails, BackendRecovers, Readiness, Probe
<1>. QED BY <1>1, <1>2, <1>3 DEF SingletonTypeOK

-----------------------------------------------------------------------------
(* What each step does to the request *)

LEMMA ClientsAreTyped == SingletonTypeOK => client \in [Client -> ClientState]
BY DEF SingletonTypeOK, ClientState

LEMMA RequestsMove ==
  ASSUME SingletonTypeOK, SingletonTypeOK', NEW c \in Client
  PROVE  /\ Arrive(c) => Moves(c, {"idle"}, {"check", "opening"})
         /\ OpenPool(c) => Moves(c, {"opening"}, {"check"})
         /\ CheckFlag(c) => Moves(c, {"check"}, {"serve", "claim"})
         /\ ClaimFlag(c) => Moves(c, {"claim"}, {"graph"})
         /\ CheckGraph(c) => Moves(c, {"graph"}, {"assemble", "openGraph"})
         /\ OpenGraph(c) => Moves(c, {"openGraph"}, {"assemble"})
         /\ Assemble(c) => Moves(c, {"assemble"}, {"serve"})
         /\ Serve(c) => Moves(c, {"serve"}, {"run", "check", "idle"})
         /\ FinishRun(c) => Moves(c, {"run"}, {"idle"})
<1>. USE ClientsAreTyped DEF Moves, ClientAt
<1>1. client \in [Client -> ClientState] /\ client' \in [Client -> ClientState]
  BY DEF SingletonTypeOK, ClientState
<1>2. client[c] \in ClientState
  BY <1>1
<1>3. Arrive(c) => Moves(c, {"idle"}, {"check", "opening"})
  BY <1>1, <1>2 DEF Arrive, ClientState
<1>4. OpenPool(c) => Moves(c, {"opening"}, {"check"})
  BY <1>1, <1>2 DEF OpenPool, ClientState
<1>5. CheckFlag(c) => Moves(c, {"check"}, {"serve", "claim"})
  BY <1>1, <1>2 DEF CheckFlag, ClientState
<1>6. ClaimFlag(c) => Moves(c, {"claim"}, {"graph"})
  BY <1>1, <1>2 DEF ClaimFlag, ClientState
<1>7. CheckGraph(c) => Moves(c, {"graph"}, {"assemble", "openGraph"})
  BY <1>1, <1>2 DEF CheckGraph, ClientState
<1>8. OpenGraph(c) => Moves(c, {"openGraph"}, {"assemble"})
  BY <1>1, <1>2 DEF OpenGraph, ClientState
<1>9. Assemble(c) => Moves(c, {"assemble"}, {"serve"})
  BY <1>1, <1>2 DEF Assemble, ClientState
<1>10. Serve(c) => Moves(c, {"serve"}, {"run", "check", "idle"})
  BY <1>1, <1>2 DEF Serve, Run, Refuse, ClientState
<1>11. FinishRun(c) => Moves(c, {"run"}, {"idle"})
  BY <1>1, <1>2 DEF FinishRun, ClientState
<1>. QED BY <1>3, <1>4, <1>5, <1>6, <1>7, <1>8, <1>9, <1>10, <1>11

-----------------------------------------------------------------------------
(* Quiet is kept *)

\* The request that is on its way is the only one.
LEMMA TheOthersAreIdle ==
  ASSUME SingletonTypeOK, Quiet, NEW c \in Client, client[c].pc \in OnTheWay
  PROVE  \A d \in Client : d # c => client[d].pc \notin OnTheWay
BY DEF Quiet

\* What has to be shown of a step when nobody else is on the way.
LEMMA QuietSteps ==
  ASSUME SingletonTypeOK, NEW c \in Client, NEW from, NEW to, Moves(c, from, to),
         \A d \in Client : d # c => client[d].pc \notin OnTheWay,
         SeenIsSo(c)', initialized' = FALSE => theOrch' = {},
         poolsMade' <= 1, thePool' = FALSE => poolsMade' = 0,
         graphsMade' <= 1, theGraph' = FALSE => graphsMade' = 0
  PROVE  Quiet'
<1>1. \A d \in Client : d # c => client'[d].pc \notin OnTheWay
  BY DEF Moves
<1>2. \A d \in Client : SeenIsSo(d)'
  BY <1>1 DEF SeenIsSo, OnTheWay, ClientPC
<1>. QED BY <1>1, <1>2 DEF Quiet

LEMMA StepKeepsQuiet ==
  ASSUME SingletonTypeOK, SingletonTypeOK', Quiet, NEW c \in Client, RequestStep(c),
         crowded' = FALSE
  PROVE  Quiet'
<1>. USE RequestsMove, TheOthersAreIdle DEF ClientAt
<1>0. /\ client \in [Client -> ClientState] /\ client[c] \in ClientState
      /\ SeenIsSo(c) /\ (initialized = FALSE => theOrch = {})
      /\ poolsMade <= 1 /\ (thePool = FALSE => poolsMade = 0)
      /\ graphsMade <= 1 /\ (theGraph = FALSE => graphsMade = 0)
      /\ {initialized, theGraph, thePool} \subseteq BOOLEAN
      /\ poolsMade \in 0..2 /\ graphsMade \in 0..2
  BY DEF SingletonTypeOK, ClientState, Quiet
<1>1. CASE Arrive(c)
  <2>1. \A d \in Client : client[d].pc \notin OnTheWay
    BY <1>1 DEF Arrive, OnTheirWay, OnTheWay
  <2>2. Moves(c, {"idle"}, {"check", "opening"})
    BY <1>1
  <2>3. SeenIsSo(c)'
    BY <1>0, <1>1 DEF Arrive, SeenIsSo, ClientState
  <2>. QED BY <1>0, <1>1, <2>1, <2>2, <2>3, QuietSteps DEF Arrive
<1>2. CASE OpenPool(c)
  <2>1. Moves(c, {"opening"}, {"check"}) /\ SeenIsSo(c)'
    BY <1>2 DEF Moves, SeenIsSo
  <2>2. \A d \in Client : d # c => client[d].pc \notin OnTheWay
    BY <2>1 DEF Moves, OnTheWay, ClientPC
  <2>3. poolsMade' <= 1 /\ (thePool' = FALSE => poolsMade' = 0)
    <3>1. poolsMade = 0
      BY <1>0, <1>2 DEF OpenPool, SeenIsSo
    <3>2. CASE "db" \in up
      <4>1. thePool' = TRUE
        BY <1>2, <3>2 DEF OpenPool
      <4>2. poolsMade' = 1
        BY <1>2, <3>1, <3>2 DEF OpenPool, AtMost2
      <4>. QED BY <4>1, <4>2
    <3>3. CASE "db" \notin up
      BY <1>2, <3>1, <3>3 DEF OpenPool
    <3>. QED BY <3>2, <3>3
  <2>. QED BY <1>0, <1>2, <2>1, <2>2, <2>3, QuietSteps DEF OpenPool
<1>3. CASE CheckFlag(c)
  <2>1. Moves(c, {"check"}, {"serve", "claim"})
    BY <1>3
  <2>2. SeenIsSo(c)'
    BY <1>0, <1>3 DEF CheckFlag, SeenIsSo, ClientState
  <2>3. \A d \in Client : d # c => client[d].pc \notin OnTheWay
    BY <2>1 DEF Moves, OnTheWay, ClientPC
  <2>. QED BY <1>0, <1>3, <2>1, <2>2, <2>3, QuietSteps DEF CheckFlag
<1>4. CASE ClaimFlag(c)
  <2>1. Moves(c, {"claim"}, {"graph"})
    BY <1>4
  <2>2. theOrch' = {} /\ SeenIsSo(c)'
    BY <1>0, <1>4, <2>1 DEF ClaimFlag, SeenIsSo, Moves
  <2>3. \A d \in Client : d # c => client[d].pc \notin OnTheWay
    BY <2>1 DEF Moves, OnTheWay, ClientPC
  <2>. QED BY <1>0, <1>4, <2>1, <2>2, <2>3, QuietSteps DEF ClaimFlag
<1>5. CASE CheckGraph(c)
  <2>1. Moves(c, {"graph"}, {"assemble", "openGraph"})
    BY <1>5
  <2>2. SeenIsSo(c)'
    BY <1>0, <1>5 DEF CheckGraph, SeenIsSo, ClientState
  <2>3. \A d \in Client : d # c => client[d].pc \notin OnTheWay
    BY <2>1 DEF Moves, OnTheWay, ClientPC
  <2>. QED BY <1>0, <1>5, <2>1, <2>2, <2>3, QuietSteps DEF CheckGraph
<1>6. CASE OpenGraph(c)
  <2>1. Moves(c, {"openGraph"}, {"assemble"})
    BY <1>6
  <2>2. SeenIsSo(c)'
    BY <1>0, <1>6, <2>1 DEF OpenGraph, SeenIsSo, Moves
  <2>3. \A d \in Client : d # c => client[d].pc \notin OnTheWay
    BY <2>1 DEF Moves, OnTheWay, ClientPC
  <2>4. graphsMade' <= 1 /\ (theGraph' = FALSE => graphsMade' = 0)
    <3>1. graphsMade = 0
      BY <1>0, <1>6 DEF OpenGraph, SeenIsSo
    <3>2. CASE "graph" \in up
      <4>1. theGraph' = TRUE
        BY <1>6, <3>2 DEF OpenGraph
      <4>2. graphsMade' = 1
        BY <1>6, <3>1, <3>2 DEF OpenGraph, AtMost2
      <4>. QED BY <4>1, <4>2
    <3>3. CASE "graph" \notin up
      BY <1>6, <3>1, <3>3 DEF OpenGraph
    <3>. QED BY <3>2, <3>3
  <2>. QED BY <1>0, <1>6, <2>1, <2>2, <2>3, <2>4, QuietSteps DEF OpenGraph
<1>7. CASE Assemble(c)
  <2>1. Moves(c, {"assemble"}, {"serve"})
    BY <1>7
  <2>2. SeenIsSo(c)'
    BY <1>0, <1>7 DEF Assemble, SeenIsSo, ClientState
  <2>3. \A d \in Client : d # c => client[d].pc \notin OnTheWay
    BY <2>1 DEF Moves, OnTheWay, ClientPC
  <2>4. initialized' = TRUE
    BY <1>0, <1>7 DEF Assemble, SeenIsSo
  <2>. QED BY <1>0, <1>7, <2>1, <2>2, <2>3, <2>4, QuietSteps DEF Assemble
<1>8. CASE Serve(c)
  <2>1. Moves(c, {"serve"}, {"run", "check", "idle"})
    BY <1>8
  <2>2. SeenIsSo(c)' /\ (initialized' = FALSE => theOrch' = {})
    BY <1>0, <1>8, <2>1 DEF Serve, SeenIsSo, Moves
  <2>3. \A d \in Client : d # c => client[d].pc \notin OnTheWay
    BY <2>1 DEF Moves, OnTheWay, ClientPC
  <2>. QED BY <1>0, <1>8, <2>1, <2>2, <2>3, QuietSteps DEF Serve
<1>9. CASE FinishRun(c)
  <2>1. Moves(c, {"run"}, {"idle"})
    BY <1>9
  <2>2. \A d \in Client : client'[d] = client[d] \/ client'[d].pc = "idle"
    BY <2>1 DEF Moves
  <2>. QED BY <1>9, <2>2 DEF FinishRun, Quiet, SeenIsSo, OnTheWay
<1>. QED BY <1>1, <1>2, <1>3, <1>4, <1>5, <1>6, <1>7, <1>8, <1>9 DEF RequestStep

\* One step keeps the invariant; what overlaps, or overlapped, need not be quiet.
LEMMA SingletonStepKeepsInv == SingletonInv /\ [SingletonNext]_singletonVars => SingletonInv'
<1>. SUFFICES ASSUME SingletonInv, [SingletonNext]_singletonVars PROVE SingletonInv'
  OBVIOUS
<1>. USE DEF SingletonInv
<1>1. CASE BackendFails \/ BackendRecovers \/ Readiness \/ Probe
  <2>1. UNCHANGED <<theOrch, initialized, theGraph, graphsMade, thePool, poolsMade, client, crowded>>
    BY <1>1 DEF BackendFails, BackendRecovers, Readiness, Probe
  <2>2. Quiet => Quiet'
    BY <2>1 DEF Quiet, SeenIsSo
  <2>. QED BY <1>1, <2>1, <2>2, WorldKeepsTypes
<1>2. ASSUME NEW c \in Client, RequestStep(c) PROVE SingletonInv'
  <2>1. SingletonTypeOK'
    BY <1>2, RequestKeepsTypes
  <2>2. ASSUME crowded' = FALSE PROVE Quiet'
    <3>1. crowded = FALSE
      BY <1>2, <2>2 DEF SingletonTypeOK, RequestStep, Arrive, OpenPool, CheckFlag, ClaimFlag,
                        CheckGraph, OpenGraph, Assemble, Serve, FinishRun
    <3>. QED BY <1>2, <2>1, <2>2, <3>1, StepKeepsQuiet
  <2>. QED BY <2>1, <2>2
<1>3. CASE UNCHANGED singletonVars
  BY <1>3 DEF singletonVars, SingletonTypeOK, Quiet, SeenIsSo
<1>. QED BY <1>1, <1>2, <1>3 DEF SingletonNext

LEMMA SingletonInitInv == SingletonInit => SingletonInv
<1>. SUFFICES ASSUME SingletonInit PROVE SingletonInv
  OBVIOUS
<1>1. SingletonTypeOK
  <2>1. theOrch \subseteq Orch /\ Cardinality(theOrch) = 0
    BY FS_EmptySet DEF SingletonInit
  <2>2. outages \in 0..MaxOutages /\ graphsMade \in 0..2 /\ poolsMade \in 0..2
    BY SingletonAssumption DEF SingletonInit
  <2>3. client \in [Client -> ClientState]
    BY DEF SingletonInit, ClientState, ClientPC
  <2>4. /\ up \subseteq Backend /\ {initialized, theGraph, thePool} \subseteq BOOLEAN
        /\ lmStatus \in {"none", "healthy", "unhealthy"} /\ crowded \in BOOLEAN
    BY DEF SingletonInit
  <2>. QED BY <2>1, <2>2, <2>3, <2>4 DEF SingletonTypeOK, ClientState
<1>2. Quiet
  BY DEF SingletonInit, Quiet, SeenIsSo, OnTheWay
<1>. QED BY <1>1, <1>2 DEF SingletonInv

\* Only Assemble replaces the orchestrator, and while nobody overlaps it finds none.
LEMMA StepReplacesOnlyCrowded ==
  ASSUME SingletonInv, [SingletonNext]_singletonVars, theOrch # {}, theOrch' # theOrch
  PROVE  crowded
<1>1. PICK c \in Client : Assemble(c)
  BY DEF SingletonNext, singletonVars, BackendFails, BackendRecovers, Readiness, Probe,
         RequestStep, Arrive, OpenPool, CheckFlag, ClaimFlag, CheckGraph, OpenGraph, Serve,
         FinishRun
<1>2. client[c].pc = "assemble"
  BY <1>1 DEF Assemble, ClientAt
<1>3. ~Quiet
  BY <1>2 DEF Quiet, SeenIsSo
<1>. QED BY <1>3 DEF SingletonInv, SingletonTypeOK

\* Without overlapping requests there is one orchestrator, one graph store and
\* one pool for the life of the process, through every outage and for any number
\* of clients (query.py, _get_or_create_orchestrator; dependencies.py).
THEOREM OnlyOverlapLosesWhatWorks == SingletonSpec => OnlyOverlapRebuilds
<1>1. SingletonInit => SingletonInv
  BY SingletonInitInv
<1>2. SingletonInv => SingletonTypeOK /\ OnlyOverlapOpensTwice
  BY DEF SingletonInv, SingletonTypeOK, Quiet, OnlyOverlapOpensTwice
<1>3. SingletonInv /\ [SingletonNext]_singletonVars
        => [theOrch # {} /\ theOrch' # theOrch => crowded]_singletonVars
  BY StepReplacesOnlyCrowded
<1>. QED
  BY <1>1, <1>2, <1>3, SingletonStepKeepsInv, PTL
     DEF SingletonSpec, OnlyOverlapRebuilds, OnlyOverlapReplacesTheOrchestrator

-----------------------------------------------------------------------------
(* The model services: the outages a request has met are its attempts so    *)
(* far, and what a health check has heard is still true.                    *)

Requests == [call : Calls, state : {"new", "trying", "answered", "failed", "refused"},
             tries : 0..2, rounds : 0..1, outages : 0..4]

\* Each attempt before this one met an outage.
OutagesAreCounted ==
  /\ request.state = "new" => request.tries = 0 /\ request.rounds = 0 /\ request.outages = 0
  /\ request.state = "trying" =>
       /\ request.tries < AttemptsOf(request.call) /\ request.rounds < RoundsOf(request.call)
       /\ request.outages =
            request.tries + (IF request.rounds = 0 THEN 0 ELSE AttemptsOf(request.call))

\* What a check has heard is still true.
HeardIsSo ==
  crashes = 0 =>
    \A i \in 1..Len(replies) : replies[i] = "ok" => service[Order(checker)[i]] = "ready"

ServicesInv ==
  /\ service \in [Service -> {"starting", "ready", "unloaded", "down"}]
  /\ request \in Requests /\ checker \in Checker /\ crashes \in 0..MaxCrashes
  /\ replies \in Seq(Reply) /\ Len(replies) <= 3
  /\ OutagesAreCounted /\ FailuresAreExplained /\ HeardIsSo

LEMMA CallsAreMadeSo ==
  ASSUME NEW c \in Calls
  PROVE  \/ c.kind \in {"encode", "rerank"} /\ AttemptsOf(c) = 3 /\ RoundsOf(c) = 1
         \/ c.kind = "chat" /\ AttemptsOf(c) = 2 /\ RoundsOf(c) = 1
         \/ c.kind = "generate" /\ AttemptsOf(c) = 2 /\ RoundsOf(c) = 2
         \/ /\ c.kind \notin {"encode", "rerank", "chat", "generate"}
            /\ AttemptsOf(c) = 1 /\ RoundsOf(c) = 1
<1>1. CASE c.kind \in {"encode", "rerank"}
  BY <1>1 DEF AttemptsOf, RoundsOf
<1>2. CASE c.kind = "chat"
  BY <1>2 DEF AttemptsOf, RoundsOf
<1>3. CASE c.kind = "generate"
  BY <1>3 DEF AttemptsOf, RoundsOf
<1>4. CASE c.kind \notin {"encode", "rerank", "chat", "generate"}
  BY <1>4 DEF AttemptsOf, RoundsOf
<1>. QED BY <1>1, <1>2, <1>3, <1>4

LEMMA OutageKeepsCount ==
  ASSUME ServicesInv, request.state = "trying", request' = AfterOutage(request)
  PROVE  request' \in Requests /\ OutagesAreCounted' /\ FailuresAreExplained'
<1>1. PICK c \in Calls, tr \in 0..2, ro \in 0..1, o \in 0..4 :
        request = [call |-> c, state |-> "trying", tries |-> tr, rounds |-> ro, outages |-> o]
  BY DEF ServicesInv, Requests
<1>2. /\ AttemptsOf(c) \in 1..3 /\ RoundsOf(c) \in 1..2
      /\ RoundsOf(c) = 2 => AttemptsOf(c) = 2
  BY CallsAreMadeSo
<1>3. /\ tr < AttemptsOf(c) /\ ro < RoundsOf(c)
      /\ o = tr + (IF ro = 0 THEN 0 ELSE AttemptsOf(c))
  BY <1>1 DEF ServicesInv, OutagesAreCounted
<1>4. o + 1 \in 0..4
  BY <1>2, <1>3
<1>5. CASE tr + 1 < AttemptsOf(c)
  <2>1. request' = [call |-> c, state |-> "trying", tries |-> tr + 1, rounds |-> ro,
                    outages |-> o + 1]
    BY <1>1, <1>5 DEF AfterOutage
  <2>2. tr + 1 \in 0..2
    BY <1>2, <1>5
  <2>. QED BY <1>2, <1>3, <1>4, <1>5, <2>1, <2>2
           DEF Requests, OutagesAreCounted, FailuresAreExplained
<1>6. CASE ~(tr + 1 < AttemptsOf(c)) /\ ro + 1 < RoundsOf(c)
  <2>1. request' = [call |-> c, state |-> "trying", tries |-> 0, rounds |-> ro + 1,
                    outages |-> o + 1]
    BY <1>1, <1>6 DEF AfterOutage
  <2>2. ro = 0 /\ o + 1 = AttemptsOf(c)
    BY <1>2, <1>3, <1>6
  <2>. QED BY <1>2, <1>4, <1>6, <2>1, <2>2
           DEF Requests, OutagesAreCounted, FailuresAreExplained
<1>7. CASE ~(tr + 1 < AttemptsOf(c)) /\ ~(ro + 1 < RoundsOf(c))
  <2>1. request' = [call |-> c, state |-> "failed", tries |-> tr, rounds |-> ro,
                    outages |-> o + 1]
    BY <1>1, <1>7 DEF AfterOutage
  <2>2. request' \in Requests /\ OutagesAreCounted'
    BY <1>4, <2>1 DEF Requests, OutagesAreCounted
  <2>3. tr + 1 = AttemptsOf(c) /\ ro + 1 = RoundsOf(c)
    BY <1>2, <1>3, <1>7
  <2>4. o + 1 = CASE c.kind \in {"encode", "rerank"} -> 3 [] c.kind = "chat" -> 2
                  [] c.kind = "generate" -> 4 [] OTHER -> 1
    <3>1. o + 1 = IF ro = 0 THEN AttemptsOf(c) ELSE 2 * AttemptsOf(c)
      BY <1>2, <1>3, <2>3
    <3>2. CASE c.kind \in {"encode", "rerank"}
      BY <2>3, <3>1, <3>2, CallsAreMadeSo
    <3>3. CASE c.kind \in {"chat", "generate"}
      BY <2>3, <3>1, <3>3, CallsAreMadeSo
    <3>4. CASE c.kind \notin {"encode", "rerank", "chat", "generate"}
      BY <2>3, <3>1, <3>4, CallsAreMadeSo
    <3>. QED BY <3>2, <3>3, <3>4
  <2>. QED BY <2>1, <2>2, <2>4 DEF FailuresAreExplained
<1>. QED BY <1>5, <1>6, <1>7

LEMMA ServicesInitInv == ServicesInit => ServicesInv
<1>. SUFFICES ASSUME ServicesInit PROVE ServicesInv
  OBVIOUS
<1>1. PICK c \in Calls :
        request = [call |-> c, state |-> "new", tries |-> 0, rounds |-> 0, outages |-> 0]
  BY DEF ServicesInit
<1>2. request \in Requests /\ OutagesAreCounted /\ FailuresAreExplained
  BY <1>1 DEF Requests, OutagesAreCounted, FailuresAreExplained
<1>3. service \in [Service -> {"starting", "ready", "unloaded", "down"}] /\ crashes \in 0..MaxCrashes
  BY ServicesAssumption DEF ServicesInit
<1>4. checker \in Checker /\ replies \in Seq(Reply) /\ Len(replies) = 0
  BY DEF ServicesInit
<1>. QED BY <1>2, <1>3, <1>4 DEF ServicesInv, HeardIsSo

LEMMA ServicesStepKeepsInv == ServicesInv /\ [ServicesNext]_servicesVars => ServicesInv'
<1>. SUFFICES ASSUME ServicesInv, [ServicesNext]_servicesVars PROVE ServicesInv'
  OBVIOUS
<1>. USE DEF ServicesInv
<1>1. ASSUME UNCHANGED <<service, checker, replies, crashes>>,
             request' \in Requests, OutagesAreCounted', FailuresAreExplained'
      PROVE  ServicesInv'
  BY <1>1 DEF HeardIsSo
<1>2. ASSUME UNCHANGED <<request, checker, replies>>, crashes' \in 0..MaxCrashes,
             service' \in [Service -> {"starting", "ready", "unloaded", "down"}], HeardIsSo'
      PROVE  ServicesInv'
  BY <1>2 DEF OutagesAreCounted, FailuresAreExplained
<1>3. ASSUME NEW s \in Service, Load(s) \/ ServiceRestart(s)
      PROVE  ServicesInv'
  <2>1. /\ UNCHANGED <<request, checker, replies, crashes>>
        /\ service' \in [Service -> {"starting", "ready", "unloaded", "down"}]
        /\ \A t \in Service : service[t] = "ready" => service'[t] = "ready"
    BY <1>3 DEF Load, ServiceRestart
  <2>2. \A i \in 1..Len(replies) : Order(checker)[i] \in Service
    BY DEF Order, Checker, Service
  <2>3. HeardIsSo'
    BY <2>1, <2>2 DEF HeardIsSo
  <2>. QED BY <1>2, <2>1, <2>3
<1>4. ASSUME NEW s \in Service, ServiceCrash(s)
      PROVE  ServicesInv'
  <2>1. /\ UNCHANGED <<request, checker, replies>> /\ crashes' = crashes + 1
        /\ service' \in [Service -> {"starting", "ready", "unloaded", "down"}]
        /\ crashes < MaxCrashes
    BY <1>4 DEF ServiceCrash
  <2>. QED BY <1>2, <2>1, ServicesAssumption DEF HeardIsSo
<1>5. CASE Call
  <2>1. /\ UNCHANGED <<service, checker, replies, crashes>> /\ request.state = "new"
        /\ request' = [request EXCEPT !.state = "trying"]
    BY <1>5 DEF Call
  <2>2. AttemptsOf(request.call) \in 1..3 /\ RoundsOf(request.call) \in 1..2
    BY CallsAreMadeSo DEF Requests
  <2>. QED BY <1>1, <2>1, <2>2 DEF Requests, OutagesAreCounted, FailuresAreExplained
<1>6. CASE Attempt
  <2>0. UNCHANGED <<service, checker, replies, crashes>> /\ request.state = "trying"
    BY <1>6 DEF Attempt
  <2>1. CASE request' = AfterOutage(request)
    BY <1>1, <2>0, <2>1, OutageKeepsCount
  <2>2. ASSUME NEW st \in {"refused", "answered"}, request' = [request EXCEPT !.state = st]
        PROVE  ServicesInv'
    BY <1>1, <2>0, <2>2 DEF Requests, OutagesAreCounted, FailuresAreExplained
  <2>. QED BY <1>6, <2>1, <2>2 DEF Attempt
<1>7. CASE AttemptTimesOut
  BY <1>1, <1>7, OutageKeepsCount DEF AttemptTimesOut
<1>8. CASE Look
  <2>. DEFINE s == service[Order(checker)[Len(replies) + 1]]
              answer == CASE s \in {"down", "starting"} -> "none"
                          [] s = "unloaded" -> "loading" [] OTHER -> "ok"
  <2>1. /\ UNCHANGED <<service, request, checker, crashes>> /\ Len(replies) < 3
        /\ replies' = Append(replies, answer)
    BY <1>8 DEF Look
  <2>2. Order(checker)[Len(replies) + 1] \in Service
    BY <2>1 DEF Order, Checker, Service
  <2>3. answer \in Reply /\ (answer = "ok" => s = "ready")
    BY <2>2 DEF Reply
  <2>. HIDE DEF answer, s
  <2>4. /\ replies' \in Seq(Reply) /\ Len(replies') = Len(replies) + 1
        /\ \A i \in 1..Len(replies) : replies'[i] = replies[i]
        /\ replies'[Len(replies) + 1] = answer
    BY <2>1, <2>3
  <2>5. HeardIsSo'
    BY <2>1, <2>3, <2>4 DEF HeardIsSo, s
  <2>. QED BY <2>1, <2>4, <2>5 DEF OutagesAreCounted, FailuresAreExplained
<1>9. CASE UNCHANGED servicesVars
  BY <1>9 DEF servicesVars, OutagesAreCounted, FailuresAreExplained, HeardIsSo
<1>. QED BY <1>3, <1>4, <1>5, <1>6, <1>7, <1>8, <1>9 DEF ServicesNext

LEMMA ServicesInvSuffices == ServicesInv => ServicesAreAsTheySay
<1>. SUFFICES ASSUME ServicesInv PROVE ServicesAreAsTheySay
  OBVIOUS
<1>. USE DEF ServicesInv
<1>1. replies \in UNION {[1..n -> Reply] : n \in 0..3}
  <2>1. Len(replies) \in 0..3 /\ replies \in [1..Len(replies) -> Reply]
    <3>1. Len(replies) \in Nat /\ replies \in [1..Len(replies) -> Reply]
      BY DEF Reply
    <3>. QED BY <3>1
  <2>. QED BY <2>1
<1>2. ServicesTypeOK
  BY <1>1 DEF ServicesTypeOK, Requests
<1>3. ReadyMeansReady
  <2>. SUFFICES ASSUME SaysHealthy("readiness"), crashes = 0, NEW s \in Service
                PROVE  service[s] = "ready"
    BY DEF ReadyMeansReady
  <2>1. \A i \in 1..3 : replies[i] = "ok"
    BY DEF SaysHealthy, CountsAsHealthy
  <2>2. checker = "readiness" /\ Len(replies) = 3
    BY DEF SaysHealthy
  <2>3. \A i \in 1..3 : service[Order(checker)[i]] = "ready"
    BY <2>1, <2>2 DEF HeardIsSo
  <2>. QED BY <2>2, <2>3 DEF Order, Service
<1>. QED BY <1>2, <1>3 DEF ServicesAreAsTheySay

\* A call to a model service is given up after all of its attempts, however
\* services start, crash and come back, and when /readiness has found them all
\* ready they can all be called, unless one crashed.
THEOREM ServicesKeepTheirWord == ServicesSpec => []ServicesAreAsTheySay
<1>. QED BY ServicesInitInv, ServicesStepKeepsInv, ServicesInvSuffices, PTL DEF ServicesSpec

-----------------------------------------------------------------------------
(* Report files.  Whatever is in a file was put there by a request that    *)
(* took that name and was promised the file if it is whole, and told of an *)
(* error if not: so only a rival can have replaced a promised report.      *)
(***************************************************************************)

Job == [state : {"new", "named", "written", "refused", "failed"}, at : Nat]

\* The report in a file is one that was written there, or failed on the way.
FilesAreOfTheirReports ==
  \A n \in DOMAIN exports :
    LET q == exports[n].of IN
      /\ exports[n] \in [of : Report, whole : BOOLEAN]
      /\ n = FileName(q, job[q].at)
      /\ job[q].state \in {"written", "failed"}
      /\ exports[n].whole <=> job[q].state = "written"

ReportInv ==
  /\ ReportTypeOK /\ job \in [Report -> Job] /\ FilesAreOfTheirReports
  /\ \A r \in Report : job[r].state = "written" => FileName(r, job[r].at) \in DOMAIN exports

LEMMA ReportInitInv == ReportInit => ReportInv
<1>. SUFFICES ASSUME ReportInit PROVE ReportInv
  OBVIOUS
<1>1. DOMAIN exports = {}
  BY DEF ReportInit
<1>2. job \in [Report -> Job] /\ \A r \in Report : job[r].state = "new"
  BY DEF ReportInit, Job
<1>3. second \in 0..LastSecond
  BY ReportAssumption DEF ReportInit
<1>. QED BY <1>1, <1>2, <1>3 DEF ReportInv, ReportTypeOK, FilesAreOfTheirReports

LEMMA TellingKeepsReportInv ==
  ASSUME ReportInv, NEW r \in Report, Tell(r)
  PROVE  ReportInv'
<1>1. /\ job[r].state = "new" /\ UNCHANGED <<second, exports>>
      /\ job \in [Report -> Job] /\ second \in Nat
  BY ReportAssumption DEF Tell, ReportInv, ReportTypeOK
<1>2. PICK x \in Job : job' = [job EXCEPT ![r] = x] /\ x.state \in {"refused", "failed", "named"}
  <2>1. ASSUME NEW how \in {"refused", "failed"}, Ended(r, how)
        PROVE  \E x \in Job : job' = [job EXCEPT ![r] = x] /\ x.state = how
    <3>1. [job[r] EXCEPT !.state = how] \in Job /\ [job[r] EXCEPT !.state = how].state = how
      BY <1>1 DEF Job
    <3>. QED BY <2>1, <3>1 DEF Ended
  <2>2. [state |-> "named", at |-> second] \in Job
    BY <1>1 DEF Job
  <2>. QED BY <2>1, <2>2 DEF Tell
<1>3. /\ job' \in [Report -> Job] /\ job'[r] = x /\ \A q \in Report : q # r => job'[q] = job[q]
  BY <1>1, <1>2
<1>4. FilesAreOfTheirReports'
  <2> SUFFICES ASSUME NEW n \in DOMAIN exports
               PROVE  LET q == exports[n].of IN
                        /\ exports[n] \in [of : Report, whole : BOOLEAN]
                        /\ n = FileName(q, job'[q].at)
                        /\ job'[q].state \in {"written", "failed"}
                        /\ exports[n].whole <=> job'[q].state = "written"
    BY <1>1 DEF FilesAreOfTheirReports
  <2>1. PICK q \in Report :
            /\ q = exports[n].of
            /\ exports[n] \in [of : Report, whole : BOOLEAN]
            /\ n = FileName(q, job[q].at)
            /\ job[q].state \in {"written", "failed"}
            /\ exports[n].whole <=> job[q].state = "written"
    BY DEF ReportInv, FilesAreOfTheirReports
  <2>2. q # r
    BY <1>1, <2>1
  <2>. QED BY <1>3, <2>1, <2>2
<1>5. ReportTypeOK'
  BY <1>1, <1>3 DEF ReportInv, ReportTypeOK, Job
<1>6. \A q \in Report : job'[q].state = "written" => FileName(q, job'[q].at) \in DOMAIN exports'
  BY <1>1, <1>2, <1>3 DEF ReportInv
<1>. QED BY <1>3, <1>4, <1>5, <1>6 DEF ReportInv

\* What was in the file before is lost, whatever it was.
LEMMA SavingKeepsReportInv ==
  ASSUME ReportInv, NEW r \in Report, SaveReport(r) \/ SaveFails(r)
  PROVE  ReportInv'
<1>1. job[r].state = "named" /\ UNCHANGED second /\ job \in [Report -> Job]
  BY DEF SaveReport, SaveFails, ReportInv
<1>2. PICK whole \in BOOLEAN :
        /\ exports' = [y \in DOMAIN exports \cup {FileName(r, job[r].at)} |->
                         IF y = FileName(r, job[r].at) THEN [of |-> r, whole |-> whole]
                         ELSE exports[y]]
        /\ Ended(r, IF whole THEN "written" ELSE "failed")
  <2>1. TRUE \in BOOLEAN /\ FALSE \in BOOLEAN
    OBVIOUS
  <2>. QED BY <2>1 DEF SaveReport, SaveFails
<1>3. PICK x \in Job : /\ job' = [job EXCEPT ![r] = x] /\ x.at = job[r].at
                       /\ x.state = IF whole THEN "written" ELSE "failed"
  <2>1. PICK how \in {"written", "failed"} : how = IF whole THEN "written" ELSE "failed"
    OBVIOUS
  <2>2. /\ [job[r] EXCEPT !.state = how] \in Job /\ [job[r] EXCEPT !.state = how].state = how
        /\ [job[r] EXCEPT !.state = how].at = job[r].at
    BY <1>1 DEF Job
  <2>. QED BY <1>2, <2>1, <2>2 DEF Ended
<1>4. /\ job' \in [Report -> Job] /\ job'[r] = x /\ \A q \in Report : q # r => job'[q] = job[q]
  BY <1>1, <1>3
<1> DEFINE m == FileName(r, job[r].at)
<1>5. /\ DOMAIN exports' = DOMAIN exports \cup {m}
      /\ exports'[m] = [of |-> r, whole |-> whole]
      /\ \A y \in DOMAIN exports : y # m => exports'[y] = exports[y]
  BY <1>2
<1>6. m = FileName(r, job'[r].at)
  BY <1>3, <1>4
<1> HIDE DEF m
<1>7. FilesAreOfTheirReports'
  <2> SUFFICES ASSUME NEW n \in DOMAIN exports'
               PROVE  \E q \in Report :
                        /\ q = exports'[n].of
                        /\ exports'[n] \in [of : Report, whole : BOOLEAN]
                        /\ n = FileName(q, job'[q].at)
                        /\ job'[q].state \in {"written", "failed"}
                        /\ exports'[n].whole <=> job'[q].state = "written"
    BY DEF FilesAreOfTheirReports
  <2>1. CASE n = m
    <3>1. exports'[n] = [of |-> r, whole |-> whole] /\ exports'[n] \in [of : Report, whole : BOOLEAN]
      BY <1>5, <2>1
    <3>2. exports'[n].of = r /\ exports'[n].whole = whole
      BY <3>1
    <3>3. job'[r].state \in {"written", "failed"} /\ (whole <=> job'[r].state = "written")
      BY <1>3, <1>4
    <3>. QED BY <1>6, <2>1, <3>1, <3>2, <3>3
  <2>2. CASE n # m
    <3>1. n \in DOMAIN exports /\ exports'[n] = exports[n]
      BY <1>5, <2>2
    <3>2. PICK q \in Report :
              /\ q = exports[n].of
              /\ exports[n] \in [of : Report, whole : BOOLEAN]
              /\ n = FileName(q, job[q].at)
              /\ job[q].state \in {"written", "failed"}
              /\ exports[n].whole <=> job[q].state = "written"
      BY <3>1 DEF ReportInv, FilesAreOfTheirReports
    <3>3. q # r
      BY <1>1, <3>2
    <3>. QED BY <1>4, <3>1, <3>2, <3>3
  <2>. QED BY <2>1, <2>2
<1>8. ReportTypeOK'
  <2>1. \A n \in DOMAIN exports' : exports'[n].of \in Report /\ exports'[n].whole \in BOOLEAN
    BY <1>7 DEF FilesAreOfTheirReports
  <2>. QED BY <1>1, <1>4, <2>1 DEF ReportInv, ReportTypeOK, Job
<1>9. \A q \in Report : job'[q].state = "written" => FileName(q, job'[q].at) \in DOMAIN exports'
  BY <1>4, <1>5, <1>6 DEF ReportInv
<1>. QED BY <1>4, <1>7, <1>8, <1>9 DEF ReportInv

LEMMA ReportStepKeepsInv == ReportInv /\ [ReportNext]_reportVars => ReportInv'
<1>. SUFFICES ASSUME ReportInv, [ReportNext]_reportVars PROVE ReportInv'
  OBVIOUS
<1>1. CASE NextSecond
  <2>1. second' \in 0..LastSecond /\ UNCHANGED <<job, exports>>
    BY <1>1, ReportAssumption DEF NextSecond, ReportInv, ReportTypeOK
  <2>. QED BY <2>1 DEF ReportInv, ReportTypeOK, FilesAreOfTheirReports
<1>2. CASE UNCHANGED reportVars
  BY <1>2 DEF reportVars, ReportInv, ReportTypeOK, FilesAreOfTheirReports
<1>. QED BY <1>1, <1>2, TellingKeepsReportInv, SavingKeepsReportInv DEF ReportNext

LEMMA PromisesFollow == ReportInv => PromisedReportsAreThere
<1>. SUFFICES ASSUME ReportInv, NEW r \in Report, job[r].state = "written", Rivals(r) = {}
              PROVE  /\ FileName(r, job[r].at) \in DOMAIN exports
                     /\ exports[FileName(r, job[r].at)] = [of |-> r, whole |-> TRUE]
  BY DEF PromisedReportsAreThere
<1>1. PICK n \in DOMAIN exports : n = FileName(r, job[r].at)
  BY DEF ReportInv
<1>2. PICK q \in Report :
          /\ q = exports[n].of
          /\ exports[n] \in [of : Report, whole : BOOLEAN]
          /\ n = FileName(q, job[q].at)
          /\ job[q].state \in {"written", "failed"}
          /\ exports[n].whole <=> job[q].state = "written"
  BY DEF ReportInv, FilesAreOfTheirReports
<1>3. q = r
  <2>1. SUFFICES ASSUME q # r PROVE q \in Rivals(r)
    OBVIOUS
  <2>2. FileName(q, job[q].at) = FileName(r, job[r].at)
    BY <1>1, <1>2
  <2>3. Format[q] = Format[r]
    BY <2>2 DEF FileName
  <2>4. IF Format[r] \in CaseFormat THEN job[q].at \div 2 = job[r].at \div 2
                                    ELSE job[q].at = job[r].at
    BY <2>2, <2>3 DEF FileName
  <2>. QED BY <1>2, <2>1, <2>3, <2>4 DEF Rivals
<1>4. exports[n] = [of |-> r, whole |-> TRUE]
  BY <1>2, <1>3
<1>. QED BY <1>1, <1>4

\* However many are asked for in a second, whatever fails on the way and in
\* whichever order they are written: a report that was promised can be fetched
\* (report_engine.py), unless another one took its name.
THEOREM PromisesStay == ReportSpec => []PromisesAreKept
<1>1. ReportInv => PromisesAreKept
  BY PromisesFollow DEF ReportInv, PromisesAreKept
<1>. QED BY <1>1, ReportInitInv, ReportStepKeepsInv, PTL DEF ReportSpec
-----------------------------------------------------------------------------
(***************************************************************************)
(* Grounding: a report is none, a refusal for the evidence, or says of     *)
(* every fact of the answer whether the citations hold it.                 *)
(***************************************************************************)

Held == {f \in Figure : FactInChunks(f, Indexed(judged.cited))}
FactsHere == Facts(judged.text)
MissingHere == Those(FactsHere, Figure \ Held)

\* check_grounding looked up the figures.
IsLookup ==
  /\ judged.stopped = "complete"
  /\ report = [abstain |-> NumbersWithhold(Len(MissingHere), Len(FactsHere)),
               supported |-> Those(FactsHere, Held), unsupported |-> MissingHere]

\* It refused the answer before that.
IsRefusal ==
  /\ report = [NoReport EXCEPT !.abstain = TRUE]
  /\ judged.stopped # "complete" \/ ThinEvidence(judged.cited)

GroundingInv ==
  /\ GroundingTypeOK
  /\ \/ phase \in {"gate", "figures"} /\ report = NoReport /\ shown = "nothing"
     \/ phase = "annotate" /\ (IsLookup \/ IsRefusal) /\ shown = "nothing"
     \/ phase = "shown" /\ report = NoReport /\ shown = "answer"
     \/ phase = "shown" /\ (IsLookup \/ IsRefusal) /\ shown = Annotation
  /\ phase = "figures" => judged.stopped = "complete"

\* What is judged, and the facts in it.
LEMMA JudgedIs ==
  ASSUME judged \in Judgement
  PROVE  /\ judged.text \in Seq(Figure) /\ FactsHere \in Seq(Figure) /\ Len(FactsHere) \in Nat
         /\ judged.cited \in Seq([score : 0..100, says : SUBSET Figure])
         /\ \A T : Those(FactsHere, T) \in Seq(Figure) /\ Len(Those(FactsHere, T)) \in Nat
         /\ \A f \in ToSet(FactsHere) : f \in Figure /\ IsFact(f)
         /\ MaxUnsupported \in Nat /\ MinCitations \in Nat /\ MinTop \in Nat /\ MinMean \in Nat
<1>1. judged.text \in Seq(Figure)
  BY GroundingAssumption DEF Judgement
<1>2. judged.cited \in Seq([score : 0..100, says : SUBSET Figure])
  BY GroundingAssumption DEF Judgement
<1>3. FactsHere \in Seq(Figure) /\ ToSet(FactsHere) \subseteq {f \in Figure : IsFact(f)}
  BY <1>1, ThoseHold DEF FactsHere, Facts
<1>4. \A T : Those(FactsHere, T) \in Seq(Figure)
  BY <1>3, ThoseHold
<1>5. \A s \in Seq(Figure) : Len(s) \in Nat
  OBVIOUS
<1>. QED BY <1>1, <1>2, <1>3, <1>4, <1>5, GroundingAssumption

LEMMA NoReportIs ==
  /\ NoReport.abstain = FALSE /\ NoReport.supported = <<>> /\ NoReport.unsupported = <<>>
  /\ NoReport \in [abstain : BOOLEAN, supported : Seq(Figure), unsupported : Seq(Figure)]
  /\ LET r == [NoReport EXCEPT !.abstain = TRUE] IN
       /\ r.abstain /\ r.supported = <<>> /\ r.unsupported = <<>>
       /\ r \in [abstain : BOOLEAN, supported : Seq(Figure), unsupported : Seq(Figure)]
<1>1. <<>> \in Seq(Figure)
  OBVIOUS
<1>. QED BY <1>1 DEF NoReport

LEMMA GroundingInitInv == GroundingInit => GroundingInv
BY NoReportIs DEF GroundingInit, GroundingInv, GroundingTypeOK

LEMMA GroundingStepKeepsInv ==
  ASSUME GroundingInv, [GroundingNext]_groundingVars
  PROVE  GroundingInv'
<1>. USE DEF GroundingInv, GroundingTypeOK
<1>1. CASE UNCHANGED groundingVars
  BY <1>1 DEF groundingVars, IsLookup, IsRefusal, Held, FactsHere, MissingHere, NumbersWithhold, Annotation
<1>2. CASE Gate
  <2>1. judged' = judged /\ shown' = shown /\ phase = "gate" /\ report = NoReport /\ shown = "nothing"
    BY <1>2 DEF Gate
  <2>2. CASE report' = [NoReport EXCEPT !.abstain = TRUE] /\ phase' = "annotate"
             /\ (judged.stopped # "complete" \/ ThinEvidence(judged.cited))
    <3>1. IsRefusal'
      BY <2>1, <2>2 DEF IsRefusal
    <3>. QED BY <2>1, <2>2, <3>1, NoReportIs
  <2>3. CASE report' = NoReport /\ phase' = "figures" /\ judged.stopped = "complete"
    BY <2>1, <2>3
  <2>. QED BY <1>2, <2>1, <2>2, <2>3 DEF Gate
<1>3. CASE GoWithout
  BY <1>3, NoReportIs DEF GoWithout
<1>4. CASE Figures
  <2>1. /\ judged' = judged /\ shown' = shown /\ phase = "figures" /\ shown = "nothing"
        /\ phase' = "annotate" /\ judged.stopped = "complete"
        /\ report' = [abstain |-> NumbersWithhold(Len(MissingHere), Len(FactsHere)),
                      supported |-> Those(FactsHere, Held), unsupported |-> MissingHere]
    BY <1>4 DEF Figures, MissingHere, FactsHere, Held
  <2>2. IsLookup'
    BY <2>1 DEF IsLookup, MissingHere, FactsHere, Held, NumbersWithhold
  <2>3. NumbersWithhold(Len(MissingHere), Len(FactsHere)) \in BOOLEAN
    BY DEF NumbersWithhold
  <2>4. report' \in [abstain : BOOLEAN, supported : Seq(Figure), unsupported : Seq(Figure)]
    BY <2>1, <2>3, JudgedIs DEF MissingHere
  <2>. QED BY <2>1, <2>2, <2>4
<1>5. CASE Annotate
  <2>1. /\ judged' = judged /\ report' = report /\ phase = "annotate" /\ phase' = "shown"
        /\ shown' = Annotation
    BY <1>5 DEF Annotate
  <2>2. shown' \in {"nothing", "answer", "banner", "abstention"} /\ shown' = Annotation'
    BY <2>1 DEF Annotation
  <2>3. (IsLookup \/ IsRefusal)'
    BY <2>1 DEF IsLookup, IsRefusal, MissingHere, FactsHere, Held, NumbersWithhold
  <2>. QED BY <2>1, <2>2, <2>3
<1>. QED BY <1>1, <1>2, <1>3, <1>4, <1>5 DEF GroundingNext

\* A figure that a citation says is found in it.
LEMMA QuotedIsHeld ==
  ASSUME judged \in Judgement, NEW f \in ToSet(FactsHere), f \notin Held
  PROVE  f \in Unquoted
<1>1. f \in Figure /\ Matched(f) /\ f.value \in Nat
  BY JudgedIs, GroundingAssumption DEF IsFact
<1>2. ASSUME NEW i \in DOMAIN judged.cited, f \in judged.cited[i].says PROVE FALSE
  <2>1. f \in Indexed(judged.cited)
    BY <1>1, <1>2 DEF Indexed
  <2>2. Near(f.value, f.value)
    BY <1>1 DEF Near, Gap, Bigger
  <2>. QED BY <1>1, <2>1, <2>2 DEF Held, FactInChunks
<1>. QED BY <1>1, <1>2 DEF Unquoted

\* Evidence of which every score is good, or none, is not thin.
LEMMA GoodEvidenceIsNotThin ==
  ASSUME NEW cited \in Seq([score : 0..100, says : SUBSET Figure]), Len(cited) >= MinCitations,
         \A i \in DOMAIN cited : cited[i].score \notin 1..(Bigger(MinTop, MinMean) - 1)
  PROVE  ~ThinEvidence(cited)
<1>1. MinTop \in Nat /\ MinMean \in Nat /\ MinCitations \in Nat /\ Len(cited) \in Nat
  BY GroundingAssumption
<1>. DEFINE all == [i \in DOMAIN cited |-> cited[i].score]
            s == Scored(cited)
<1>2. all \in Seq(Nat) /\ ToSet(all) = {cited[i].score : i \in DOMAIN cited}
  <2>1. \A i \in DOMAIN cited : cited[i].score \in Nat
    <3>. DEFINE R == [score : 0..100, says : SUBSET Figure]
    <3>1. cited \in Seq(R)
      OBVIOUS
    <3>2. \A c \in R : c.score \in 0..100
      OBVIOUS
    <3>3. \A n \in 0..100 : n \in Nat
      OBVIOUS
    <3>. HIDE DEF R
    <3>4. \A i \in DOMAIN cited : cited[i] \in R
      BY <3>1
    <3>. QED BY <3>2, <3>3, <3>4
  <2>2. all \in Seq(Nat)
    BY <2>1
  <2>. QED BY <2>2 DEF ToSet
<1>3. s \in Seq(Nat) /\ ToSet(s) = ToSet(all) \cap 1..100
  <2>. HIDE DEF all
  <2>1. s = Those(all, 1..100)
    BY DEF Scored, all
  <2>2. \A T : Those(all, T) \in Seq(Nat) /\ ToSet(Those(all, T)) = ToSet(all) \cap T
    BY <1>2, ThoseHold
  <2>. QED BY <2>1, <2>2
<1>4. ASSUME NEW n \in 1..Len(s) PROVE s[n] >= MinTop /\ s[n] >= MinMean /\ s[n] \in Nat
  <2>1. s[n] \in ToSet(s)
    BY <1>3 DEF ToSet
  <2>2. PICK i \in DOMAIN cited : s[n] = cited[i].score /\ s[n] \in 1..100
    BY <1>2, <1>3, <2>1
  <2>. HIDE DEF s
  <2>3. PICK b \in Nat : b = Bigger(MinTop, MinMean) /\ MinTop <= b /\ MinMean <= b
    BY <1>1 DEF Bigger
  <2>4. PICK v \in 1..100 : v = s[n] /\ v = cited[i].score
    BY <2>2
  <2>5. ~(v \in 1..(b - 1))
    BY <2>3, <2>4
  <2>6. \A m \in 1..100, k \in Nat : m \notin 1..(k - 1) => m >= k /\ m \in Nat
    OBVIOUS
  <2>7. v >= b /\ v \in Nat
    BY <2>5, <2>6
  <2>8. v >= MinTop /\ v >= MinMean
    BY <1>1, <2>3, <2>7
  <2>. QED BY <2>4, <2>7, <2>8
<1>. HIDE DEF s
<1>5. Added(s) >= MinMean * Len(s)
  BY <1>1, <1>3, <1>4, AddedAtLeast
<1>6. Added(s) \in Nat /\ MinMean * Len(s) \in Nat
  BY <1>1, <1>3, AddedShort
<1>7. ~(Added(s) < MinMean * Len(s))
  BY <1>5, <1>6
<1>8. s # <<>> => ~\A i \in DOMAIN s : s[i] < MinTop
  <2>. SUFFICES ASSUME s # <<>> PROVE ~(s[1] < MinTop) /\ 1 \in DOMAIN s
    OBVIOUS
  <2>1. 1 \in 1..Len(s)
    BY <1>3
  <2>. QED BY <1>1, <1>3, <1>4, <2>1
<1>9. ~(Len(cited) < MinCitations)
  BY <1>1
<1>. QED BY <1>7, <1>8, <1>9 DEF ThinEvidence, s

LEMMA GroundingInvSuffices == GroundingInv => FiguresAreJudged
<1>. SUFFICES ASSUME GroundingInv PROVE FiguresAreJudged
  OBVIOUS
<1>1. judged \in Judgement /\ GroundingTypeOK
  BY DEF GroundingInv, GroundingTypeOK
<1>2. \/ report = NoReport /\ shown \in {"nothing", "answer"}
      \/ (IsLookup \/ IsRefusal) /\ shown \in {"nothing", Annotation}
  BY DEF GroundingInv
<1>3. MissingFiguresAreShown
  BY <1>2, NoReportIs DEF MissingFiguresAreShown, Annotation
<1>4. QuotedFiguresPass
  <2>1. CASE IsLookup
    <3>1. ToSet(report.unsupported) = ToSet(FactsHere) \cap (Figure \ Held)
      <4>1. report.unsupported = Those(FactsHere, Figure \ Held)
        BY <2>1 DEF IsLookup, MissingHere
      <4>. QED BY <1>1, <4>1, JudgedIs, ThoseHold
    <3>. QED BY <1>1, <3>1, QuotedIsHeld DEF QuotedFiguresPass
  <2>2. CASE report.unsupported = <<>>
    BY <2>2 DEF QuotedFiguresPass, ToSet
  <2>. QED BY <1>2, <2>1, <2>2, NoReportIs DEF IsRefusal
<1>5. FactsAreReportedOnce
  <2>1. CASE IsLookup
    <3>1. /\ report.supported = Those(FactsHere, Held)
          /\ report.unsupported = Those(FactsHere, Figure \ Held)
      BY <2>1 DEF IsLookup, MissingHere
    <3>2. Held \cap (Figure \ Held) = {} /\ ToSet(FactsHere) \subseteq Held \cup (Figure \ Held)
      BY <1>1, JudgedIs
    <3>3. Len(report.supported) + Len(report.unsupported)
            = Len(Those(FactsHere, Held \cup (Figure \ Held)))
      BY <1>1, <3>1, <3>2, JudgedIs, ThoseSplit
    <3>4. Those(FactsHere, Held \cup (Figure \ Held)) = FactsHere
      BY <1>1, <3>2, JudgedIs, ThoseAll
    <3>. QED BY <3>3, <3>4 DEF FactsAreReportedOnce, FactsHere
  <2>2. CASE report.supported = <<>> /\ report.unsupported = <<>>
    BY <2>2 DEF FactsAreReportedOnce
  <2>. QED BY <1>2, <2>1, <2>2, NoReportIs DEF IsRefusal
<1>6. OnlyWeakEvidenceIsWithheld
  <2>. SUFFICES ASSUME shown = "abstention", judged.stopped = "complete",
                       Len(judged.cited) >= MinCitations,
                       \A i \in DOMAIN judged.cited :
                         judged.cited[i].score \notin 1..(Bigger(MinTop, MinMean) - 1)
                PROVE  /\ judged.mode = "hard" /\ Len(FactsHere) >= 5
                       /\ 100 * Len(Those(FactsHere, Unquoted)) > MaxUnsupported * Len(FactsHere)
    BY DEF OnlyWeakEvidenceIsWithheld, FactsHere
  <2>1. ~ThinEvidence(judged.cited)
    BY <1>1, JudgedIs, GoodEvidenceIsNotThin
  <2>2. IsLookup /\ report.abstain
    BY <1>2, <2>1 DEF IsRefusal, Annotation
  <2>3. NumbersWithhold(Len(MissingHere), Len(FactsHere))
    BY <2>2 DEF IsLookup
  <2>4. Len(MissingHere) <= Len(Those(FactsHere, Unquoted))
    <3>1. ToSet(FactsHere) \cap (Figure \ Held) \subseteq Unquoted
      BY <1>1, QuotedIsHeld
    <3>. QED BY <1>1, <3>1, JudgedIs, ThoseFewer DEF MissingHere
  <2>5. PICK m \in Nat, u \in Nat, t \in Nat :
          m = Len(MissingHere) /\ u = Len(Those(FactsHere, Unquoted)) /\ t = Len(FactsHere)
    BY <1>1, JudgedIs DEF MissingHere
  <2>6. 100 * m > MaxUnsupported * t /\ t >= 5 /\ m <= u /\ judged.mode = "hard"
    BY <2>3, <2>4, <2>5 DEF NumbersWithhold
  <2>7. MaxUnsupported * t \in Nat
    BY <1>1, <2>5, JudgedIs
  <2>. QED BY <2>5, <2>6, <2>7
<1>. QED BY <1>1, <1>3, <1>4, <1>5, <1>6 DEF FiguresAreJudged

\* For every answer, every evidence and every setting of the gates, and however
\* the check fails: figures no citation holds are shown to the user, those one
\* holds pass, and only weak evidence withholds an answer (grounding.py).
THEOREM JudgementsStand == GroundingSpec => []FiguresAreJudged
<1>. QED BY GroundingInitInv, GroundingStepKeepsInv, GroundingInvSuffices, PTL DEF GroundingSpec

-----------------------------------------------------------------------------
(* The slots.  The properties of LlmSlots speak of callers that use the    *)
(* LLM.  What is inductive speaks of everybody who holds an id: an id in   *)
(* Redis belongs to a caller between SADD and the end of its release, an   *)
(* id in the memory of a process to one that uses it, and the limits bound *)
(* the ids.                                                                *)
(***************************************************************************)


\* The ids in Redis, and those of callers that believe they have one there.
RedisIdsAreHeld ==
  /\ \A r \in slots : caller[r].pc \in {"expire", "local", "held", "release"}
  /\ \A r \in Caller :
       At(r, "expire") \/ (caller[r].pc \in {"held", "release"} /\ caller[r].via = "redis")
         => r \in slots \cup expired

\* The ids in the memory of a process are those of the callers in it that were
\* admitted there.
LocalIdsAreHeld ==
  \A r \in Caller :
    /\ \A p \in Process :
         r \in localSlots[p] =>
           p = Home[r] /\ caller[r].pc \in {"held", "release"} /\ caller[r].via = "local"
    /\ caller[r].pc \in {"held", "release"} /\ caller[r].via = "local" => r \in localSlots[Home[r]]

\* The limits, as SCARD and the length of _local_slots see them.
IdsAreLimited ==
  /\ Cardinality(slots \ raced) <= MaxSlots
  /\ \A p \in Process : LocalCard(p) <= MaxSlots

SlotInv == SlotTypeOK /\ RedisIdsAreHeld /\ LocalIdsAreHeld /\ IdsAreLimited

-----------------------------------------------------------------------------
\* Sets of callers are finite, and smaller sets have smaller cardinalities.
LEMMA CallersAreFinite ==
  ASSUME NEW S \in SUBSET Caller
  PROVE  /\ IsFiniteSet(S) /\ Cardinality(S) \in Nat
         /\ \A T \in SUBSET S : Cardinality(T) <= Cardinality(S)
<1>1. IsFiniteSet(Caller)
  BY SlotAssumption
<1>2. IsFiniteSet(S)
  BY <1>1, FS_Subset
<1>3. \A T \in SUBSET S : Cardinality(T) <= Cardinality(S)
  BY <1>2, FS_Subset
<1>. QED BY <1>2, <1>3, FS_CardinalityType

\* One id more or less.
LEMMA OneIdMoreOrLess ==
  ASSUME NEW S \in SUBSET Caller, NEW r \in Caller
  PROVE  /\ Cardinality(S \cup {r}) <= Cardinality(S) + 1
         /\ r \in S => Cardinality(S \ {r}) = Cardinality(S) - 1
<1>1. IsFiniteSet(S) /\ Cardinality(S) \in Nat
  BY CallersAreFinite
<1>2. Cardinality(S \cup {r}) <= Cardinality(S) + 1
  <2>1. Cardinality(S \cup {r}) = IF r \in S THEN Cardinality(S) ELSE Cardinality(S) + 1
    BY <1>1, FS_AddElement
  <2>. QED BY <1>1, <2>1
<1>3. r \in S => Cardinality(S \ {r}) = Cardinality(S) - 1
  BY <1>1, FS_RemoveElement
<1>. QED BY <1>2, <1>3

\* Leave keeps Redis in order: whoever goes takes its id out of the count of
\* the living.
LEMMA LeaveKeepsRedis ==
  ASSUME SlotTypeOK, RedisIdsAreHeld, Cardinality(slots \ raced) <= MaxSlots,
         NEW gone \in SUBSET Caller, Leave(gone)
  PROVE  /\ slots' \subseteq Caller /\ raced' \subseteq Caller /\ expired' \subseteq Caller
         /\ lost' \in 0..MaxLost
         /\ RedisIdsAreHeld'
         /\ (Cardinality(slots \ raced) <= MaxSlots)'
<1>. USE DEF Leave
<1>1. slots' \subseteq Caller /\ raced' \subseteq Caller /\ expired' \subseteq Caller
  BY DEF SlotTypeOK
<1>2. lost' \in 0..MaxLost
  <2>1. Cardinality(slots \cap gone) \in Nat
    BY CallersAreFinite DEF SlotTypeOK
  <2>. QED BY <2>1, SlotAssumption DEF SlotTypeOK
<1>3. RedisIdsAreHeld'
  BY DEF SlotTypeOK, RedisIdsAreHeld, At, Away
<1>4. (Cardinality(slots \ raced) <= MaxSlots)'
  <2>1. slots' \ raced' \subseteq slots \ raced
    OBVIOUS
  <2>2. /\ Cardinality(slots' \ raced') <= Cardinality(slots \ raced)
        /\ Cardinality(slots' \ raced') \in Nat /\ Cardinality(slots \ raced) \in Nat
    BY <1>1, <2>1, CallersAreFinite DEF SlotTypeOK
  <2>. QED BY <2>2, SlotAssumption
<1>. QED BY <1>1, <1>2, <1>3, <1>4

-----------------------------------------------------------------------------
\* What a step may leave alone: the ids and the limits depend on nothing else.
LEMMA RedisUntouched ==
  ASSUME SlotInv, UNCHANGED <<slots, lost, raced>>
  PROVE  (Cardinality(slots \ raced) <= MaxSlots)'
BY DEF SlotInv, IdsAreLimited

LEMMA LocalUntouched ==
  ASSUME SlotInv, UNCHANGED <<localSlots, localLost>>
  PROVE  (\A p \in Process : LocalCard(p) <= MaxSlots)'
BY DEF SlotInv, IdsAreLimited, LocalCard

\* The constants as numbers, one by one.
LEMMA SlotNumbers ==
  /\ MaxSlots \in Nat \ {0} /\ MaxTries \in Nat \ {0} /\ SlotTtl \in Nat \ {0}
  /\ MaxLost \in Nat
BY SlotAssumption

\* A caller that moves on keeps its polls and the store that admitted it.
Callers == [Caller -> [pc : {"idle", "poll", "add", "expire", "local", "held", "release"},
                       tries : 0..MaxTries, via : {"none", "redis", "local"}]]

LEMMA GotoKeepsCallers ==
  ASSUME caller \in Callers, NEW r \in Caller,
         NEW pc \in {"idle", "poll", "add", "expire", "local", "held", "release"}, Goto(r, pc)
  PROVE  caller' \in Callers
BY DEF Goto, Callers

\* Initially nobody has an id.
LEMMA SlotInitInv == SlotInit => SlotInv
<1>. SUFFICES ASSUME SlotInit PROVE SlotInv
  OBVIOUS
<1>. USE SlotAssumption DEF SlotInit
<1>1. SlotTypeOK
  <2>1. caller \in Callers
    BY SlotNumbers DEF Away, Callers
  <2>2. lost \in 0..MaxLost /\ ttl \in 0..NoTtl /\ localLost \in [Process -> 0..MaxSlots]
    BY SlotNumbers DEF NoTtl
  <2>. QED BY <2>1, <2>2 DEF SlotTypeOK, Callers
<1>2. RedisIdsAreHeld /\ LocalIdsAreHeld
  BY DEF RedisIdsAreHeld, LocalIdsAreHeld, At, Away
<1>3. IdsAreLimited
  <2>1. Cardinality({}) = 0 /\ slots \ raced = {}
    BY FS_EmptySet
  <2>. QED BY <2>1 DEF IdsAreLimited, LocalCard
<1>. QED BY <1>1, <1>2, <1>3 DEF SlotInv

\* Steps that only move a caller on, outside its use of the LLM.
LEMMA AcquireKeepsInv ==
  ASSUME SlotInv, NEW r \in Caller, Acquire(r) \/ Poll(r) \/ RedisFails(r) \/ Finish(r)
  PROVE  SlotInv'
<1>. USE DEF SlotInv
<1>1. SlotTypeOK'
  <2>1. caller \in Callers
    BY DEF SlotTypeOK, Callers
  <2>2. caller' \in Callers
    <3>1. CASE Acquire(r)
      BY <2>1, <3>1, GotoKeepsCallers DEF Acquire
    <3>2. CASE Poll(r)
      <4>1. CASE caller' = [caller EXCEPT ![r] = Away]
        BY <2>1, <4>1, SlotNumbers DEF Callers, Away
      <4>2. CASE Goto(r, "add")
        BY <2>1, <4>2, GotoKeepsCallers
      <4>3. CASE caller[r].tries < MaxTries /\ caller' = [caller EXCEPT ![r].tries = @ + 1]
        BY <2>1, <4>3, SlotNumbers DEF Callers
      <4>. QED BY <3>2, <4>1, <4>2, <4>3 DEF Poll
    <3>3. CASE RedisFails(r)
      BY <2>1, <3>3, GotoKeepsCallers DEF RedisFails
    <3>4. CASE Finish(r)
      BY <2>1, <3>4, GotoKeepsCallers DEF Finish
    <3>. QED BY <3>1, <3>2, <3>3, <3>4
  <2>3. /\ UNCHANGED <<slots, lost, ttl, localSlots, localLost, raced, expired>>
        /\ unset' \in BOOLEAN
    BY DEF SlotTypeOK, Acquire, Poll, RedisFails, Finish
  <2>. QED BY <2>2, <2>3 DEF SlotTypeOK, Callers
<1>2. RedisIdsAreHeld'
  BY DEF SlotTypeOK, RedisIdsAreHeld, Acquire, Poll, RedisFails, Finish, Goto, At, Away
<1>3. LocalIdsAreHeld'
  BY DEF SlotTypeOK, LocalIdsAreHeld, Acquire, Poll, RedisFails, Finish, Goto, At, Away
<1>4. UNCHANGED <<slots, lost, localSlots, localLost, raced>>
  BY DEF Acquire, Poll, RedisFails, Finish
<1>5. IdsAreLimited'
  BY <1>4, RedisUntouched, LocalUntouched DEF IdsAreLimited
<1>. QED BY <1>1, <1>2, <1>3, <1>5

\* SADD: an id that finds the set full by then is the one that raced.
LEMMA AddKeepsInv ==
  ASSUME SlotInv, NEW r \in Caller, Add(r)
  PROVE  SlotInv'
<1>. USE DEF SlotInv, Add
<1>1. SlotTypeOK'
  <2>1. caller' \in Callers
    BY GotoKeepsCallers DEF SlotTypeOK, Callers
  <2>2. ttl' \in 0..NoTtl /\ unset' \in BOOLEAN
    BY SlotNumbers DEF SlotTypeOK, NoTtl
  <2>. QED BY <2>1, <2>2 DEF SlotTypeOK, Callers
<1>2. RedisIdsAreHeld'
  BY DEF SlotTypeOK, RedisIdsAreHeld, Goto, At
<1>3. LocalIdsAreHeld'
  BY DEF SlotTypeOK, LocalIdsAreHeld, Goto, At
<1>4. (Cardinality(slots \ raced) <= MaxSlots)'
  <2>1. slots \subseteq Caller /\ raced \subseteq Caller /\ lost \in Nat /\ MaxSlots \in Nat
    BY SlotAssumption DEF SlotTypeOK
  <2>2. /\ Cardinality(slots) \in Nat /\ Cardinality(slots \ raced) \in Nat
        /\ Cardinality(slots' \ raced') \in Nat
    <3>1. slots' \ raced' \in SUBSET Caller /\ slots \ raced \in SUBSET Caller
      BY <2>1
    <3>. QED BY <2>1, <3>1, CallersAreFinite
  <2>3. CASE Card >= MaxSlots
    <3>1. slots' \ raced' \in SUBSET (slots \ raced)
      BY <2>3
    <3>2. Cardinality(slots' \ raced') <= Cardinality(slots \ raced)
      BY <2>1, <3>1, CallersAreFinite
    <3>. QED BY <2>1, <2>2, <3>2 DEF IdsAreLimited
  <2>4. CASE Card < MaxSlots
    <3>1. slots' \ raced' \in SUBSET (slots \cup {r}) /\ slots \cup {r} \in SUBSET Caller
      BY <2>1
    <3>2. Cardinality(slots' \ raced') <= Cardinality(slots \cup {r})
      BY <3>1, CallersAreFinite
    <3>3. Cardinality(slots \cup {r}) <= Cardinality(slots) + 1
      BY <2>1, OneIdMoreOrLess
    <3>4. Cardinality(slots \cup {r}) \in Nat
      BY <3>1, CallersAreFinite
    <3>. QED BY <2>1, <2>2, <2>4, <3>2, <3>3, <3>4 DEF Card
  <2>5. Card \in Nat
    BY <2>1, <2>2 DEF Card
  <2>. QED BY <2>1, <2>3, <2>4, <2>5
<1>5. (\A p \in Process : LocalCard(p) <= MaxSlots)'
  BY LocalUntouched
<1>. QED BY <1>1, <1>2, <1>3, <1>4, <1>5 DEF IdsAreLimited

\* EXPIRE admits the caller.
LEMMA RenewKeepsInv ==
  ASSUME SlotInv, NEW r \in Caller, Renew(r)
  PROVE  SlotInv'
<1>. USE DEF SlotInv, Renew
<1>1. SlotTypeOK'
  BY SlotAssumption DEF SlotTypeOK, At, NoTtl
<1>2. RedisIdsAreHeld'
  BY DEF SlotTypeOK, RedisIdsAreHeld, At
<1>3. LocalIdsAreHeld'
  BY DEF SlotTypeOK, LocalIdsAreHeld, At
<1>4. IdsAreLimited'
  BY RedisUntouched, LocalUntouched DEF IdsAreLimited
<1>. QED BY <1>1, <1>2, <1>3, <1>4

\* The fallback admits a caller while its process has room, or sends it away.
LEMMA AcquireLocalKeepsInv ==
  ASSUME SlotInv, NEW r \in Caller, AcquireLocal(r)
  PROVE  SlotInv'
<1>. USE DEF SlotInv
<1>. DEFINE p == Home[r]
<1>0. /\ p \in Process /\ localSlots[p] \in SUBSET Caller /\ localLost[p] \in Nat
      /\ MaxSlots \in Nat
  BY SlotAssumption DEF SlotTypeOK
<1>1. CASE /\ LocalCard(p) < MaxSlots
           /\ localSlots' = [localSlots EXCEPT ![p] = @ \cup {r}]
           /\ caller' = [caller EXCEPT ![r] = [pc |-> "held", tries |-> 0, via |-> "local"]]
           /\ UNCHANGED <<slots, lost, raced, expired, ttl, localLost, unset>>
  <2>1. SlotTypeOK'
    BY <1>0, <1>1, SlotAssumption DEF SlotTypeOK
  <2>2. RedisIdsAreHeld'
    BY <1>1 DEF SlotTypeOK, RedisIdsAreHeld, AcquireLocal, At
  <2>3. LocalIdsAreHeld'
    BY <1>0, <1>1 DEF SlotTypeOK, LocalIdsAreHeld
  <2>4. (\A q \in Process : LocalCard(q) <= MaxSlots)'
    <3>. SUFFICES ASSUME NEW q \in Process PROVE LocalCard(q)' <= MaxSlots
      OBVIOUS
    <3>1. CASE q # p
      BY <1>0, <1>1, <3>1 DEF LocalCard, IdsAreLimited, SlotTypeOK
    <3>2. CASE q = p
      <4>1. localSlots'[p] = localSlots[p] \cup {r} /\ localLost'[p] = localLost[p]
        BY <1>0, <1>1 DEF SlotTypeOK
      <4>2. Cardinality(localSlots[p] \cup {r}) <= Cardinality(localSlots[p]) + 1
        BY <1>0, OneIdMoreOrLess
      <4>3. Cardinality(localSlots[p]) \in Nat /\ Cardinality(localSlots[p] \cup {r}) \in Nat
        BY <1>0, CallersAreFinite
      <4>4. Cardinality(localSlots[p]) + localLost[p] < MaxSlots
        BY <1>1 DEF LocalCard
      <4>5. LocalCard(p)' = Cardinality(localSlots[p] \cup {r}) + localLost[p]
        BY <4>1 DEF LocalCard
      <4>. QED BY <1>0, <3>2, <4>2, <4>3, <4>4, <4>5
    <3>. QED BY <3>1, <3>2
  <2>5. (Cardinality(slots \ raced) <= MaxSlots)'
    BY <1>1, RedisUntouched
  <2>. QED BY <2>1, <2>2, <2>3, <2>4, <2>5 DEF IdsAreLimited
<1>2. CASE Leave({r}) /\ At(r, "local") /\ UNCHANGED <<localSlots, ttl, localLost, unset>>
  <2>1. /\ slots' \subseteq Caller /\ raced' \subseteq Caller /\ expired' \subseteq Caller
        /\ lost' \in 0..MaxLost
        /\ RedisIdsAreHeld'
        /\ (Cardinality(slots \ raced) <= MaxSlots)'
    BY <1>2, LeaveKeepsRedis DEF IdsAreLimited
  <2>2. caller' = [c \in Caller |-> IF c = r THEN Away ELSE caller[c]]
    BY <1>2 DEF Leave
  <2>3. SlotTypeOK'
    BY <1>2, <2>1, <2>2, SlotAssumption DEF SlotTypeOK, Away
  <2>4. LocalIdsAreHeld'
    BY <1>2, <2>2 DEF SlotTypeOK, LocalIdsAreHeld, At, Away
  <2>5. (\A q \in Process : LocalCard(q) <= MaxSlots)'
    BY <1>2, LocalUntouched
  <2>. QED BY <2>1, <2>3, <2>4, <2>5 DEF IdsAreLimited
<1>. QED BY <1>1, <1>2 DEF AcquireLocal

\* A release takes the id from where SREM or the local fallback find it; the
\* other set may keep it, as lost.
LEMMA ReleaseKeepsInv ==
  ASSUME SlotInv, NEW r \in Caller, Release(r)
  PROVE  SlotInv'
<1>. USE DEF SlotInv
<1>. DEFINE p == Home[r]
<1>0. /\ p \in Process /\ localSlots[p] \in SUBSET Caller /\ localLost[p] \in Nat
      /\ caller' = [c \in Caller |-> IF c = r THEN Away ELSE caller[c]]
      /\ localSlots' = [localSlots EXCEPT ![p] = @ \ {r}]
      /\ unset' = unset
  BY SlotAssumption DEF SlotTypeOK, Release, Leave
<1>1. /\ slots' \subseteq Caller /\ raced' \subseteq Caller /\ expired' \subseteq Caller
      /\ lost' \in 0..MaxLost
      /\ RedisIdsAreHeld'
      /\ (Cardinality(slots \ raced) <= MaxSlots)'
  <2>1. CASE Leave({r})
    BY <2>1, LeaveKeepsRedis DEF IdsAreLimited
  <2>2. CASE /\ slots' = slots \ {r} /\ lost' = lost
             /\ raced' = raced \ {r} /\ expired' = expired \ {r}
    <3>1. slots' \subseteq Caller /\ raced' \subseteq Caller /\ expired' \subseteq Caller
      BY <2>2 DEF SlotTypeOK
    <3>2. RedisIdsAreHeld'
      BY <1>0, <2>2 DEF SlotTypeOK, RedisIdsAreHeld, At, Away
    <3>3. slots' \ raced' \in SUBSET (slots \ raced) /\ slots \ raced \in SUBSET Caller
      BY <2>2 DEF SlotTypeOK
    <3>4. /\ Cardinality(slots' \ raced') <= Cardinality(slots \ raced)
          /\ Cardinality(slots \ raced) \in Nat
      BY <3>3, CallersAreFinite
    <3>5. Cardinality(slots' \ raced') \in Nat
      BY <3>1, CallersAreFinite
    <3>. QED BY <2>2, <3>1, <3>2, <3>4, <3>5, SlotNumbers DEF IdsAreLimited, SlotTypeOK
  <2>. QED BY <2>1, <2>2 DEF Release
<1>2. (\A q \in Process : LocalCard(q) <= MaxSlots)'
      /\ localLost' \in [Process -> 0..MaxSlots]
  <2>1. CASE UNCHANGED localLost
    <3>. SUFFICES ASSUME NEW q \in Process PROVE LocalCard(q)' <= MaxSlots
      BY <2>1 DEF SlotTypeOK
    <3>1. localSlots'[q] \in SUBSET localSlots[q] /\ localSlots[q] \in SUBSET Caller
      BY <1>0 DEF SlotTypeOK
    <3>2. /\ Cardinality(localSlots'[q]) <= Cardinality(localSlots[q])
          /\ Cardinality(localSlots[q]) \in Nat /\ localLost[q] \in Nat
      BY <3>1, CallersAreFinite, SlotNumbers DEF SlotTypeOK
    <3>3. Cardinality(localSlots'[q]) \in Nat
      BY <3>1, CallersAreFinite
    <3>4. Cardinality(localSlots[q]) + localLost[q] <= MaxSlots
      BY DEF IdsAreLimited, LocalCard
    <3>. QED BY <2>1, <3>2, <3>3, <3>4, SlotNumbers DEF LocalCard
  <2>2. CASE localLost' = [localLost EXCEPT ![p] = IF r \in localSlots[p] THEN @ + 1 ELSE @]
    <3>1. CASE r \notin localSlots[p]
      <4>1. localLost' = localLost /\ localSlots' = localSlots
        BY <1>0, <2>2, <3>1 DEF SlotTypeOK
      <4>. QED BY <4>1, LocalUntouched DEF SlotTypeOK
    <3>2. CASE r \in localSlots[p]
      <4>1. localLost'[p] = localLost[p] + 1 /\ localSlots'[p] = localSlots[p] \ {r}
        BY <1>0, <2>2, <3>2 DEF SlotTypeOK
      <4>2. /\ Cardinality(localSlots[p] \ {r}) = Cardinality(localSlots[p]) - 1
            /\ Cardinality(localSlots[p]) \in Nat /\ Cardinality(localSlots[p] \ {r}) \in Nat
        <5>1. localSlots[p] \ {r} \in SUBSET Caller
          BY <1>0
        <5>. QED BY <1>0, <3>2, <5>1, OneIdMoreOrLess, CallersAreFinite
      <4>3. Cardinality(localSlots[p]) + localLost[p] <= MaxSlots
        BY <1>0 DEF IdsAreLimited, LocalCard
      <4>4. Cardinality(localSlots'[p]) + localLost'[p] <= MaxSlots
        <5>1. Cardinality(localSlots'[p]) = Cardinality(localSlots[p]) - 1
          BY <4>1, <4>2
        <5>2. localLost'[p] = localLost[p] + 1 /\ localLost[p] \in Nat
          BY <1>0, <4>1
        <5>. QED BY <4>2, <4>3, <5>1, <5>2, SlotNumbers
      <4>5. localLost'[p] \in 0..MaxSlots
        BY <1>0, <4>1, <4>2, <4>3, SlotNumbers
      <4>6. \A q \in Process \ {p} : localSlots'[q] = localSlots[q] /\ localLost'[q] = localLost[q]
        BY <1>0, <2>2 DEF SlotTypeOK
      <4>7. \A q \in Process : LocalCard(q)' <= MaxSlots
        BY <4>4, <4>6 DEF LocalCard, IdsAreLimited
      <4>8. localLost' \in [Process -> 0..MaxSlots]
        BY <1>0, <2>2, <4>5, <4>6 DEF SlotTypeOK
      <4>. QED BY <4>7, <4>8
    <3>. QED BY <3>1, <3>2
  <2>. QED BY <2>1, <2>2 DEF Release
<1>3. SlotTypeOK'
  <2>1. caller' \in Callers
    BY <1>0, SlotNumbers DEF SlotTypeOK, Callers, Away
  <2>2. ttl' \in 0..NoTtl
    BY SlotNumbers DEF Release, NoTtl, SlotTypeOK
  <2>3. localSlots' \in [Process -> SUBSET Caller]
    BY <1>0 DEF SlotTypeOK
  <2>. QED BY <1>0, <1>1, <1>2, <2>1, <2>2, <2>3 DEF SlotTypeOK, Callers
<1>4. LocalIdsAreHeld'
  BY <1>0, SlotAssumption DEF SlotTypeOK, LocalIdsAreHeld, Release, At, Away
<1>. QED BY <1>1, <1>2, <1>3, <1>4 DEF IdsAreLimited

\* The expiry takes all ids at once, and the history remembers whose.
LEMMA TickKeepsInv ==
  ASSUME SlotInv, Tick
  PROVE  SlotInv'
<1>. USE DEF SlotInv, Tick
<1>1. SlotTypeOK'
  BY SlotNumbers DEF SlotTypeOK, NoTtl
<1>2. RedisIdsAreHeld'
  BY DEF SlotTypeOK, RedisIdsAreHeld, At
<1>3. LocalIdsAreHeld'
  BY DEF LocalIdsAreHeld
<1>4. (Cardinality(slots \ raced) <= MaxSlots)'
  <2>1. CASE ttl > 1
    BY <2>1, RedisUntouched
  <2>2. CASE ttl = 1
    <3>1. slots' \ raced' = {} /\ Cardinality({}) = 0
      BY <2>2, FS_EmptySet
    <3>. QED BY <3>1, SlotNumbers
  <2>. QED BY <2>1, <2>2
<1>5. (\A p \in Process : LocalCard(p) <= MaxSlots)'
  BY LocalUntouched
<1>. QED BY <1>1, <1>2, <1>3, <1>4, <1>5 DEF IdsAreLimited

\* A crash clears the memory of one process, and moves its ids to lost.
LEMMA CrashKeepsInv ==
  ASSUME SlotInv, NEW p \in Process, Crash(p)
  PROVE  SlotInv'
<1>. USE DEF SlotInv
<1>. DEFINE gone == {r \in Caller : Home[r] = p}
<1>0. /\ Leave(gone) /\ UNCHANGED ttl /\ unset' \in BOOLEAN
      /\ localSlots' = [localSlots EXCEPT ![p] = {}]
      /\ localLost' = [localLost EXCEPT ![p] = 0]
      /\ caller' = [r \in Caller |-> IF r \in gone THEN Away ELSE caller[r]]
  BY DEF Crash, Leave, SlotTypeOK
<1>1. /\ slots' \subseteq Caller /\ raced' \subseteq Caller /\ expired' \subseteq Caller
      /\ lost' \in 0..MaxLost
      /\ RedisIdsAreHeld'
      /\ (Cardinality(slots \ raced) <= MaxSlots)'
  BY <1>0, LeaveKeepsRedis DEF IdsAreLimited
<1>2. SlotTypeOK'
  <2>1. caller' \in Callers
    BY <1>0, SlotNumbers DEF SlotTypeOK, Callers, Away
  <2>2. /\ localSlots' \in [Process -> SUBSET Caller]
        /\ localLost' \in [Process -> 0..MaxSlots]
    BY <1>0, SlotNumbers DEF SlotTypeOK
  <2>. QED BY <1>0, <1>1, <2>1, <2>2 DEF SlotTypeOK, Callers
<1>3. LocalIdsAreHeld'
  <2>. SUFFICES ASSUME NEW r \in Caller
                PROVE  /\ \A q \in Process :
                            r \in localSlots'[q] =>
                              /\ q = Home[r] /\ caller'[r].pc \in {"held", "release"}
                              /\ caller'[r].via = "local"
                       /\ caller'[r].pc \in {"held", "release"} /\ caller'[r].via = "local"
                            => r \in localSlots'[Home[r]]
    BY DEF LocalIdsAreHeld
  <2>1. CASE r \in gone
    BY <1>0, <2>1 DEF LocalIdsAreHeld, SlotTypeOK, Away
  <2>2. CASE r \notin gone
    <3>1. caller'[r] = caller[r] /\ Home[r] # p /\ Home[r] \in Process
      BY <1>0, <2>2, SlotAssumption
    <3>. QED BY <1>0, <3>1 DEF LocalIdsAreHeld, SlotTypeOK
  <2>. QED BY <2>1, <2>2
<1>4. (\A q \in Process : LocalCard(q) <= MaxSlots)'
  <2>. SUFFICES ASSUME NEW q \in Process PROVE LocalCard(q)' <= MaxSlots
    OBVIOUS
  <2>1. CASE q # p
    BY <1>0, <2>1 DEF LocalCard, IdsAreLimited, SlotTypeOK
  <2>2. CASE q = p
    <3>1. localSlots'[p] = {} /\ localLost'[p] = 0 /\ Cardinality({}) = 0
      BY <1>0, FS_EmptySet DEF SlotTypeOK
    <3>. QED BY <2>2, <3>1, SlotNumbers DEF LocalCard
  <2>. QED BY <2>1, <2>2
<1>. QED BY <1>1, <1>2, <1>3, <1>4 DEF IdsAreLimited

-----------------------------------------------------------------------------
LEMMA SlotStepKeepsInv == SlotInv /\ [SlotNext]_slotVars => SlotInv'
<1>. SUFFICES ASSUME SlotInv, [SlotNext]_slotVars PROVE SlotInv'
  OBVIOUS
<1>1. ASSUME NEW r \in Caller, Acquire(r) \/ SlotStep(r) \/ RedisFails(r) PROVE SlotInv'
  BY <1>1, AcquireKeepsInv, AddKeepsInv, RenewKeepsInv, AcquireLocalKeepsInv, ReleaseKeepsInv
     DEF SlotStep
<1>2. CASE Tick
  BY <1>2, TickKeepsInv
<1>3. ASSUME NEW p \in Process, Crash(p) PROVE SlotInv'
  BY <1>3, CrashKeepsInv
<1>4. CASE UNCHANGED slotVars
  BY <1>4 DEF slotVars, SlotInv, SlotTypeOK, RedisIdsAreHeld, LocalIdsAreHeld, IdsAreLimited,
     LocalCard, At
<1>. QED BY <1>1, <1>2, <1>3, <1>4 DEF SlotNext

\* What holds of the ids holds of those who use the LLM.
LEMMA SlotInvSuffices == SlotInv => SlotsAreCounted
<1>. SUFFICES ASSUME SlotInv PROVE SlotsAreCounted
  OBVIOUS
<1>. USE DEF SlotInv
<1>1. UsersAreCounted
  BY DEF UsersAreCounted, Using, RedisIdsAreHeld, LocalIdsAreHeld
<1>2. NobodyElseIsCounted
  BY SlotAssumption DEF NobodyElseIsCounted, RedisIdsAreHeld, LocalIdsAreHeld, At, SlotTypeOK
<1>3. LimitHoldsUnlessRaced
  <2>1. Cardinality(Using("redis") \ (raced \cup expired)) <= MaxSlots
    <3>1. /\ Using("redis") \ (raced \cup expired) \in SUBSET (slots \ raced)
          /\ slots \ raced \in SUBSET Caller
      BY <1>1 DEF UsersAreCounted, SlotTypeOK
    <3>2. /\ Cardinality(Using("redis") \ (raced \cup expired)) <= Cardinality(slots \ raced)
          /\ Cardinality(slots \ raced) \in Nat
      BY <3>1, CallersAreFinite
    <3>3. Cardinality(Using("redis") \ (raced \cup expired)) \in Nat
      <4>1. Using("redis") \ (raced \cup expired) \in SUBSET Caller
        BY <3>1
      <4>. QED BY <4>1, CallersAreFinite
    <3>. QED BY <3>2, <3>3, SlotNumbers DEF IdsAreLimited
  <2>2. ASSUME NEW p \in Process
        PROVE  Cardinality({r \in Using("local") : Home[r] = p}) <= MaxSlots
    <3>. DEFINE users == {r \in Using("local") : Home[r] = p}
    <3>1. users \in SUBSET localSlots[p] /\ localSlots[p] \in SUBSET Caller
      BY <1>1 DEF UsersAreCounted, SlotTypeOK
    <3>2. users \in SUBSET Caller
      BY <3>1
    <3>3. /\ Cardinality(users) <= Cardinality(localSlots[p])
          /\ Cardinality(localSlots[p]) \in Nat /\ Cardinality(users) \in Nat
      BY <3>1, <3>2, CallersAreFinite
    <3>4. localLost[p] \in Nat /\ Cardinality(localSlots[p]) + localLost[p] <= MaxSlots
      BY SlotNumbers DEF IdsAreLimited, LocalCard, SlotTypeOK
    <3>. HIDE DEF users
    <3>. QED BY <3>3, <3>4, SlotNumbers DEF users
  <2>. QED BY <2>1, <2>2 DEF LimitHoldsUnlessRaced
<1>. QED BY <1>1, <1>2, <1>3 DEF SlotsAreCounted

\* Whatever callers do and whatever fails, everybody who uses the LLM is counted
\* and nobody else is; so the limit holds, but for the races and the expiries
\* that acquire_llm_slot allows (rate_limiter.py, lines 147-205).
THEOREM SlotsStayCounted == SlotSpec => []SlotsAreCounted
<1>1. SlotSpec => []SlotInv
  BY SlotInitInv, SlotStepKeepsInv, PTL DEF SlotSpec
<1>. QED BY <1>1, SlotInvSuffices, PTL

-----------------------------------------------------------------------------
(* The windows.  A request on its way to the hour is counted as let        *)
(* through in its minute, and what the fallback has let through lately has *)
(* an entry of its own in the list, so that the length of the list limits  *)
(* it: WindowInv.                                                          *)
(***************************************************************************)

Admission == [of : Hit, at : Time, via : {"redis", "local"}]

\* At most n.
Few(S, n) == IsFiniteSet(S) /\ Cardinality(S) <= n

\* What a minute has let through, or will when the hour has been counted.
OfMinute(w) ==
  {a \in Admission :
     /\ a.via = "redis" /\ Minute(a.at) = w
     /\ a \in admitted \/ (HitAt(a.of, "hour") /\ hit[a.of].at = a.at)}
OfHour(w) == {a \in admitted : a.via = "redis" /\ Hour(a.at) = w}

\* What the fallback has let through in the last n ticks, and in n ticks from t.
Recent(n) == {a \in admitted : a.via = "local" /\ clock - a.at < n}
Locally(t, n) == {a \in admitted : a.via = "local" /\ a.at \in t..(t + n - 1)}

\* Each of R has its own entry in s.
Remembers(s, R) ==
  \E F \in [R -> 1..Len(s)] :
    /\ \A a, b \in R : F[a] = F[b] => a = b
    /\ \A a \in R : s[F[a]] = a.at

CountersHold ==
  /\ \A w \in Time : Few(OfMinute(w), minuteCount[w]) /\ Few(OfMinute(w), PerMinute)
  /\ \A w \in Time : Few(OfHour(w), hourCount[w]) /\ Few(OfHour(w), PerHour)

FallbackHolds ==
  /\ Remembers(localMinute, Recent(MinuteTicks)) /\ Remembers(localHour, Recent(HourTicks))
  /\ \A t \in Time : Few(Locally(t, MinuteTicks), PerMinute) /\ Few(Locally(t, HourTicks), PerHour)

WindowInv == WindowTypeOK /\ LocalListsStaySmall /\ CountersHold /\ FallbackHolds

-----------------------------------------------------------------------------
LEMMA WindowConstants ==
  /\ PerMinute \in Nat /\ PerMinute # 0 /\ PerHour \in Nat /\ PerHour # 0
  /\ MinuteTicks \in Nat /\ MinuteTicks # 0 /\ HourTicks \in Nat /\ HourTicks # 0
  /\ LastTick \in Nat /\ Time \subseteq Nat /\ 0 \in Time
BY WindowAssumption DEF Time

\* Windows are counted from the start of the clock.
LEMMA MinutesAndHours ==
  ASSUME NEW t \in Time
  PROVE  Minute(t) \in Time /\ Hour(t) \in Time
<1>1. t \in Nat /\ t <= LastTick
  BY WindowConstants DEF Time
<1>2. t \div MinuteTicks \in Nat /\ t \div MinuteTicks <= t
  BY <1>1, WindowConstants
<1>3. t \div HourTicks \in Nat /\ t \div HourTicks <= t
  BY <1>1, WindowConstants
<1>. QED BY <1>1, <1>2, <1>3, WindowConstants DEF Minute, Hour, Time

LEMMA FewerAreFew ==
  ASSUME NEW S, NEW n \in Nat, Few(S, n), NEW T \in SUBSET S, NEW m \in Nat, n <= m
  PROVE  Few(T, m)
<1>1. IsFiniteSet(T) /\ Cardinality(T) <= Cardinality(S)
  BY FS_Subset DEF Few
<1>2. Cardinality(T) \in Nat /\ Cardinality(S) \in Nat
  BY <1>1, FS_CardinalityType DEF Few
<1>. QED BY <1>1, <1>2 DEF Few

LEMMA OneMoreIsFew ==
  ASSUME NEW S, NEW n \in Nat, Few(S, n), NEW x
  PROVE  Few(S \cup {x}, n + 1)
<1>1. /\ IsFiniteSet(S \cup {x})
      /\ Cardinality(S \cup {x}) = IF x \in S THEN Cardinality(S) ELSE Cardinality(S) + 1
  BY FS_AddElement DEF Few
<1>2. Cardinality(S) \in Nat
  BY FS_CardinalityType DEF Few
<1>. QED BY <1>1, <1>2 DEF Few

LEMMA NoneIsFew == ASSUME NEW n \in Nat PROVE Few({}, n)
BY FS_EmptySet DEF Few

LEMMA WindowTypes ==
  ASSUME WindowInv
  PROVE  /\ clock \in Time /\ clock \in Nat
         /\ minuteCount \in [Time -> Nat] /\ hourCount \in [Time -> Nat]
         /\ localMinute \in Seq(Time) /\ localHour \in Seq(Time)
         /\ hit \in [Hit -> [pc : HitPC, at : Time]] /\ admitted \subseteq Admission
         /\ Len(localMinute) <= PerMinute /\ Len(localHour) <= PerHour
BY WindowConstants DEF WindowInv, WindowTypeOK, LocalListsStaySmall, Admission

LEMMA WindowInitInv == WindowInit => WindowInv
<1>. SUFFICES ASSUME WindowInit PROVE WindowInv
  OBVIOUS
<1>1. <<>> \in Seq(Time) /\ Len(<<>>) = 0
  OBVIOUS
<1>2. WindowTypeOK
  BY <1>1, WindowConstants DEF WindowInit, WindowTypeOK, HitPC
<1>3. \A w : OfMinute(w) = {} /\ OfHour(w) = {}
  BY DEF WindowInit, OfMinute, OfHour, HitAt, Admission
<1>4. \A n : Recent(n) = {} /\ \A t : Locally(t, n) = {}
  BY DEF WindowInit, Recent, Locally
<1>5. Remembers(<<>>, {})
  <2> DEFINE F == [a \in {} |-> a]
  <2>1. F \in [{} -> 1..Len(<<>>)]
    OBVIOUS
  <2> HIDE DEF F
  <2>. QED BY <2>1 DEF Remembers
<1>6. localMinute = <<>> /\ localHour = <<>>
  BY DEF WindowInit
<1>7. LocalListsStaySmall
  BY <1>1, <1>6, WindowConstants DEF LocalListsStaySmall
<1>8. CountersHold
  BY <1>2, <1>3, NoneIsFew, WindowConstants DEF CountersHold, WindowTypeOK
<1>9. FallbackHolds
  BY <1>4, <1>5, <1>6, NoneIsFew, WindowConstants DEF FallbackHolds
<1>. QED BY <1>2, <1>7, <1>8, <1>9 DEF WindowInv

-----------------------------------------------------------------------------
(* The counters *)

\* A request moves on, perhaps to be let through by Redis, perhaps counted for
\* another minute or hour: r is the only one that can, and x is what it is.
LEMMA CountingKeepsInv ==
  ASSUME WindowInv, NEW r \in Hit, NEW x \in [pc : HitPC, at : Time], hit' = [hit EXCEPT ![r] = x],
         UNCHANGED <<clock, localMinute, localHour>>,
         minuteCount' \in [Time -> Nat], hourCount' \in [Time -> Nat],
         admitted' \subseteq admitted \cup {[of |-> r, at |-> x.at, via |-> "redis"]},
         admitted \subseteq admitted', CountersHold'
  PROVE  WindowInv'
<1>1. hit' \in [Hit -> [pc : HitPC, at : Time]]
  BY WindowTypes
<1>2. [of |-> r, at |-> x.at, via |-> "redis"] \in Admission
  BY DEF Admission
<1>3. admitted' \subseteq Admission
  BY <1>2, WindowTypes
<1>4. WindowTypeOK' /\ LocalListsStaySmall'
  BY <1>1, <1>3 DEF WindowInv, WindowTypeOK, LocalListsStaySmall, Admission
<1>5. \A a : a \in admitted' /\ a.via = "local" <=> a \in admitted /\ a.via = "local"
  OBVIOUS
<1>6. Recent(MinuteTicks)' = Recent(MinuteTicks) /\ Recent(HourTicks)' = Recent(HourTicks)
  BY <1>5 DEF Recent
<1>7. \A t : Locally(t, MinuteTicks)' = Locally(t, MinuteTicks) /\ Locally(t, HourTicks)' = Locally(t, HourTicks)
  BY <1>5 DEF Locally
<1>8. FallbackHolds'
  BY <1>6, <1>7 DEF WindowInv, FallbackHolds
<1>. QED BY <1>4, <1>8 DEF WindowInv

LEMMA FewStay ==
  ASSUME NEW S, NEW T \in SUBSET S, NEW n \in Nat, NEW m \in Nat, n <= m, NEW l \in Nat,
         Few(S, n), Few(S, l)
  PROVE  Few(T, m) /\ Few(T, l)
<1>1. l <= l
  OBVIOUS
<1>. QED BY <1>1, FewerAreFew

\* The window that r is counted in has one more, and the count admits it; the
\* other windows have what they had.
LEMMA OneMoreCounted ==
  ASSUME NEW S, NEW T, NEW x, NEW n \in Nat, NEW l \in Nat, Few(S, n), Few(S, l),
         T \subseteq S \cup {x}, n + 1 <= l \/ T \subseteq S
  PROVE  Few(T, n + 1) /\ Few(T, l)
<1>1. CASE T \subseteq S
  BY <1>1, FewStay, n <= n + 1
<1>2. CASE n + 1 <= l
  <2>1. Few(S \cup {x}, n + 1) /\ n + 1 \in Nat /\ n + 1 <= n + 1
    BY OneMoreIsFew
  <2>. QED BY <1>2, <2>1, FewerAreFew
<1>. QED BY <1>1, <1>2

LEMMA HitsAre ==
  ASSUME WindowInv, NEW r \in Hit
  PROVE  /\ hit[r] \in [pc : HitPC, at : Time] /\ hit[r].at \in Time
         /\ \A p \in HitPC : /\ [hit[r] EXCEPT !.pc = p] \in [pc : HitPC, at : Time]
                             /\ [hit[r] EXCEPT !.pc = p].pc = p
                             /\ [hit[r] EXCEPT !.pc = p].at = hit[r].at
BY WindowTypes

\* A request that is not on its way to the hour leaves nothing in its minute.
LEMMA MinutesLose ==
  ASSUME WindowInv, NEW r \in Hit, NEW x \in [pc : HitPC, at : Time], hit' = [hit EXCEPT ![r] = x],
         x.pc # "hour", NEW w,
         admitted' \subseteq admitted \cup
           (IF HitAt(r, "hour") THEN {[of |-> r, at |-> hit[r].at, via |-> "redis"]}
            ELSE {a \in Admission : a.via = "local"})
  PROVE  OfMinute(w)' \subseteq OfMinute(w)
<1> SUFFICES ASSUME NEW a \in Admission, a.via = "redis", Minute(a.at) = w,
                    a \in admitted' \/ (HitAt(a.of, "hour")' /\ hit'[a.of].at = a.at)
             PROVE  a \in OfMinute(w)
  BY DEF OfMinute
<1>1. a.of \in Hit /\ hit'[r] = x /\ \A q \in Hit : q # r => hit'[q] = hit[q]
  BY WindowTypes DEF Admission
<1>2. CASE a \in admitted
  BY <1>2 DEF OfMinute
<1>3. CASE HitAt(a.of, "hour")' /\ hit'[a.of].at = a.at
  <2>1. a.of # r
    BY <1>1, <1>3 DEF HitAt
  <2>2. HitAt(a.of, "hour") /\ hit[a.of].at = a.at
    BY <1>1, <1>3, <2>1 DEF HitAt
  <2>. QED BY <2>2 DEF OfMinute
<1>4. CASE a \in admitted' \ admitted
  <2>1. HitAt(r, "hour") /\ a = [of |-> r, at |-> hit[r].at, via |-> "redis"]
    BY <1>4
  <2>2. a.of = r /\ a.at = hit[r].at
    BY <2>1
  <2>. QED BY <2>1, <2>2 DEF OfMinute
<1>. QED BY <1>2, <1>3, <1>4

LEMMA CheckLimitKeepsInv ==
  ASSUME WindowInv, NEW r \in Hit, CheckLimit(r)
  PROVE  WindowInv'
<1>1. PICK x \in [pc : HitPC, at : Time] : hit' = [hit EXCEPT ![r] = x] /\ x.pc = "minute"
  <2>1. [pc |-> "minute", at |-> clock] \in [pc : HitPC, at : Time]
    BY WindowTypes DEF HitPC
  <2>. QED BY <2>1 DEF CheckLimit
<1>2. UNCHANGED <<clock, minuteCount, hourCount, localMinute, localHour, admitted>>
  BY DEF CheckLimit
<1>3. \A w \in Time : OfMinute(w)' \subseteq OfMinute(w) /\ OfHour(w)' = OfHour(w)
  BY <1>1, <1>2, MinutesLose DEF OfHour
<1>4. \A w \in Time : minuteCount[w] \in Nat /\ minuteCount[w] <= minuteCount[w]
  BY WindowTypes
<1>5. CountersHold'
  <2> SUFFICES ASSUME NEW w \in Time
               PROVE  /\ Few(OfMinute(w)', minuteCount[w]) /\ Few(OfMinute(w)', PerMinute)
                      /\ Few(OfHour(w)', hourCount[w]) /\ Few(OfHour(w)', PerHour)
    BY <1>2 DEF CountersHold
  <2>1. Few(OfMinute(w), minuteCount[w]) /\ Few(OfMinute(w), PerMinute)
    BY DEF WindowInv, CountersHold
  <2>2. Few(OfMinute(w)', minuteCount[w]) /\ Few(OfMinute(w)', PerMinute)
    BY <1>3, <1>4, <2>1, FewStay, WindowConstants
  <2>. QED BY <1>3, <2>2 DEF WindowInv, CountersHold
<1>. QED BY <1>1, <1>2, <1>5, WindowTypes, CountingKeepsInv

LEMMA CountMinuteKeepsInv ==
  ASSUME WindowInv, NEW r \in Hit, CountMinute(r)
  PROVE  WindowInv'
<1>1. PICK n \in Time : n = Minute(hit[r].at)
  BY HitsAre, MinutesAndHours
<1>2. /\ minuteCount' = [minuteCount EXCEPT ![n] = minuteCount[n] + 1]
      /\ GoHit(r, IF minuteCount'[n] > PerMinute THEN "refused" ELSE "hour")
      /\ UNCHANGED <<clock, hourCount, localMinute, localHour, admitted>>
  BY <1>1 DEF CountMinute
<1>3. /\ minuteCount' \in [Time -> Nat] /\ minuteCount[n] \in Nat
      /\ minuteCount'[n] = minuteCount[n] + 1
      /\ \A w \in Time : w # n => minuteCount'[w] = minuteCount[w]
  BY <1>2, WindowTypes
<1>4. PICK x \in [pc : HitPC, at : Time] :
        /\ hit' = [hit EXCEPT ![r] = x] /\ x.at = hit[r].at
        /\ x.pc = IF minuteCount'[n] > PerMinute THEN "refused" ELSE "hour"
  <2>1. PICK p \in HitPC : p = IF minuteCount'[n] > PerMinute THEN "refused" ELSE "hour"
    BY DEF HitPC
  <2>. QED BY <1>2, <2>1, HitsAre DEF GoHit
<1> DEFINE rec == [of |-> r, at |-> x.at, via |-> "redis"]
<1>5. ASSUME NEW w \in Time, NEW a \in OfMinute(w)', a \notin OfMinute(w)
      PROVE  a = rec /\ w = n /\ x.pc = "hour"
  <2>1. /\ a \in Admission /\ a.via = "redis" /\ Minute(a.at) = w /\ a \notin admitted
        /\ HitAt(a.of, "hour")' /\ hit'[a.of].at = a.at
    BY <1>2, <1>5 DEF OfMinute
  <2>2. a.of \in Hit /\ hit'[r] = x /\ \A q \in Hit : q # r => hit'[q] = hit[q]
    BY <1>4, <2>1, WindowTypes DEF Admission
  <2>3. a.of = r
    BY <1>5, <2>1, <2>2 DEF OfMinute, HitAt
  <2>4. a.at = x.at /\ x.pc = "hour"
    BY <2>1, <2>2, <2>3 DEF HitAt
  <2>5. a = rec
    BY <2>1, <2>3, <2>4 DEF Admission
  <2>. QED BY <1>1, <1>4, <2>1, <2>4, <2>5
<1> HIDE DEF rec
<1>6. \A w \in Time : OfMinute(w)' \subseteq OfMinute(w) \cup {rec} /\ (w # n => OfMinute(w)' \subseteq OfMinute(w))
  BY <1>5
<1>7. minuteCount[n] + 1 <= PerMinute \/ OfMinute(n)' \subseteq OfMinute(n)
  <2>1. CASE minuteCount'[n] > PerMinute
    BY <1>4, <1>5, <2>1
  <2>2. CASE ~(minuteCount'[n] > PerMinute)
    BY <1>3, <2>2, WindowConstants
  <2>. QED BY <2>1, <2>2
<1>8. CountersHold'
  <2> SUFFICES ASSUME NEW w \in Time
               PROVE  /\ Few(OfMinute(w)', minuteCount'[w]) /\ Few(OfMinute(w)', PerMinute)
                      /\ Few(OfHour(w)', hourCount'[w]) /\ Few(OfHour(w)', PerHour)
    BY DEF CountersHold
  <2>1. Few(OfMinute(w), minuteCount[w]) /\ Few(OfMinute(w), PerMinute)
    BY DEF WindowInv, CountersHold
  <2>2. Few(OfMinute(w)', minuteCount'[w]) /\ Few(OfMinute(w)', PerMinute)
    <3>1. CASE w = n
      BY <1>3, <1>6, <1>7, <2>1, <3>1, OneMoreCounted, WindowConstants
    <3>2. CASE w # n
      <4>1. minuteCount[w] \in Nat /\ minuteCount[w] <= minuteCount[w]
        BY WindowTypes
      <4>. QED BY <1>3, <1>6, <2>1, <3>2, <4>1, FewStay, WindowConstants
    <3>. QED BY <3>1, <3>2
  <2>3. OfHour(w)' = OfHour(w)
    BY <1>2 DEF OfHour
  <2>. QED BY <1>2, <2>2, <2>3 DEF WindowInv, CountersHold
<1>. QED BY <1>2, <1>3, <1>4, <1>8, WindowTypes, CountingKeepsInv

LEMMA CountHourKeepsInv ==
  ASSUME WindowInv, NEW r \in Hit, CountHour(r)
  PROVE  WindowInv'
<1>1. PICK n \in Time : n = Hour(hit[r].at)
  BY HitsAre, MinutesAndHours
<1> DEFINE rec == [of |-> r, at |-> hit[r].at, via |-> "redis"]
<1>2. /\ hourCount' = [hourCount EXCEPT ![n] = hourCount[n] + 1] /\ HitAt(r, "hour")
      /\ \/ hourCount'[n] > PerHour /\ GoHit(r, "refused") /\ admitted' = admitted
         \/ hourCount'[n] <= PerHour /\ GoHit(r, "allowed") /\ admitted' = admitted \cup {rec}
      /\ UNCHANGED <<clock, minuteCount, localMinute, localHour>>
  BY <1>1 DEF CountHour, Admit
<1>3. /\ hourCount' \in [Time -> Nat] /\ hourCount[n] \in Nat
      /\ hourCount'[n] = hourCount[n] + 1
      /\ \A w \in Time : w # n => hourCount'[w] = hourCount[w]
  BY <1>2, WindowTypes
<1>4. PICK x \in [pc : HitPC, at : Time] :
        hit' = [hit EXCEPT ![r] = x] /\ x.at = hit[r].at /\ x.pc # "hour"
  <2>1. PICK p \in HitPC : GoHit(r, p) /\ p # "hour"
    BY <1>2 DEF HitPC
  <2>2. PICK x \in [pc : HitPC, at : Time] :
            x = [hit[r] EXCEPT !.pc = p] /\ x.pc = p /\ x.at = hit[r].at
    BY HitsAre
  <2>3. hit' = [hit EXCEPT ![r] = x]
    BY <2>1, <2>2 DEF GoHit
  <2>. QED BY <2>1, <2>2, <2>3
<1>5. rec.at = hit[r].at /\ rec.via = "redis"
  OBVIOUS
<1>6. admitted \subseteq admitted' /\ admitted' \subseteq admitted \cup {rec}
  BY <1>2
<1>7. \A w \in Time : OfMinute(w)' \subseteq OfMinute(w)
  BY <1>2, <1>4, <1>6, MinutesLose
<1> HIDE DEF rec
<1>8. \A w \in Time : /\ OfHour(w)' \subseteq OfHour(w) \cup {rec}
                      /\ w # n => OfHour(w)' \subseteq OfHour(w)
  BY <1>1, <1>5, <1>6 DEF OfHour
<1>9. hourCount[n] + 1 <= PerHour \/ OfHour(n)' \subseteq OfHour(n)
  BY <1>2, <1>3 DEF OfHour
<1>10. CountersHold'
  <2> SUFFICES ASSUME NEW w \in Time
               PROVE  /\ Few(OfMinute(w)', minuteCount'[w]) /\ Few(OfMinute(w)', PerMinute)
                      /\ Few(OfHour(w)', hourCount'[w]) /\ Few(OfHour(w)', PerHour)
    BY DEF CountersHold
  <2>1. /\ Few(OfMinute(w), minuteCount[w]) /\ Few(OfMinute(w), PerMinute)
        /\ Few(OfHour(w), hourCount[w]) /\ Few(OfHour(w), PerHour)
    BY DEF WindowInv, CountersHold
  <2>2. /\ minuteCount[w] \in Nat /\ minuteCount[w] <= minuteCount[w]
        /\ hourCount[w] \in Nat /\ hourCount[w] <= hourCount[w]
    BY WindowTypes
  <2>3. Few(OfMinute(w)', minuteCount'[w]) /\ Few(OfMinute(w)', PerMinute)
    BY <1>2, <1>7, <2>1, <2>2, FewStay, WindowConstants
  <2>4. Few(OfHour(w)', hourCount'[w]) /\ Few(OfHour(w)', PerHour)
    <3>1. CASE w = n
      BY <1>3, <1>8, <1>9, <2>1, <3>1, OneMoreCounted, WindowConstants
    <3>2. CASE w # n
      BY <1>3, <1>8, <2>1, <2>2, <3>2, FewStay, WindowConstants
    <3>. QED BY <3>1, <3>2
  <2>. QED BY <2>3, <2>4
<1>11. rec = [of |-> r, at |-> x.at, via |-> "redis"]
  BY <1>4 DEF rec
<1>12. minuteCount' \in [Time -> Nat]
  BY <1>2, WindowTypes
<1>. QED BY <1>2, <1>3, <1>4, <1>6, <1>10, <1>11, <1>12, CountingKeepsInv

LEMMA CountFailsKeepsInv ==
  ASSUME WindowInv, NEW r \in Hit, CountFails(r)
  PROVE  WindowInv'
<1>1. UNCHANGED <<clock, localMinute, localHour, admitted>> /\ GoHit(r, "local")
  BY DEF CountFails
<1>2. /\ minuteCount' \in [Time -> Nat] /\ hourCount' \in [Time -> Nat]
      /\ \A w \in Time : minuteCount[w] <= minuteCount'[w] /\ hourCount[w] <= hourCount'[w]
  <2>1. \A w \in Time : /\ minuteCount[w] \in Nat /\ minuteCount[w] <= minuteCount[w]
                        /\ minuteCount[w] <= minuteCount[w] + 1 /\ hourCount[w] \in Nat
                        /\ hourCount[w] <= hourCount[w] /\ hourCount[w] <= hourCount[w] + 1
    BY WindowTypes
  <2>2. PICK t \in Time : t = Minute(hit[r].at)
    BY HitsAre, MinutesAndHours
  <2>3. PICK h \in Time : h = Hour(hit[r].at)
    BY HitsAre, MinutesAndHours
  <2>4. \/ UNCHANGED <<minuteCount, hourCount>>
        \/ minuteCount' = [minuteCount EXCEPT ![t] = minuteCount[t] + 1] /\ UNCHANGED hourCount
        \/ hourCount' = [hourCount EXCEPT ![h] = hourCount[h] + 1] /\ UNCHANGED minuteCount
    BY <2>2, <2>3 DEF CountFails
  <2>5. CASE UNCHANGED <<minuteCount, hourCount>>
    BY <2>1, <2>5, WindowTypes
  <2>6. CASE minuteCount' = [minuteCount EXCEPT ![t] = minuteCount[t] + 1] /\ UNCHANGED hourCount
    <3>1. /\ minuteCount' \in [Time -> Nat] /\ minuteCount'[t] = minuteCount[t] + 1
          /\ \A w \in Time : w # t => minuteCount'[w] = minuteCount[w]
      BY <2>6, WindowTypes
    <3>. QED BY <2>1, <2>6, <3>1, WindowTypes
  <2>7. CASE hourCount' = [hourCount EXCEPT ![h] = hourCount[h] + 1] /\ UNCHANGED minuteCount
    <3>1. /\ hourCount' \in [Time -> Nat] /\ hourCount'[h] = hourCount[h] + 1
          /\ \A w \in Time : w # h => hourCount'[w] = hourCount[w]
      BY <2>7, WindowTypes
    <3>. QED BY <2>1, <2>7, <3>1, WindowTypes
  <2>. QED BY <2>4, <2>5, <2>6, <2>7
<1>3. PICK x \in [pc : HitPC, at : Time] : hit' = [hit EXCEPT ![r] = x] /\ x.pc # "hour"
  <2>1. "local" \in HitPC
    BY DEF HitPC
  <2>. QED BY <1>1, <2>1, HitsAre DEF GoHit
<1>4. \A w \in Time : OfMinute(w)' \subseteq OfMinute(w) /\ OfHour(w)' = OfHour(w)
  BY <1>1, <1>3, MinutesLose DEF OfHour
<1>5. CountersHold'
  <2> SUFFICES ASSUME NEW w \in Time
               PROVE  /\ Few(OfMinute(w)', minuteCount'[w]) /\ Few(OfMinute(w)', PerMinute)
                      /\ Few(OfHour(w)', hourCount'[w]) /\ Few(OfHour(w)', PerHour)
    BY DEF CountersHold
  <2>1. /\ Few(OfMinute(w), minuteCount[w]) /\ Few(OfMinute(w), PerMinute)
        /\ Few(OfHour(w), hourCount[w]) /\ Few(OfHour(w), PerHour)
    BY DEF WindowInv, CountersHold
  <2>2. /\ minuteCount[w] \in Nat /\ minuteCount[w] <= minuteCount'[w]
        /\ hourCount[w] \in Nat /\ hourCount[w] <= hourCount'[w]
        /\ minuteCount'[w] \in Nat /\ hourCount'[w] \in Nat
    BY <1>2, WindowTypes
  <2>3. Few(OfMinute(w)', minuteCount'[w]) /\ Few(OfMinute(w)', PerMinute)
    BY <1>4, <2>1, <2>2, FewStay, WindowConstants
  <2>4. Few(OfHour(w)', hourCount'[w]) /\ Few(OfHour(w)', PerHour)
    BY <1>4, <2>1, <2>2, FewStay, WindowConstants
  <2>. QED BY <2>3, <2>4
<1>. QED BY <1>1, <1>2, <1>3, <1>5, CountingKeepsInv

-----------------------------------------------------------------------------
(* The fallback *)

\* What is dropped is no longer recent, and each that is has its entry still:
\* so what is recent is no more than the list is long.
LEMMA WithinRemembers ==
  ASSUME NEW s \in Seq(Time), NEW n \in Nat, clock \in Nat, admitted \subseteq Admission,
         Remembers(s, Recent(n))
  PROVE  /\ Within(s, n) \in Seq(Time) /\ Len(Within(s, n)) <= Len(s)
         /\ Remembers(Within(s, n), Recent(n))
<1> DEFINE T == {t \in Time : clock - t < n}
           m == Within(s, n)
<1>1. m = Those(s, T)
  BY DEF Within
<1>2. m \in Seq(Time) /\ Len(m) <= Len(s)
  BY <1>1, ThoseHold
<1>3. PICK F \in [Recent(n) -> 1..Len(s)] :
          /\ \A a, b \in Recent(n) : F[a] = F[b] => a = b
          /\ \A a \in Recent(n) : s[F[a]] = a.at
  BY DEF Remembers
<1>4. PICK g : KeptIn(g, s, T, m)
  BY <1>1, ThoseKeep
<1>5. /\ g \in [{i \in 1..Len(s) : s[i] \in T} -> 1..Len(m)]
      /\ DOMAIN g = {i \in 1..Len(s) : s[i] \in T}
      /\ \A i, j \in DOMAIN g : g[i] = g[j] => i = j
      /\ \A i \in DOMAIN g : m[g[i]] = s[i]
  BY <1>4 DEF KeptIn
<1>6. \A a \in Recent(n) : F[a] \in DOMAIN g /\ s[F[a]] = a.at
  <2>1. \A a \in Recent(n) : a.at \in T
    BY DEF Recent, Admission
  <2> HIDE DEF T
  <2>. QED BY <1>3, <1>5, <2>1
<1> HIDE DEF m, T
<1> DEFINE G == [a \in Recent(n) |-> g[F[a]]]
<1>7. G \in [Recent(n) -> 1..Len(m)]
  BY <1>5, <1>6
<1>8. \A a, b \in Recent(n) : G[a] = G[b] => a = b
  BY <1>3, <1>5, <1>6
<1>9. \A a \in Recent(n) : m[G[a]] = a.at
  BY <1>5, <1>6
<1> HIDE DEF G
<1>10. Remembers(m, Recent(n))
  BY <1>7, <1>8, <1>9 DEF Remembers
<1>. QED BY <1>2, <1>10 DEF m

\* What has an entry is no more than there are.
LEMMA RememberedAreFew ==
  ASSUME NEW s \in Seq(Time), NEW R, Remembers(s, R)
  PROVE  Few(R, Len(s))
<1>1. PICK F \in [R -> 1..Len(s)] : \A a, b \in R : F[a] = F[b] => a = b
  BY DEF Remembers
<1>2. PICK n \in Nat : n = Len(s)
  OBVIOUS
<1>3. IsFiniteSet(1..n) /\ Cardinality(1..n) = n
  <2>1. 1 \in Int /\ n \in Int
    OBVIOUS
  <2>2. IsFiniteSet(1..n) /\ Cardinality(1..n) = IF 1 > n THEN 0 ELSE n - 1 + 1
    BY <2>1, FS_Interval, Zenon
  <2>. QED BY <2>2
<1>4. F \in Injection(R, 1..n)
  BY <1>1, <1>2 DEF Injection, IsInjective
<1>5. IsFiniteSet(R) /\ Cardinality(R) <= Cardinality(1..n)
  BY <1>3, <1>4, FS_Injection
<1>. QED BY <1>2, <1>3, <1>5 DEF Few

\* One more, with an entry of its own at the end.
LEMMA AppendRemembers ==
  ASSUME NEW s \in Seq(Time), NEW R, Remembers(s, R), NEW x, x.at \in Time
  PROVE  Remembers(Append(s, x.at), R \cup {x})
<1> DEFINE u == Append(s, x.at)
           k == Len(s) + 1
<1>1. /\ Len(u) = k /\ u[k] = x.at /\ \A i \in 1..Len(s) : u[i] = s[i]
      /\ Len(s) \in Nat
  BY AppendProperties
<1>2. PICK F \in [R -> 1..Len(s)] :
          /\ \A a, b \in R : F[a] = F[b] => a = b
          /\ \A a \in R : s[F[a]] = a.at
  BY DEF Remembers
<1> DEFINE G == [a \in R \cup {x} |-> IF a = x THEN k ELSE F[a]]
<1>3. \A a \in R : F[a] \in 1..Len(s) /\ F[a] \in 1..k /\ F[a] # k
  BY <1>1, <1>2
<1>4. k \in 1..k
  BY <1>1
<1> HIDE DEF u, k
<1>5. G \in [R \cup {x} -> 1..k]
  BY <1>3, <1>4
<1>6. \A a, b \in R \cup {x} : G[a] = G[b] => a = b
  BY <1>2, <1>3
<1>7. \A a \in R \cup {x} : u[G[a]] = a.at
  BY <1>1, <1>2, <1>3
<1> HIDE DEF G
<1>8. Remembers(u, R \cup {x})
  BY <1>1, <1>5, <1>6, <1>7 DEF Remembers
<1>. QED BY <1>8 DEF u

\* The fallback lets x through, now: n ticks that are not over had fewer than
\* the limit.
LEMMA LettingThrough ==
  ASSUME NEW n \in Nat, NEW limit \in Nat, NEW s \in Seq(Time), Len(s) < limit,
         Remembers(s, Recent(n)), clock \in Time, clock \in Nat, UNCHANGED clock,
         admitted \subseteq Admission,
         NEW r, n # 0, NEW x, x = [of |-> r, at |-> clock, via |-> "local"],
         admitted' = admitted \cup {x},
         \A t \in Time : Few(Locally(t, n), limit)
  PROVE  /\ Remembers(Append(s, clock), Recent(n)')
         /\ \A t \in Time : Few(Locally(t, n)', limit)
<1>1. x.at = clock /\ x.via = "local" /\ clock - clock < n
  OBVIOUS
<1>2. Recent(n)' = Recent(n) \cup {x}
  BY <1>1 DEF Recent
<1>3. Remembers(Append(s, clock), Recent(n)')
  <2>1. x.at \in Time
    BY <1>1
  <2>2. Remembers(Append(s, x.at), Recent(n) \cup {x})
    BY <2>1, AppendRemembers
  <2>. QED BY <1>1, <1>2, <2>2
<1>4. ASSUME NEW t \in Time PROVE Few(Locally(t, n)', limit)
  <2>1. t \in Nat
    BY WindowConstants
  <2>2. CASE clock \in t..(t + n - 1)
    <3>1. Locally(t, n) \subseteq Recent(n)
      <4> SUFFICES ASSUME NEW a \in admitted, a.via = "local", a.at \in t..(t + n - 1)
                   PROVE  clock - a.at < n
        BY DEF Locally, Recent
      <4>1. a.at \in Nat /\ a.at >= t
        BY <2>1
      <4>. QED BY <2>1, <2>2, <4>1
    <3>2. Locally(t, n)' \subseteq Recent(n) \cup {x}
      BY <1>1, <3>1 DEF Locally
    <3>3. Few(Recent(n), Len(s)) /\ Len(s) \in Nat
      BY RememberedAreFew
    <3>4. Few(Recent(n) \cup {x}, Len(s) + 1)
      BY <3>3, OneMoreIsFew
    <3>5. Len(s) + 1 <= limit /\ Len(s) + 1 \in Nat
      BY <3>3
    <3>. QED BY <3>2, <3>4, <3>5, FewerAreFew
  <2>3. CASE clock \notin t..(t + n - 1)
    <3>1. Locally(t, n)' = Locally(t, n)
      BY <1>1, <2>3 DEF Locally
    <3>. QED BY <3>1
  <2>. QED BY <2>2, <2>3
<1>. QED BY <1>3, <1>4

\* A request that the fallback judges.
LEMMA JudgedKeepsInv ==
  ASSUME WindowInv, NEW r \in Hit, HitAt(r, "local"), NEW p \in HitPC, p # "hour", GoHit(r, p),
         UNCHANGED <<clock, minuteCount, hourCount>>,
         admitted' \subseteq Admission,
         admitted' \subseteq admitted \cup {a \in Admission : a.via = "local"},
         admitted \subseteq admitted',
         localMinute' \in Seq(Time), localHour' \in Seq(Time),
         LocalListsStaySmall', FallbackHolds'
  PROVE  WindowInv'
<1>1. PICK x \in [pc : HitPC, at : Time] : hit' = [hit EXCEPT ![r] = x] /\ x.pc # "hour"
  <2>1. PICK x \in [pc : HitPC, at : Time] : x = [hit[r] EXCEPT !.pc = p] /\ x.pc = p
    BY HitsAre
  <2>2. hit' = [hit EXCEPT ![r] = x]
    BY <2>1 DEF GoHit
  <2>. QED BY <2>1, <2>2
<1>2. hit' \in [Hit -> [pc : HitPC, at : Time]]
  BY <1>1, WindowTypes
<1>3. WindowTypeOK'
  BY <1>2 DEF WindowInv, WindowTypeOK, Admission
<1>4. ~HitAt(r, "hour")
  BY DEF HitAt
<1>5. \A w \in Time : OfMinute(w)' \subseteq OfMinute(w)
  BY <1>1, <1>4, MinutesLose
<1>6. \A w \in Time : OfHour(w)' = OfHour(w)
  BY DEF OfHour
<1>7. CountersHold'
  <2> SUFFICES ASSUME NEW w \in Time
               PROVE  /\ Few(OfMinute(w)', minuteCount[w]) /\ Few(OfMinute(w)', PerMinute)
                      /\ Few(OfHour(w)', hourCount[w]) /\ Few(OfHour(w)', PerHour)
    BY DEF CountersHold
  <2>1. Few(OfMinute(w), minuteCount[w]) /\ Few(OfMinute(w), PerMinute)
    BY DEF WindowInv, CountersHold
  <2>2. minuteCount[w] \in Nat /\ minuteCount[w] <= minuteCount[w]
    BY WindowTypes
  <2>3. Few(OfMinute(w)', minuteCount[w]) /\ Few(OfMinute(w)', PerMinute)
    BY <1>5, <2>1, <2>2, FewStay, WindowConstants
  <2>. QED BY <1>6, <2>3 DEF WindowInv, CountersHold
<1>. QED BY <1>3, <1>7 DEF WindowInv

LEMMA CheckLocalKeepsInv ==
  ASSUME WindowInv, NEW r \in Hit, CheckLocal(r)
  PROVE  WindowInv'
<1>1. /\ Remembers(localMinute, Recent(MinuteTicks)) /\ Remembers(localHour, Recent(HourTicks))
      /\ \A t \in Time : Few(Locally(t, MinuteTicks), PerMinute)
      /\ \A t \in Time : Few(Locally(t, HourTicks), PerHour)
  BY DEF WindowInv, FallbackHolds
<1>2. PICK m \in Seq(Time) :
        /\ m = Within(localMinute, MinuteTicks) /\ Len(m) <= Len(localMinute)
        /\ Remembers(m, Recent(MinuteTicks))
  BY <1>1, WithinRemembers, WindowTypes, WindowConstants
<1>3. PICK h \in Seq(Time) :
        /\ h = Within(localHour, HourTicks) /\ Len(h) <= Len(localHour)
        /\ Remembers(h, Recent(HourTicks))
  BY <1>1, WithinRemembers, WindowTypes, WindowConstants
<1>4. /\ UNCHANGED <<clock, minuteCount, hourCount>> /\ HitAt(r, "local")
      /\ Len(m) \in Nat /\ Len(h) \in Nat /\ Len(localMinute) \in Nat /\ Len(localHour) \in Nat
  BY WindowTypes DEF CheckLocal
<1>5. CASE /\ localMinute' = m /\ localHour' \in {localHour, h} /\ UNCHANGED admitted
           /\ GoHit(r, "refused")
  <2>1. Recent(MinuteTicks)' = Recent(MinuteTicks) /\ Recent(HourTicks)' = Recent(HourTicks)
    BY <1>4, <1>5 DEF Recent
  <2>2. \A t : Locally(t, MinuteTicks)' = Locally(t, MinuteTicks) /\ Locally(t, HourTicks)' = Locally(t, HourTicks)
    BY <1>5 DEF Locally
  <2>3. FallbackHolds'
    BY <1>1, <1>2, <1>3, <1>5, <2>1, <2>2 DEF FallbackHolds
  <2>4. LocalListsStaySmall'
    BY <1>2, <1>3, <1>4, <1>5, WindowTypes, WindowConstants DEF LocalListsStaySmall
  <2>5. "refused" \in HitPC
    BY DEF HitPC
  <2>. QED BY <1>4, <1>5, <2>3, <2>4, <2>5, JudgedKeepsInv, WindowTypes
<1>6. CASE /\ Len(m) < PerMinute /\ Len(h) < PerHour
           /\ localMinute' = Append(m, clock) /\ localHour' = Append(h, clock)
           /\ GoHit(r, "allowed") /\ Admit(r, clock, "local")
  <2>1. PICK x \in Admission : x = [of |-> r, at |-> clock, via |-> "local"] /\ x.via = "local"
    <3>1. [of |-> r, at |-> clock, via |-> "local"] \in Admission
      BY WindowTypes DEF Admission
    <3>. QED BY <3>1
  <2>2. admitted' = admitted \cup {x}
    BY <1>6, <2>1 DEF Admit
  <2>3. /\ Remembers(Append(m, clock), Recent(MinuteTicks)')
        /\ \A t \in Time : Few(Locally(t, MinuteTicks)', PerMinute)
    BY <1>1, <1>2, <1>4, <1>6, <2>1, <2>2, LettingThrough, WindowTypes, WindowConstants
  <2>4. /\ Remembers(Append(h, clock), Recent(HourTicks)')
        /\ \A t \in Time : Few(Locally(t, HourTicks)', PerHour)
    BY <1>1, <1>3, <1>4, <1>6, <2>1, <2>2, LettingThrough, WindowTypes, WindowConstants
  <2>5. FallbackHolds'
    BY <1>6, <2>3, <2>4 DEF FallbackHolds
  <2>6. /\ Append(m, clock) \in Seq(Time) /\ Len(Append(m, clock)) = Len(m) + 1
        /\ Append(h, clock) \in Seq(Time) /\ Len(Append(h, clock)) = Len(h) + 1
    BY WindowTypes, AppendProperties
  <2>7. LocalListsStaySmall'
    BY <1>4, <1>6, <2>6, WindowConstants DEF LocalListsStaySmall
  <2>8. "allowed" \in HitPC
    BY DEF HitPC
  <2>. QED BY <1>4, <1>6, <2>1, <2>2, <2>5, <2>6, <2>7, <2>8, JudgedKeepsInv, WindowTypes
<1>. QED BY <1>2, <1>3, <1>5, <1>6 DEF CheckLocal

LEMMA AdvanceKeepsInv ==
  ASSUME WindowInv, Advance
  PROVE  WindowInv'
<1>1. /\ UNCHANGED <<minuteCount, hourCount, localMinute, localHour, hit, admitted>>
      /\ clock' = clock + 1 /\ clock' \in Time /\ clock \in Nat /\ admitted \subseteq Admission
  BY WindowTypes, WindowConstants DEF Advance, Time
<1>2. ASSUME NEW n \in Nat PROVE Recent(n)' \subseteq Recent(n)
  <2> SUFFICES ASSUME NEW a \in admitted, clock' - a.at < n PROVE clock - a.at < n
    BY <1>1 DEF Recent
  <2>1. a.at \in Nat
    BY <1>1, WindowConstants DEF Admission
  <2>. QED BY <1>1, <2>1
<1>3. ASSUME NEW s, NEW R, NEW Q \in SUBSET R, Remembers(s, R) PROVE Remembers(s, Q)
  <2>1. PICK F \in [R -> 1..Len(s)] :
            /\ \A a, b \in R : F[a] = F[b] => a = b
            /\ \A a \in R : s[F[a]] = a.at
    BY <1>3 DEF Remembers
  <2> DEFINE G == [a \in Q |-> F[a]]
  <2>2. /\ G \in [Q -> 1..Len(s)] /\ \A a, b \in Q : G[a] = G[b] => a = b
        /\ \A a \in Q : s[G[a]] = a.at
    BY <2>1
  <2> HIDE DEF G
  <2>. QED BY <2>2 DEF Remembers
<1>4. /\ Remembers(localMinute, Recent(MinuteTicks)')
      /\ Remembers(localHour, Recent(HourTicks)')
  BY <1>2, <1>3, WindowConstants DEF WindowInv, FallbackHolds
<1>5. \A t, n : Locally(t, n)' = Locally(t, n)
  BY <1>1 DEF Locally
<1>6. FallbackHolds'
  BY <1>1, <1>4, <1>5 DEF WindowInv, FallbackHolds
<1>7. \A w : OfMinute(w)' = OfMinute(w) /\ OfHour(w)' = OfHour(w)
  BY <1>1 DEF OfMinute, OfHour, HitAt
<1>8. CountersHold'
  BY <1>1, <1>7 DEF WindowInv, CountersHold
<1>9. WindowTypeOK' /\ LocalListsStaySmall'
  BY <1>1 DEF WindowInv, WindowTypeOK, LocalListsStaySmall
<1>. QED BY <1>6, <1>8, <1>9 DEF WindowInv

LEMMA WindowStepKeepsInv == WindowInv /\ [WindowNext]_windowVars => WindowInv'
<1>. SUFFICES ASSUME WindowInv, [WindowNext]_windowVars PROVE WindowInv'
  OBVIOUS
<1>1. CASE UNCHANGED windowVars
  <2>1. UNCHANGED <<clock, minuteCount, hourCount, localMinute, localHour, hit, admitted>>
    BY <1>1 DEF windowVars
  <2>2. /\ \A w : OfMinute(w)' = OfMinute(w) /\ OfHour(w)' = OfHour(w)
        /\ \A t, n : Locally(t, n)' = Locally(t, n) /\ Recent(n)' = Recent(n)
    BY <2>1 DEF OfMinute, OfHour, HitAt, Locally, Recent
  <2>3. CountersHold' /\ FallbackHolds'
    BY <2>1, <2>2 DEF WindowInv, CountersHold, FallbackHolds
  <2>4. WindowTypeOK' /\ LocalListsStaySmall'
    BY <2>1 DEF WindowInv, WindowTypeOK, LocalListsStaySmall
  <2>. QED BY <2>3, <2>4 DEF WindowInv
<1>. QED BY <1>1, AdvanceKeepsInv, CheckLimitKeepsInv, CountMinuteKeepsInv, CountHourKeepsInv,
            CountFailsKeepsInv, CheckLocalKeepsInv DEF WindowNext

\* The invariant says more: requests on their way are counted already.
LEMMA WindowsFollow == WindowInv => AdmissionsAreBounded
<1>. SUFFICES ASSUME WindowInv, NEW t \in Time
              PROVE  /\ Admitted("redis", Minute(t) * MinuteTicks, (Minute(t) + 1) * MinuteTicks - 1) <= PerMinute
                     /\ Admitted("redis", Hour(t) * HourTicks, (Hour(t) + 1) * HourTicks - 1) <= PerHour
                     /\ Admitted("local", t, t + MinuteTicks - 1) <= PerMinute
                     /\ Admitted("local", t, t + HourTicks - 1) <= PerHour
  BY DEF AdmissionsAreBounded
<1>1. t \in Nat /\ Minute(t) \in Time /\ Hour(t) \in Time /\ Minute(t) \in Nat /\ Hour(t) \in Nat
  BY MinutesAndHours, WindowConstants
<1>2. ASSUME NEW a \in Nat, NEW q \in Nat, NEW M \in Nat, M # 0, a \in q * M .. (q + 1) * M - 1
      PROVE  a \div M = q
  BY <1>2
<1>3. \A a \in admitted : a \in Admission /\ a.at \in Nat
  BY WindowTypes, WindowConstants DEF Admission
<1>4. {a \in admitted : a.via = "redis" /\ a.at \in Minute(t) * MinuteTicks .. (Minute(t) + 1) * MinuteTicks - 1}
        \subseteq OfMinute(Minute(t))
  <2> SUFFICES ASSUME NEW a \in admitted, a.via = "redis",
                      a.at \in Minute(t) * MinuteTicks .. (Minute(t) + 1) * MinuteTicks - 1
               PROVE  a \in OfMinute(Minute(t))
    OBVIOUS
  <2>1. a.at \div MinuteTicks = Minute(t)
    BY <1>1, <1>2, <1>3, WindowConstants
  <2>. QED BY <1>3, <2>1 DEF OfMinute, Minute
<1>5. {a \in admitted : a.via = "redis" /\ a.at \in Hour(t) * HourTicks .. (Hour(t) + 1) * HourTicks - 1}
        \subseteq OfHour(Hour(t))
  <2> SUFFICES ASSUME NEW a \in admitted, a.via = "redis",
                      a.at \in Hour(t) * HourTicks .. (Hour(t) + 1) * HourTicks - 1
               PROVE  a \in OfHour(Hour(t))
    OBVIOUS
  <2>1. a.at \div HourTicks = Hour(t)
    BY <1>1, <1>2, <1>3, WindowConstants
  <2>. QED BY <2>1 DEF OfHour, Hour
<1>6. /\ Few(OfMinute(Minute(t)), PerMinute) /\ Few(OfHour(Hour(t)), PerHour)
      /\ Few(Locally(t, MinuteTicks), PerMinute) /\ Few(Locally(t, HourTicks), PerHour)
  BY <1>1 DEF WindowInv, CountersHold, FallbackHolds
<1>7. ASSUME NEW S, NEW T \in SUBSET S, NEW n \in Nat, Few(S, n) PROVE Cardinality(T) <= n
  <2>1. n <= n
    OBVIOUS
  <2>. QED BY <1>7, <2>1, FewerAreFew DEF Few
<1>8. Admitted("redis", Minute(t) * MinuteTicks, (Minute(t) + 1) * MinuteTicks - 1) <= PerMinute
  BY <1>4, <1>6, <1>7, WindowConstants DEF Admitted
<1>9. Admitted("redis", Hour(t) * HourTicks, (Hour(t) + 1) * HourTicks - 1) <= PerHour
  BY <1>5, <1>6, <1>7, WindowConstants DEF Admitted
<1>. QED BY <1>6, <1>8, <1>9 DEF Admitted, Locally, Few

\* However the requests overlap and whichever commands fail: no clock minute or
\* hour lets through more than its limit, nor does the fallback in any minute or
\* hour whatever, and its lists stay small (rate_limiter.py).
THEOREM WindowsStayHeld == WindowSpec => []WindowsHold
<1>1. WindowInv => WindowsHold
  BY WindowsFollow DEF WindowInv, WindowsHold
<1>. QED BY <1>1, WindowInitInv, WindowStepKeepsInv, PTL DEF WindowSpec

-----------------------------------------------------------------------------
\* Side by side, in any interleaving, the two limits of rate_limiter.py hold.
THEOREM RateLimitsHold == RateLimiterSpec => []LimitsHold
BY WindowsStayHeld, SlotsStayCounted, PTL DEF RateLimiterSpec, LimitsHold
=================================================================================
