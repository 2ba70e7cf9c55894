----------------------------- MODULE MCBackground -----------------------------
(* What runs behind the API, one run of TLC: a behaviour is one of the part *)
(* it starts with, the other parts keep one initial state.                  *)
EXTENDS IngestionChain, DatasheetIntake, EvalStore, EvalSampling

CONSTANTS b1, b2, b3, c1

VARIABLE part

Parts == {"chain", "intake", "batches", "sampling"}

\* The viewers follow the progress key of one early task and of one late task.
FollowedTasks == {<<c1, 1>>, <<c1, 11>>}

\* A batch of two samples, others of one.
SamplesOf == [b \in Batch |-> IF b = b1 THEN 2 ELSE 1]

\* Two evaluations of the sampler, one of them without a judge, and one of a batch.
MetricsOf ==
  [e \in Evaluation |->
     CASE e = "a" -> {"faithfulness", "answer_relevancy"}
       [] e = "b" -> {"context_recall"}
       [] e = "c" -> {"citation_coverage", "citation_diversity", "agent_efficiency"}]

\* Two answers over three contexts: with a ground truth, and without.
AnswersSeen ==
  {[answer |-> TRUE, contexts |-> <<TRUE, FALSE, TRUE>>, truth |-> TRUE,
    citations |-> <<"p1", "p1">>, iterations |-> 0],
   [answer |-> TRUE, contexts |-> <<TRUE, TRUE, TRUE>>, truth |-> FALSE,
    citations |-> <<"p1">>, iterations |-> 4]}

\* No JSON, a score above the scale, and more hits than items.
JudgeReplies ==
  {Silence, [score |-> {6}, counts |-> {}], [score |-> {}, counts |-> {<<3, 1>>}]}

-----------------------------------------------------------------------------
BackgroundInit ==
  /\ part \in Parts
  /\ ChainInit /\ (part # "chain" => \A v \in Viewer : viewer[v].of = Pick(Followed))
  /\ IntakeInit
  /\ EvalInit /\ (part # "batches" =>
                    \A b \in Pick(Casts) : batchRun[b].pc = "idle")
  /\ SamplingInit /\ (part # "sampling" => \A e \in Evaluation : sample[e] = Pick(Samples))

BackgroundNext ==
  /\ UNCHANGED part
  /\ \/ part = "chain" /\ ChainNext /\ UNCHANGED <<intakeVars, evalVars, evalsVars>>
     \/ part = "intake" /\ IntakeNext /\ UNCHANGED <<chainVars, evalVars, evalsVars>>
     \/ part = "batches" /\ EvalNext /\ UNCHANGED <<chainVars, intakeVars, evalsVars>>
     \/ part = "sampling" /\ SamplingNext /\ UNCHANGED <<chainVars, intakeVars, evalVars>>

\* The fairness of each part, as its module states it.
BackgroundFairness ==
  /\ \A c \in Chain : WF_chainVars(part = "chain" /\ ChainStep(c))
  /\ \A v \in Viewer : WF_chainVars(part = "chain" /\ PollProgress(v))
  /\ \A k \in ProgressKey : WF_chainVars(part = "chain" /\ ProgressExpires(k))
  /\ WF_intakeVars(part = "intake" /\ IntakeTick)
  /\ WF_intakeVars(part = "intake" /\ TakePending)
  /\ \A p \in Path : WF_intakeVars(part = "intake" /\ Submit(p))
  /\ \A b \in Batch : WF_evalVars(part = "batches" /\ BatchStep(b))
  /\ \A e \in Evaluation :
       /\ SF_evalsVars(part = "sampling" /\ Enter(e))
       /\ WF_evalsVars(part = "sampling" /\ JudgeAnswers(e))
       /\ WF_evalsVars(part = "sampling" /\ EndEvaluation(e))

backgroundVars == <<part, chainVars, intakeVars, evalVars, evalsVars>>

BackgroundSpec ==
  BackgroundInit /\ [][BackgroundNext]_backgroundVars /\ BackgroundFairness

(* What each part comes to in the end, said of its own behaviours. *)

\* What was started ends: an ingestion chain, and every WebSocket that follows
\* it (ingestion/tasks.py, routers/tasks.py); no file stays pending in the
\* watchdog (watchdog_monitor.py); an evaluation batch and a sampled evaluation
\* end (batch_runner.py, online_sampler.py).
BackgroundWorkEnds ==
  /\ part = "chain" => EveryChainEnds /\ EveryViewerIsReleased
  /\ part = "intake" => PendingIsTaken
  /\ part = "batches" => BatchEnds
  /\ part = "sampling" => SampledEvaluationsEnd
=============================================================================
