----------------------------- MODULE EvalSampling ------------------------------
(***************************************************************************)
(* Evaluations of answers.  The sampler starts one in the background after *)
(* a response, at most MaxParallel at a time; batches evaluate their items *)
(* without that limit.  The judges of an evaluation ask the LLM in         *)
(* parallel and parse what it says                                         *)
(* (src/evaluation/online_sampler.py, runner.py, judge.py,                 *)
(* custom_metrics.py; src/api/routers/query.py).                           *)
(*                                                                         *)
(* A score is a fraction <<n, d>>; an optional value is a set of at most   *)
(* one element.                                                            *)
(***************************************************************************)
EXTENDS Integers, Sequences, FiniteSets, SequencesExt

CONSTANTS
  Evaluation,    \* evaluations to be made
  Online,        \* those the sampler may start, the others belong to a batch
  Wanted,        \* metrics of an evaluation
  Samples,       \* what may be evaluated
  Replies,       \* what the judge LLM may say
  MaxParallel,   \* _MAX_PARALLEL
  MaxK,          \* contexts citation_coverage looks at
  MaxIterations, \* iterations agent_efficiency scores 0
  EvalFaults,    \* which of "factory", "disk", "crash" may happen
  MaxExits       \* bound: process exits

Judges == {"faithfulness", "answer_relevancy", "context_precision", "context_recall"}
Customs == {"citation_coverage", "citation_diversity", "agent_efficiency"}

\* What an LLM says: a score out of 4, the counts (or, for the relevancy, the
\* rating) found in its JSON object, if there is one.
Silence == [score |-> {}, counts |-> {}]

ASSUME SamplingAssumption ==
  /\ Online \subseteq Evaluation /\ IsFiniteSet(Online) /\ MaxParallel \in Nat \ {0}
  /\ Wanted \in [Evaluation -> SUBSET (Judges \cup Customs)]
  /\ Samples \subseteq [answer : BOOLEAN, contexts : Seq(BOOLEAN), truth : BOOLEAN,
                        citations : Seq(STRING), iterations : Nat]
  /\ Silence \in Replies
  /\ \A r \in Replies : r.score \subseteq Int /\ r.counts \subseteq Nat \X Nat
  /\ MaxK \in Nat \ {0} /\ MaxIterations \in Nat \ {0, 1} /\ MaxExits \in Nat
  /\ EvalFaults \subseteq {"factory", "disk", "crash"}

VARIABLES
  stage,     \* evaluation -> "idle" | "waiting" | "judging" | "stored" | "skipped" | "failed" | "lost"
  sample,    \* evaluation -> what it evaluates
  judge,     \* _judge_llm: "unresolved" | "ready" | "none"
  permits,   \* what is left of the semaphore
  said,      \* evaluation -> judge -> what the LLM said to it, once it did
  stored,    \* evaluation -> the metrics of its record, once stored
  exits      \* process exits so far

evalsVars == <<stage, sample, judge, permits, said, stored, exits>>

Pick(S) == CHOOSE x \in S : TRUE

SamplingTypeOK ==
  /\ stage \in [Evaluation -> {"idle", "waiting", "judging", "stored", "skipped", "failed", "lost"}]
  /\ sample \in [Evaluation -> Samples] /\ judge \in {"unresolved", "ready", "none"}
  /\ permits \in 0..MaxParallel /\ exits \in 0..MaxExits
  /\ \A e \in Evaluation :
       /\ DOMAIN said[e] \subseteq Judges /\ DOMAIN stored[e] \subseteq Judges \cup Customs
       /\ \A j \in DOMAIN said[e] : said[e][j] \in Replies
       /\ \A x \in DOMAIN stored[e] : Cardinality(stored[e][x]) <= 1

SamplingInit ==
  /\ stage = [e \in Evaluation |-> "idle"]
  /\ sample \in [Evaluation -> Samples]
  /\ judge = "unresolved" /\ permits = MaxParallel /\ exits = 0
  /\ said = [e \in Evaluation |-> <<>>]
  /\ stored = [e \in Evaluation |-> <<>>]

-----------------------------------------------------------------------------
(* Scores                                                                  *)

Clamp(n) == IF n < 0 THEN 0 ELSE IF n > 4 THEN 4 ELSE n

\* The share of the first count; none when both are zero.
Share(c) == IF c[1] + c[2] > 0 THEN {<<c[1], c[1] + c[2]>>} ELSE {}

Rating(c) == {<<Clamp(c[1] - 1), 4>>}

\* Mutant: a reply that cannot be read counts as 0.
ScoreOrZero(j, r) ==
  IF r.score # {} THEN {<<Clamp(Pick(r.score)), 4>>}
  ELSE IF r.counts = {} THEN {<<0, 4>>}
  ELSE IF j = "answer_relevancy" THEN Rating(Pick(r.counts)) ELSE Share(Pick(r.counts))

\* The score a judge makes of a reply: the score in it, otherwise what its
\* counts or its rating say, otherwise none.
Score(j, r) ==
  IF r.score # {} THEN {<<Clamp(Pick(r.score)), 4>>}
  ELSE IF r.counts = {} THEN {}
  ELSE IF j = "answer_relevancy" THEN Rating(Pick(r.counts)) ELSE Share(Pick(r.counts))

LeastNat(a, b) == IF a < b THEN a ELSE b

\* Share of the first contexts that the answer uses.
Coverage(s) ==
  IF s.contexts = <<>> \/ ~ s.answer THEN <<0, 1>>
  ELSE LET n == LeastNat(Len(s.contexts), MaxK) IN
         <<Cardinality({i \in 1..n : s.contexts[i]}), n>>

Diversity(s) ==
  IF s.citations = <<>> THEN <<0, 1>>
  ELSE <<Cardinality(ToSet(s.citations)), Len(s.citations)>>

\* A cached answer took no iteration and counts as one.
Efficiency(s) ==
  LET used == IF s.iterations = 0 THEN 1 ELSE s.iterations IN
    <<MaxIterations - 1 - LeastNat(used - 1, MaxIterations - 1), MaxIterations - 1>>

Custom(x, s) ==
  CASE x = "citation_coverage" -> {Coverage(s)}
    [] x = "citation_diversity" -> {Diversity(s)}
    [] x = "agent_efficiency" -> {Efficiency(s)}

-----------------------------------------------------------------------------
(* One evaluation                                                          *)

\* The recall judge runs only when there is a true answer to compare with.
Judged(e) ==
  {j \in Wanted[e] \cap Judges : j = "context_recall" => sample[e].truth}

\* Judges that lack their input answer without the LLM.
HasInput(j, s) ==
  CASE j = "faithfulness" -> s.answer /\ s.contexts # <<>>
    [] j = "answer_relevancy" -> s.answer
    [] j = "context_precision" -> s.contexts # <<>>
    [] j = "context_recall" -> s.contexts # <<>> /\ s.truth

AskedJudges(e) == {j \in Judged(e) : HasInput(j, sample[e])}

Unanswered(e) == AskedJudges(e) \ DOMAIN said[e]

\* The metrics of the record; what is not scored stays in it as none.
Merged(e) ==
  [x \in Judged(e) \cup (Wanted[e] \cap Customs) |->
     IF x \in Customs THEN Custom(x, sample[e])
     ELSE IF x \in AskedJudges(e) THEN Score(x, said[e][x]) ELSE {}]

\* The judge LLM is built once, and never again after it could not be.
Resolved(j) ==
  IF j # "unresolved" THEN {j}
  ELSE {"ready"} \cup (IF "factory" \in EvalFaults THEN {"none"} ELSE {})

\* A response was sent: its answer is sampled or not.
Schedule(e) ==
  /\ e \in Online /\ stage[e] = "idle"
  /\ judge' \in Resolved(judge)
  /\ \E sampled \in BOOLEAN :
       stage' = [stage EXCEPT ![e] = IF sampled /\ judge' = "ready" THEN "waiting" ELSE "skipped"]
  /\ UNCHANGED <<sample, permits, said, stored, exits>>

\* Mutant: the semaphore is not asked.
MayEnterAlways(e) == stage[e] = "waiting"

MayEnter(e) == stage[e] = "waiting" /\ permits > 0

Enter(e) ==
  /\ MayEnter(e)
  /\ stage' = [stage EXCEPT ![e] = "judging"]
  /\ permits' = IF permits > 0 THEN permits - 1 ELSE 0
  /\ UNCHANGED <<sample, judge, said, stored, exits>>

\* A batch evaluates its items itself.
StartItem(e) ==
  /\ e \notin Online /\ stage[e] = "idle"
  /\ stage' = [stage EXCEPT ![e] = "judging"]
  /\ UNCHANGED <<sample, judge, permits, said, stored, exits>>

\* The LLM answers one of the judges; a failed call is an empty text.
JudgeAnswers(e) ==
  /\ stage[e] = "judging"
  /\ \E j \in Unanswered(e), r \in Replies :
       said' = [said EXCEPT ![e] = [k \in DOMAIN said[e] \cup {j} |->
                                      IF k = j THEN r ELSE said[e][k]]]
  /\ UNCHANGED <<stage, sample, judge, permits, stored, exits>>

\* However it ends, an online evaluation leaves the semaphore.
PermitsAfter(e, ended) == IF e \in Online THEN permits + 1 ELSE permits

\* All judges are done: the record is appended, or that fails.
EndEvaluation(e) ==
  /\ stage[e] = "judging" /\ Unanswered(e) = {}
  /\ \E ended \in {"stored"} \cup (IF "disk" \in EvalFaults THEN {"failed"} ELSE {}) :
       /\ stage' = [stage EXCEPT ![e] = ended]
       /\ stored' = IF ended = "stored" THEN [stored EXCEPT ![e] = Merged(e)] ELSE stored
       /\ permits' = PermitsAfter(e, ended)
  /\ UNCHANGED <<sample, judge, said, exits>>

\* The process exits: what it was evaluating is lost, the next process
\* starts with a new semaphore and builds the judge again.
Exit ==
  /\ "crash" \in EvalFaults /\ exits < MaxExits
  /\ exits' = exits + 1
  /\ stage' = [e \in Evaluation |-> IF stage[e] \in {"waiting", "judging"} THEN "lost" ELSE stage[e]]
  /\ judge' = "unresolved" /\ permits' = MaxParallel
  /\ UNCHANGED <<sample, said, stored>>

StepOf(e) ==
  Schedule(e) \/ Enter(e) \/ StartItem(e) \/ JudgeAnswers(e) \/ EndEvaluation(e)

SamplingNext == Exit \/ \E e \in Evaluation : StepOf(e)

\* A task that can run does: the event loop is fair, and the semaphore serves
\* its waiters in order, so each in turn.
SamplingFairness ==
  \A e \in Evaluation :
    /\ SF_evalsVars(Enter(e))
    /\ WF_evalsVars(JudgeAnswers(e)) /\ WF_evalsVars(EndEvaluation(e))

SamplingSpec == SamplingInit /\ [][SamplingNext]_evalsVars /\ SamplingFairness

-----------------------------------------------------------------------------
(* Properties                                                              *)

\* However evaluations start, fail and end, no more than MaxParallel of the
\* sampler's are judging at a time, and the semaphore is back to its full
\* count when none is.
OnlineIsLimited ==
  permits + Cardinality({e \in Online : stage[e] = "judging"}) = MaxParallel

\* A record has every wanted metric it can have, whatever its judges did, and
\* one without a score is left without: no judge that failed, was silent or had
\* nothing to judge gives a zero.
FailedJudgesAreNotZeros ==
  \A e \in Evaluation : stage[e] = "stored" =>
    /\ DOMAIN stored[e] \cup {"context_recall"} = Wanted[e] \cup {"context_recall"}
    /\ \A j \in DOMAIN stored[e] \cap Judges : stored[e][j] # {} =>
         j \in DOMAIN said[e] /\ said[e][j] # Silence

\* Every score stored lies between 0 and 1, whatever the judge says and however
\* many contexts there are.
ScoresAreFractions ==
  \A e \in Evaluation : \A x \in DOMAIN stored[e] : \A f \in stored[e][x] :
    0 <= f[1] /\ f[1] <= f[2] /\ f[2] > 0

\* Every evaluation the sampler accepted ends, stored or failed, unless the
\* process exits: none waits for a permit for ever.
SampledEvaluationsEnd ==
  \A e \in Online : stage[e] = "waiting" ~> stage[e] \in {"stored", "failed", "lost"}

\* Every score of a record was given by somebody, and lies on the scale; what
\* could not be judged has none.
ScoresAreEarned == SamplingTypeOK /\ FailedJudgesAreNotZeros /\ ScoresAreFractions
=============================================================================
