------------------------------- MODULE EvalStore -------------------------------
(***************************************************************************)
(* Batch evaluation: src/evaluation/batch_runner.py over the two files of  *)
(* src/evaluation/storage.py, started by src/api/routers/evaluations.py in *)
(* the API process or by src/evaluation/cli.py in one of its own.          *)
(*                                                                         *)
(* eval_batches.jsonl is changed by appending a line or by reading it      *)
(* all, writing a temporary file and renaming that.  The lock around the   *)
(* writes is a threading.Lock: it means nothing to another process, and    *)
(* within a process there is no await between the read and the rename.     *)
(***************************************************************************)
EXTENDS Integers, Sequences, SequencesExt, FiniteSets

CONSTANTS
  Batch,          \* runs, which stand for their batch ids
  Casts,          \* the sets of runs that may take place together
  CliRun,         \* those the command line starts, in a process of their own
  Sample,         \* Sample[b]: samples of b, or golden questions to replay
  GoldenRun,      \* runs that replay the golden set through the agent
  ProgressEvery   \* results between two progress updates

Unknown == "unknown"        \* nobody asked, or the answer is not there yet

ASSUME EvalAssumption ==
  /\ CliRun \subseteq Batch /\ GoldenRun \subseteq Batch
  /\ {Unknown, "none"} \cap Batch = {}
  /\ Casts \subseteq SUBSET Batch
  /\ Sample \in [Batch -> Nat]
  /\ ProgressEvery \in Nat \ {0}

VARIABLES
  batchFile,  \* the lines of eval_batches.jsonl
  batchTmp,   \* eval_batches.jsonl.tmp: its content, or the empty set
  evalFile,   \* evaluations.jsonl: the lines of each batch
  batchRun,   \* the runs: program counter and locals
  answer,     \* what trigger_run told the client that started the run
  overlapped  \* history: runs that wrote while another process was rewriting

evalVars == <<batchFile, batchTmp, evalFile, batchRun, answer, overlapped>>

\* A line of the file: the fields of BatchRun that a run changes.
Line == [id : Batch, total : Nat, done : Nat, failed : Nat, scored : Nat,
         status : {"running", "succeeded", "failed"}]

NewLine(b) == [id |-> b, total |-> Sample[b], done |-> 0, failed |-> 0,
               scored |-> 0, status |-> "running"]

\* pc: where the run is; n: its samples; final: whether the update is the one
\* with the outcome; rows: what update_batch read, with its own line updated.
Start == [pc |-> "idle", n |-> 0, done |-> 0, failed |-> 0,
          final |-> FALSE, rows |-> <<>>]

EvalPC == {"idle", "append", "replay", "collect", "read", "write", "rename",
           "ended", "raised", "dead"}

EvalTypeOK ==
  /\ batchFile \in Seq(Line)
  /\ batchTmp \subseteq Seq(Line) /\ Cardinality(batchTmp) <= 1
  /\ evalFile \in [Batch -> Nat]
  /\ batchRun \in [Batch -> [pc : EvalPC, n : Nat, done : Nat, failed : Nat,
                     final : BOOLEAN, rows : Seq(Line)]]
  /\ answer \in [Batch -> Batch \cup {Unknown, "none"}]
  /\ overlapped \subseteq Batch

EvalInit ==
  /\ batchFile = <<>>
  /\ batchTmp = {}
  /\ evalFile = [b \in Batch |-> 0]
  /\ \E cast \in Casts : batchRun =
       [b \in Batch |-> IF b \in cast THEN Start ELSE [Start EXCEPT !.pc = "dead"]]
  /\ answer = [b \in Batch |-> Unknown]
  /\ overlapped = {}

-----------------------------------------------------------------------------
(* Who may run, and who is in whose way *)

BatchAt(b, pc) == batchRun[b].pc = pc

SameProcess(a, b) == a = b \/ (a \notin CliRun /\ b \notin CliRun)

Rewriting(b) == batchRun[b].pc \in {"write", "rename"}

\* One event loop runs the tasks of a process, and update_batch never awaits.
HasLoop(b) == \A a \in Batch : SameProcess(a, b) /\ Rewriting(a) => a = b

\* b touches the file while another process rewrites it: both may lose.
Overlaps(b) == LET others == {a \in Batch : Rewriting(a) /\ ~SameProcess(a, b)}
               IN  IF others = {} THEN {} ELSE others \cup {b}

GoBatch(b, pc) == batchRun' = [batchRun EXCEPT ![b].pc = pc]

-----------------------------------------------------------------------------
(* Starting a run *)

\* trigger_run, or the command line: the task is scheduled.
StartBatch(b) ==
  /\ BatchAt(b, "idle")
  /\ GoBatch(b, "append")
  /\ UNCHANGED <<batchFile, batchTmp, evalFile, answer, overlapped>>

\* Mutant: nothing is recorded when the run starts.
AppendNothing(b) ==
  /\ BatchAt(b, "append")
  /\ HasLoop(b)
  /\ GoBatch(b, "replay")
  /\ UNCHANGED <<batchFile, batchTmp, evalFile, answer, overlapped>>

\* append_batch, and with traces the samples are known at once.
AppendBatch(b) ==
  /\ BatchAt(b, "append")
  /\ HasLoop(b)
  /\ batchFile' = Append(batchFile, NewLine(b))
  /\ overlapped' = overlapped \cup Overlaps(b)
  /\ batchRun' = [batchRun EXCEPT ![b].pc = "replay"]
  /\ UNCHANGED <<batchTmp, evalFile, answer>>

\* A golden batch without an orchestrator ends before it is recorded.
NoOrchestrator(b) ==
  /\ BatchAt(b, "append")
  /\ b \in GoldenRun \ CliRun
  /\ GoBatch(b, "raised")
  /\ UNCHANGED <<batchFile, batchTmp, evalFile, answer, overlapped>>

\* trigger_run, 50 ms later: the last line of the file, whoever wrote it.
Peek(b) ==
  /\ b \notin CliRun
  /\ answer[b] = Unknown
  /\ batchRun[b].pc \notin {"idle", "append", "dead"}
  /\ HasLoop(b) /\ ~Rewriting(b)
  /\ answer' = [answer EXCEPT ![b] =
       IF batchFile = <<>> THEN "none" ELSE Last(batchFile).id]
  /\ UNCHANGED <<batchFile, batchTmp, evalFile, batchRun, overlapped>>

\* The golden questions go through the agent; those it fails on are skipped.
Replay(b) ==
  /\ BatchAt(b, "replay")
  /\ HasLoop(b)
  /\ \E n \in 0..Sample[b] :
       /\ b \notin GoldenRun => n = Sample[b]
       /\ batchRun' = [batchRun EXCEPT ![b].pc = IF n = 0 THEN "read" ELSE "collect",
                                       ![b].n = n, ![b].final = (n = 0)]
  /\ UNCHANGED <<batchFile, batchTmp, evalFile, answer, overlapped>>

-----------------------------------------------------------------------------
(* Judging and collecting *)

\* r has taken a result: progress is written every few results and at the end.
Progressed(r) ==
  [r EXCEPT !.pc = IF r.done % ProgressEvery = 0 \/ r.done = r.n
                     THEN "read" ELSE "collect"]

Passed(r) == Progressed([r EXCEPT !.done = @ + 1])
Failed(r) == Progressed([r EXCEPT !.done = @ + 1, !.failed = @ + 1])

\* The next sample that asyncio.as_completed yields: evaluate_and_store has
\* appended its record, or has raised before that.
Judge(b) ==
  /\ BatchAt(b, "collect")
  /\ HasLoop(b)
  /\ \/ /\ evalFile' = [evalFile EXCEPT ![b] = @ + 1]
        /\ batchRun' = [batchRun EXCEPT ![b] = Passed(@)]
     \/ /\ batchRun' = [batchRun EXCEPT ![b] = Failed(@)]
        /\ UNCHANGED evalFile
  /\ UNCHANGED <<batchFile, batchTmp, answer, overlapped>>

\* The tasks of a run that raised go on without it.
JudgeForNobody(b) ==
  /\ BatchAt(b, "raised")
  /\ HasLoop(b)
  /\ batchRun[b].done < batchRun[b].n
  /\ evalFile' = [evalFile EXCEPT ![b] = @ + 1] \/ UNCHANGED evalFile
  /\ batchRun' = [batchRun EXCEPT ![b].done = @ + 1]
  /\ UNCHANGED <<batchFile, batchTmp, answer, overlapped>>

\* A run of no samples has failed, one of which something was scored succeeded.
Verdict(r) == IF r.failed < r.n THEN "succeeded" ELSE "failed"

\* What update_batch makes of b's line: progress first, the outcome last.
Updated(b, line) ==
  LET r == batchRun[b]
      progress == [line EXCEPT !.done = r.done, !.failed = r.failed]
  IN  IF r.final THEN [progress EXCEPT !.scored = evalFile[b], !.status = Verdict(r)]
                 ELSE progress

-----------------------------------------------------------------------------
(* update_batch *)

ReadRows(b) ==
  /\ BatchAt(b, "read")
  /\ HasLoop(b)
  /\ LET rows == [i \in DOMAIN batchFile |->
                    IF batchFile[i].id = b THEN Updated(b, batchFile[i]) ELSE batchFile[i]]
     IN  batchRun' = [batchRun EXCEPT ![b].rows = rows, ![b].pc = "write"]
  /\ overlapped' = overlapped \cup Overlaps(b)
  /\ UNCHANGED <<batchFile, batchTmp, evalFile, answer>>

WriteTmp(b) ==
  /\ BatchAt(b, "write")
  /\ batchTmp' = {batchRun[b].rows}
  /\ GoBatch(b, "rename")
  /\ overlapped' = overlapped \cup Overlaps(b)
  /\ UNCHANGED <<batchFile, evalFile, answer>>

\* Where a run goes on after update_batch.
AfterUpdate(r) ==
  CASE r.final -> [r EXCEPT !.pc = "ended", !.rows = <<>>]
    [] ~r.final /\ r.done < r.n -> [r EXCEPT !.pc = "collect", !.rows = <<>>]
    [] ~r.final /\ r.done = r.n -> [r EXCEPT !.pc = "read", !.rows = <<>>, !.final = TRUE]

\* The rename; when another process has renamed the file first it raises, and
\* the run ends without an outcome while its samples are still being judged.
Rename(b) ==
  /\ BatchAt(b, "rename")
  /\ \/ /\ batchFile' \in batchTmp
        /\ batchTmp' = {}
        /\ batchRun' = [batchRun EXCEPT ![b] = AfterUpdate(@)]
     \/ /\ batchTmp = {}
        /\ batchRun' = [batchRun EXCEPT ![b].pc = "raised", ![b].rows = <<>>]
        /\ UNCHANGED <<batchFile, batchTmp>>
  /\ overlapped' = overlapped \cup Overlaps(b)
  /\ UNCHANGED <<evalFile, answer>>

-----------------------------------------------------------------------------
(* Everything else *)

\* POST /cleanup unlinks the evaluations.
Cleanup ==
  /\ \E b \in Batch : evalFile[b] > 0
  /\ \A a \in Batch \ CliRun : ~Rewriting(a)
  /\ evalFile' = [b \in Batch |-> 0]
  /\ UNCHANGED <<batchFile, batchTmp, batchRun, answer, overlapped>>

\* A process dies, with all its runs.
KillProcess(b) ==
  /\ batchRun[b].pc \notin {"idle", "ended", "dead"}
  /\ batchRun' = [a \in Batch |->
       IF SameProcess(a, b) /\ batchRun[a].pc \notin {"idle", "ended"}
         THEN [batchRun[a] EXCEPT !.pc = "dead", !.rows = <<>>] ELSE batchRun[a]]
  /\ UNCHANGED <<batchFile, batchTmp, evalFile, answer, overlapped>>

BatchStep(b) ==
  \/ AppendBatch(b) \/ NoOrchestrator(b) \/ Peek(b) \/ Replay(b) \/ Judge(b)
  \/ JudgeForNobody(b) \/ ReadRows(b) \/ WriteTmp(b) \/ Rename(b)

EvalNext ==
  \/ \E b \in Batch : StartBatch(b) \/ BatchStep(b) \/ KillProcess(b)
  \/ Cleanup

\* The tasks of a loop are run, and the calls to the judge have a timeout.
EvalFairness == \A b \in Batch : WF_evalVars(BatchStep(b))

EvalSpec == EvalInit /\ [][EvalNext]_evalVars /\ EvalFairness

-----------------------------------------------------------------------------
(* Properties *)

Final(line) == line.status # "running"

\* Two processes may forget each other's batches, and nothing else may: a run
\* that ended without such an overlap has exactly one line, with its outcome
\* (storage.update_batch reads outside its lock).
OnlyOverlapForgetsBatches ==
  \A b \in Batch : BatchAt(b, "ended") /\ b \notin overlapped =>
    \E i \in DOMAIN batchFile :
      /\ batchFile[i].id = b /\ Final(batchFile[i])
      /\ batchFile[i].done = batchRun[b].n
      /\ \A j \in DOMAIN batchFile : batchFile[j].id = b => j = i

\* What the file says of a finished batch adds up, whatever was lost: it never
\* claims more scored samples than were done and did not fail, success means
\* that one was, and failure that none was.
VerdictsAddUp ==
  \A i \in DOMAIN batchFile :
    LET line == batchFile[i] IN
      Final(line) =>
        /\ line.done <= line.total /\ line.scored <= line.done - line.failed
        /\ line.status = "succeeded" <=> line.failed < line.done

\* Once a batch has its outcome, no later rewrite changes it, whichever run
\* makes it; only another process can bring an older line back.
OutcomesStay ==
  [][\A i \in DOMAIN batchFile :
       Final(batchFile[i]) =>
         \/ \E j \in DOMAIN batchFile' : batchFile'[j] = batchFile[i]
         \/ batchFile[i].id \in overlapped']_evalVars

Lines(b) == {i \in DOMAIN batchFile : batchFile[i].id = b}

\* trigger_run answers with the id of another batch only to a client whose
\* own run was overtaken by it, had no orchestrator, or was overlapped.
OnlyRacesMisname ==
  \A a, b \in Batch :
    a # b /\ answer[b] = a /\ {a, b} \cap overlapped = {} =>
      \A i \in Lines(a), j \in Lines(b) : i > j

\* A run that was started ends: with an outcome, by an error or with its process.
BatchEnds ==
  \A b \in Batch : ~BatchAt(b, "idle") ~> batchRun[b].pc \in {"ended", "raised", "dead"}

\* Runs of one process, however they interleave, neither lose nor change each
\* other's lines, and their clients learn the right id.
OnlyRacesHurtBatches ==
  /\ [](EvalTypeOK /\ OnlyOverlapForgetsBatches /\ VerdictsAddUp /\ OnlyRacesMisname)
  /\ OutcomesStay
=============================================================================
