--------------------------- MODULE DocumentScenarios ---------------------------
(***************************************************************************)
(* DocumentLifecycle in settings that differ in what clients do and in     *)
(* what may fail.  The setting is chosen at the start and stays:           *)
(*                                                                         *)
(*   all       whatever DocumentLifecycle allows                           *)
(*   loops     any number of handlers at a time; ingestions by ingest-all  *)
(*   serial    one handler at a time                                       *)
(*   reingest  any number of handlers, but nothing is deleted and no step  *)
(*             of an ingestion fails                                       *)
(*                                                                         *)
(* In the last two, documents share neither file name nor chip.            *)
(***************************************************************************)
EXTENDS DocumentLifecycle

CONSTANTS
  Settings,     \* those considered
  OverlapDocs,  \* bound: ids handed out where handlers overlap
  LoopPaths     \* bound: file names uploaded in "loops"

NothingIsShared ==
  \A g, h \in Content : g # h =>
    \A m \in UploadPaths[g], n \in UploadPaths[h] :
      m # n /\ PartNumber[m][g] # PartNumber[n][h]

\* No delete of a row is refused, and none leaves chunks.
DeletesSucceed == Extraction \subseteq {FALSE} /\ Faults \cap {"milvus", "drop"} = {}

ASSUME SettingsAssumption ==
  /\ Settings \subseteq {"all", "loops", "serial", "reingest"}
  /\ OverlapDocs \in Nat
  /\ Settings \cap {"serial", "reingest"} # {} => NothingIsShared /\ DeletesSucceed

VARIABLE setting

ScenarioInit == Init /\ setting \in Settings

ScenarioRequest(j) ==
  /\ setting = "serial" => \A k \in Job : At(k, "idle")
  /\ \/ \E h \in Content, p \in Path :
          UploadWrite(j, h, p) /\ (setting = "loops" => p \in LoopPaths)
     \/ IngestAll(j)
     \/ setting # "loops" /\ \E d \in DocId : IngestSingle(j, d) \/ IngestAsync(j, d)
     \/ setting # "reingest" /\ \E d \in DocId : DeleteStart(j, d)
  /\ setting \in {"loops", "reingest"} => nextId' <= OverlapDocs + 1
  /\ UNCHANGED setting

ScenarioStep(j) ==
  /\ Work(j) \/ (setting # "reingest" /\ StepFails(j))
  /\ UNCHANGED setting

ScenarioCrash == setting = "all" /\ Crash /\ UNCHANGED setting

ScenarioNext ==
  ScenarioCrash \/ \E j \in Job : ScenarioRequest(j) \/ ScenarioStep(j)

scenarioVars == <<vars, setting>>

ScenarioSpec ==
  /\ ScenarioInit /\ [][ScenarioNext]_scenarioVars
  /\ \A j \in Job : WF_scenarioVars(ScenarioStep(j))

-----------------------------------------------------------------------------
\* Rows, files and chunks agree (documents.py:1078-1123, 1344-1382).  Of
\* documents that do not share a chip, completed means searchable, no chunk is
\* without its document, and the file is what was hashed: with one handler at a
\* time, whatever it does and whichever step fails; and with overlapping
\* ingestions, as long as nothing is deleted and no step fails.
RowsFilesAndChunksAgree ==
  setting \in {"serial", "reingest"} =>
    CompletedIsSearchable /\ NoOrphanChunks /\ FileIsTheContent

\* Ingestions end: callers that poll a document see an outcome, and ingest-all
\* reaches every row of its SELECT, whichever of them fail.
IngestionsEnd == FinalStatusArrives /\ IngestAllEnds
=============================================================================
