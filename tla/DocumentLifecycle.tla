-------------------------- MODULE DocumentLifecycle --------------------------
(***************************************************************************)
(* The on-demand document pipeline of src/api/routers/documents.py:        *)
(* upload, the three ingestion endpoints and delete, run as concurrent     *)
(* request handlers of one asyncio process over four stores that share no  *)
(* transaction:                                                            *)
(*                                                                         *)
(*   rows    the PostgreSQL table `documents`                              *)
(*   files   data/documents/<manufacturer>/<filename>                      *)
(*   vec     the Milvus collection `datasheet_chunks`, by chip_id          *)
(*   rules   the tables `design_rules` and `errata`, which reference a     *)
(*           documents row                                                 *)
(*                                                                         *)
(* A handler is a job: its program counter and the locals it keeps across  *)
(* awaits.  A step of a job is what it does between two awaits, so the     *)
(* interleavings are those of the event loop.  The tables keyed by chip    *)
(* alone (chips, chip_parameters, chip_alternatives) and the Kuzu graph    *)
(* are only ever upserted by this pipeline and read by none of its         *)
(* handlers' control flow; they belong to another module.                  *)
(***************************************************************************)
EXTENDS Integers

CONSTANTS
  Job,          \* request handlers and background tasks in flight at once
  Content,      \* file contents, identified with their SHA-256
  Path,         \* <manufacturer>/<filename>
  Chip,         \* chips.id
  None,         \* SQL NULL / no value
  MaxDocs,      \* bound: ids the documents sequence may hand out
  UploadPaths,  \* UploadPaths[h]: where clients save content h
  PartNumber,   \* PartNumber[n][h]: the chip that the file name, or else
                \* the first page, names
  Extraction,   \* outcomes of the LLM: TRUE, it finds rules or errata
  Ops,          \* the endpoints clients call
  Faults        \* what may go wrong; each name is used by one action below

DocId == 1..MaxDocs

ASSUME MaxDocsAssumption == MaxDocs \in Nat
ASSUME NoneAssumption == None \notin Content \cup Path \cup Chip
ASSUME UploadPathsAssumption == UploadPaths \in [Content -> SUBSET Path]
ASSUME PartNumberAssumption == PartNumber \in [Path -> [Content -> Chip]]
ASSUME ExtractionAssumption == Extraction \subseteq BOOLEAN
ASSUME OpsAssumption ==
  Ops \subseteq {"upload", "ingest", "ingest_async", "ingest_all", "delete"}
ASSUME FaultsAssumption ==
  Faults \subseteq {"save", "step", "mark", "milvus", "unlink", "drop", "crash"}

VARIABLES rows, nextId, files, vec, rules, job

vars == <<rows, nextId, files, vec, rules, job>>

-----------------------------------------------------------------------------
(* State *)

Status == {"absent", "uploaded", "processing", "completed", "failed"}

\* A row of `documents`; status "absent" stands for no row.
Row == [status : Status,
        hash   : Content \cup {None},
        path   : Path \cup {None},
        name   : Path \cup {None},
        chip   : Chip \cup {None}]

NoRow == [status |-> "absent", hash |-> None, path |-> None,
          name |-> None, chip |-> None]

\* All the chunks one ingestion inserts for a document.  `by` tells apart
\* insertions that overlap: Milvus keeps both, a set would keep one.
Batch == [by : Job, doc : DocId, text : Content]

\* The columns a handler keeps from its SELECT.
Snapshot == [doc : DocId, path : Path, name : Path]
NoSnapshot == [doc |-> None, path |-> None, name |-> None]

PC == {"idle", "save",
       "mark", "read", "link", "wipe", "insert", "enrich", "finish", "fail",
       "unindex", "unlink", "drop"}

JobState == [pc   : PC,
             cur  : Snapshot \cup {NoSnapshot},
             text : Content \cup {None},
             chip : Chip \cup {None},
             rest : SUBSET Snapshot]

Idle == [pc |-> "idle", cur |-> NoSnapshot, text |-> None,
         chip |-> None, rest |-> {}]

TypeOK ==
  /\ rows   \in [DocId -> Row]
  /\ nextId \in 1..MaxDocs + 1
  /\ files  \in [Path -> Content \cup {None}]
  /\ vec    \in [Chip -> SUBSET Batch]
  /\ rules  \in [DocId -> 0..2]
  /\ job    \in [Job -> JobState]

Init ==
  /\ rows   = [d \in DocId |-> NoRow]
  /\ nextId = 1
  /\ files  = [p \in Path |-> None]
  /\ vec    = [c \in Chip |-> {}]
  /\ rules  = [d \in DocId |-> 0]
  /\ job    = [j \in Job |-> Idle]

Exists(d) == rows[d].status # "absent"

Snap(d) == [doc |-> d, path |-> rows[d].path, name |-> rows[d].name]

At(j, pc) == job[j].pc = pc
Goto(j, pc) == job' = [job EXCEPT ![j].pc = pc]
Return(j) == job' = [job EXCEPT ![j] = Idle]

\* UPDATE documents SET status = s WHERE id = d
SetStatus(d, s) ==
  rows' = IF Exists(d) THEN [rows EXCEPT ![d].status = s] ELSE rows

-----------------------------------------------------------------------------
(* Upload *)

\* The file is on disk before the row is; a file of the same name is
\* overwritten.  The id the sequence will give is drawn here, with the bound;
\* ids only order the rows of ingest-all.
UploadWrite(j, h, p) ==
  /\ "upload" \in Ops
  /\ At(j, "idle")
  /\ p \in UploadPaths[h]
  /\ nextId <= MaxDocs
  /\ nextId' = nextId + 1
  /\ files' = [files EXCEPT ![p] = h]
  /\ job' = [job EXCEPT ![j] =
       [Idle EXCEPT !.pc = "save", !.text = h,
                    !.cur = [doc |-> nextId, path |-> p, name |-> p]]]
  /\ UNCHANGED <<rows, vec, rules>>

\* INSERT ... ON CONFLICT (file_hash) DO UPDATE SET file_path: a known
\* content keeps its id, its name and its status.
InsertRow(d, h, p) ==
  LET same == {e \in DocId : Exists(e) /\ rows[e].hash = h}
  IN  rows' = [e \in DocId |->
        IF e \in same THEN [rows[e] EXCEPT !.path = p]
        ELSE IF e = d /\ same = {}
          THEN [status |-> "uploaded", hash |-> h, path |-> p,
                name |-> p, chip |-> None]
          ELSE rows[e]]

\* A database error is logged and the response says "unsaved".
UploadSave(j) ==
  /\ At(j, "save")
  /\ \/ InsertRow(job[j].cur.doc, job[j].text, job[j].cur.path)
     \/ "save" \in Faults /\ UNCHANGED rows
  /\ Return(j)
  /\ UNCHANGED <<nextId, files, vec, rules>>

-----------------------------------------------------------------------------
(* Ingestion: the endpoints *)

StartIngest(j, d) ==
  /\ At(j, "idle")
  /\ Exists(d)
  /\ job' = [job EXCEPT ![j] = [Idle EXCEPT !.pc = "mark", !.cur = Snap(d)]]
  /\ UNCHANGED <<rows, nextId, files, vec, rules>>

\* POST /{doc_id}/ingest looks at no status.
IngestSingle(j, d) ==
  /\ "ingest" \in Ops
  /\ StartIngest(j, d)

\* POST /{doc_id}/ingest-async answers "already_processing" instead of
\* starting, by the status of its own SELECT; the UPDATE comes after an await.
IngestAsync(j, d) ==
  /\ "ingest_async" \in Ops
  /\ rows[d].status # "processing"
  /\ StartIngest(j, d)

Pending == {d \in DocId : rows[d].status \in {"uploaded", "failed"}}

\* The snapshot with the least id: ORDER BY id.
IsFirst(s, S) == s \in S /\ \A t \in S : s.doc <= t.doc

\* POST /ingest-all works through the rows of one SELECT.
IngestAll(j) ==
  /\ "ingest_all" \in Ops
  /\ At(j, "idle")
  /\ LET all == {Snap(d) : d \in Pending}
     IN  \E s \in all :
           /\ IsFirst(s, all)
           /\ job' = [job EXCEPT ![j] =
                [Idle EXCEPT !.pc = "mark", !.cur = s, !.rest = all \ {s}]]
  /\ UNCHANGED <<rows, nextId, files, vec, rules>>

\* One document is done: ingest-all takes its next row, the others return.
Advance(j) ==
  \/ job[j].rest = {} /\ Return(j)
  \/ \E s \in job[j].rest :
       /\ IsFirst(s, job[j].rest)
       /\ job' = [job EXCEPT ![j] =
            [Idle EXCEPT !.pc = "mark", !.cur = s, !.rest = job[j].rest \ {s}]]

-----------------------------------------------------------------------------
(* Ingestion: the pipeline, _ingest_one and the UPDATEs around it *)

\* An error of this UPDATE is outside every try: the handler is over.
Mark(j) ==
  /\ At(j, "mark")
  /\ \/ SetStatus(job[j].cur.doc, "processing") /\ Goto(j, "read")
     \/ "mark" \in Faults /\ UNCHANGED rows /\ Return(j)
  /\ UNCHANGED <<nextId, files, vec, rules>>

\* The text is that of the file now at the path the SELECT returned.
Read(j) ==
  /\ At(j, "read")
  /\ IF files[job[j].cur.path] = None
       THEN Goto(j, "fail")
       ELSE job' = [job EXCEPT ![j].pc = "link",
                               ![j].text = files[job[j].cur.path]]
  /\ UNCHANGED <<rows, nextId, files, vec, rules>>

\* Mutant: the row gets the part number where the chip's id belongs.
LinkPartNumber(j) ==
  /\ At(j, "link")
  /\ LET d == job[j].cur.doc
     IN  rows' = IF Exists(d) THEN [rows EXCEPT ![d].chip = job[j].cur.name] ELSE rows
  /\ job' = [job EXCEPT ![j].pc = "wipe",
                         ![j].chip = PartNumber[job[j].cur.name][job[j].text]]
  /\ UNCHANGED <<nextId, files, vec, rules>>

\* Mutant: the chip is found and the row is never linked to it.
LinkForgotten(j) ==
  /\ At(j, "link")
  /\ job' = [job EXCEPT ![j].pc = "wipe",
                         ![j].chip = PartNumber[job[j].cur.name][job[j].text]]
  /\ UNCHANGED <<rows, nextId, files, vec, rules>>

\* The part number gives the chip; the row is linked to it.
Link(j) ==
  /\ At(j, "link")
  /\ LET d == job[j].cur.doc
         c == PartNumber[job[j].cur.name][job[j].text]
     IN  /\ rows' = IF Exists(d) THEN [rows EXCEPT ![d].chip = c] ELSE rows
         /\ job' = [job EXCEPT ![j].pc = "wipe", ![j].chip = c]
  /\ UNCHANGED <<nextId, files, vec, rules>>

\* Mutant: prior chunks are not deleted.
WipeNothing(j) ==
  /\ At(j, "wipe")
  /\ Goto(j, "insert")
  /\ UNCHANGED <<rows, nextId, files, vec, rules>>

\* _milvus_upsert, first half: delete what the collection has for the chip.
\* Embedding is over by then and has touched no store.
Wipe(j) ==
  /\ At(j, "wipe")
  /\ vec' = [vec EXCEPT ![job[j].chip] = {}]
  /\ Goto(j, "insert")
  /\ UNCHANGED <<rows, nextId, files, rules>>

\* Mutant: the chip is read again from the row at the time of the insert.
InsertByRow(j) ==
  /\ At(j, "insert")
  /\ vec' = [c \in Chip |->
       IF c = rows[job[j].cur.doc].chip
         THEN vec[c] \cup {[by |-> j, doc |-> job[j].cur.doc, text |-> job[j].text]}
         ELSE vec[c]]
  /\ Goto(j, "enrich")
  /\ UNCHANGED <<rows, nextId, files, rules>>

\* _milvus_upsert, second half: insert and flush.
Insert(j) ==
  /\ At(j, "insert")
  /\ vec' = [vec EXCEPT ![job[j].chip] =
       @ \cup {[by |-> j, doc |-> job[j].cur.doc, text |-> job[j].text]}]
  /\ Goto(j, "enrich")
  /\ UNCHANGED <<rows, nextId, files, rules>>

\* _store_design_rules and _store_errata insert with no conflict clause; the
\* foreign key rejects them, quietly, once the row is gone.  Two stands for
\* two or more sets of rows.
Enrich(j) ==
  /\ At(j, "enrich")
  /\ \E found \in Extraction :
       rules' = IF found /\ Exists(job[j].cur.doc)
                  THEN [rules EXCEPT ![job[j].cur.doc] = IF @ = 0 THEN 1 ELSE 2]
                  ELSE rules
  /\ Goto(j, "finish")
  /\ UNCHANGED <<rows, nextId, files, vec>>

Finish(j) ==
  /\ At(j, "finish")
  /\ SetStatus(job[j].cur.doc, "completed")
  /\ Advance(j)
  /\ UNCHANGED <<nextId, files, vec, rules>>

\* Mutant: the exception leaves the handler uncaught.
StepFailsUncaught(j) ==
  /\ "step" \in Faults
  /\ job[j].pc \in {"read", "link", "wipe", "insert", "enrich", "finish"}
  /\ Return(j)
  /\ UNCHANGED <<rows, nextId, files, vec, rules>>

\* Any await of the pipeline may raise: extraction, embedding after its
\* retries, Milvus, the database.
StepFails(j) ==
  /\ "step" \in Faults
  /\ job[j].pc \in {"read", "link", "wipe", "insert", "enrich", "finish"}
  /\ Goto(j, "fail")
  /\ UNCHANGED <<rows, nextId, files, vec, rules>>

\* Mutant: the except clause logs and goes on.
MarkFailedOnlyLogs(j) ==
  /\ At(j, "fail")
  /\ Advance(j)
  /\ UNCHANGED <<rows, nextId, files, vec, rules>>

\* The except clause; when its own UPDATE fails the handler is over, and
\* ingest-all with it.
MarkFailed(j) ==
  /\ At(j, "fail")
  /\ \/ SetStatus(job[j].cur.doc, "failed") /\ Advance(j)
     \/ "mark" \in Faults /\ UNCHANGED rows /\ Return(j)
  /\ UNCHANGED <<nextId, files, vec, rules>>

-----------------------------------------------------------------------------
(* Delete *)

DeleteStart(j, d) ==
  /\ "delete" \in Ops
  /\ At(j, "idle")
  /\ Exists(d)
  /\ job' = [job EXCEPT ![j] = [Idle EXCEPT !.pc = "unindex", !.cur = Snap(d),
                                            !.chip = rows[d].chip]]
  /\ UNCHANGED <<rows, nextId, files, vec, rules>>

\* Mutant: the delete expression matches every chip.
UnindexAll(j) ==
  /\ At(j, "unindex")
  /\ vec' = [c \in Chip |-> {}]
  /\ Goto(j, "unlink")
  /\ UNCHANGED <<rows, nextId, files, rules>>

\* Every chunk of the chip goes; a Milvus error is swallowed.
Unindex(j) ==
  /\ At(j, "unindex")
  /\ \/ vec' = [c \in Chip |-> IF c = job[j].chip THEN {} ELSE vec[c]]
     \/ "milvus" \in Faults /\ UNCHANGED vec
  /\ Goto(j, "unlink")
  /\ UNCHANGED <<rows, nextId, files, rules>>

\* Likewise an error of unlink.
Unlink(j) ==
  /\ At(j, "unlink")
  /\ \/ files' = [files EXCEPT ![job[j].cur.path] = None]
     \/ "unlink" \in Faults /\ UNCHANGED files
  /\ Goto(j, "drop")
  /\ UNCHANGED <<rows, nextId, vec, rules>>

\* Mutant: no foreign key protects the rules of the document.
DropRowAlways(j) ==
  /\ At(j, "drop")
  /\ rows' = [rows EXCEPT ![job[j].cur.doc] = NoRow]
  /\ Return(j)
  /\ UNCHANGED <<nextId, files, vec, rules>>

\* DELETE FROM documents.  design_rules and errata reference the row without
\* ON DELETE CASCADE: while one does, the statement raises and the row stays.
DropRow(j) ==
  /\ At(j, "drop")
  /\ \/ /\ rules[job[j].cur.doc] = 0
        /\ rows' = [rows EXCEPT ![job[j].cur.doc] = NoRow]
     \/ /\ rules[job[j].cur.doc] # 0 \/ "drop" \in Faults
        /\ UNCHANGED rows
  /\ Return(j)
  /\ UNCHANGED <<nextId, files, vec, rules>>

-----------------------------------------------------------------------------
(* The process *)

\* The process dies: every handler is lost, the stores are not.  Nothing at
\* start-up looks at `documents`.
Crash ==
  /\ "crash" \in Faults
  /\ \E j \in Job : ~At(j, "idle")
  /\ job' = [j \in Job |-> Idle]
  /\ UNCHANGED <<rows, nextId, files, vec, rules>>

Request(j) ==
  \/ \E h \in Content, p \in Path : UploadWrite(j, h, p)
  \/ \E d \in DocId : IngestSingle(j, d) \/ IngestAsync(j, d)
  \/ IngestAll(j)
  \/ \E d \in DocId : DeleteStart(j, d)

\* What a handler that has started does next, and the failure of it.
Work(j) ==
  \/ UploadSave(j)
  \/ Mark(j) \/ Read(j) \/ Link(j) \/ Wipe(j) \/ Insert(j) \/ Enrich(j)
  \/ Finish(j) \/ MarkFailed(j)
  \/ Unindex(j) \/ Unlink(j) \/ DropRow(j)

Step(j) == Work(j) \/ StepFails(j)

Next == Crash \/ \E j \in Job : Request(j) \/ Step(j)

Spec == Init /\ [][Next]_vars

\* The event loop runs every ready task, and each await of a handler is
\* bounded by a timeout; nobody owes the system a request or a crash.
FairSpec == Spec /\ \A j \in Job : WF_vars(Step(j))
-----------------------------------------------------------------------------
(* What the handlers rely on without checking it *)

\* A listed document has a path, a name and a hash.
RowsAreComplete ==
  \A d \in DocId : Exists(d) =>
    rows[d].path \in Path /\ rows[d].name \in Path /\ rows[d].hash \in Content

\* A handler holds what the steps it is about to take will use.
HoldsItsData(j) ==
  /\ ~At(j, "idle") => job[j].cur \in Snapshot
  /\ job[j].pc \in {"save", "link", "wipe", "insert"} => job[j].text \in Content
  /\ job[j].pc \in {"wipe", "insert"} =>
       \E n \in Path : job[j].chip = PartNumber[n][job[j].text]

LocalsAreComplete == \A j \in Job : HoldsItsData(j)

\* Ids in use were handed out, and the id of an upload is its own until the
\* row is there.
IdsAreFresh ==
  /\ \A d \in DocId : Exists(d) => d < nextId
  /\ \A j \in Job : ~At(j, "idle") =>
       job[j].cur.doc < nextId /\ \A s \in job[j].rest : s.doc < nextId
  /\ \A j, k \in Job :
       At(j, "save") /\ k # j /\ ~At(k, "idle") =>
         /\ job[k].cur.doc # job[j].cur.doc
         /\ \A s \in job[k].rest : s.doc # job[j].cur.doc
  /\ \A j \in Job : At(j, "save") => ~Exists(job[j].cur.doc)

\* From the UPDATE that links it, the row of a running ingestion is linked,
\* unless it is deleted, and no other document can take its id.
IngestedIsLinked ==
  \A j \in Job :
    job[j].pc \in {"wipe", "insert", "enrich", "finish"} /\ Exists(job[j].cur.doc)
      => rows[job[j].cur.doc].chip # None

\* A handler never works on a document it has no data for, or on another
\* document than the one it selected.
WellFormed ==
  RowsAreComplete /\ LocalsAreComplete /\ IdsAreFresh /\ IngestedIsLinked

-----------------------------------------------------------------------------
(* Properties that hold however handlers interleave, fail and crash *)

\* A completed document is linked to a chip: delete finds its chunks, and
\* the chunk listing finds something to list, by that column only.
CompletedIsLinked ==
  \A d \in DocId : rows[d].status = "completed" => rows[d].chip # None

\* Milvus inserts do not deduplicate, so what bounds the copies of a chunk is
\* the delete before each insert.  Two sets of chunks under one chip come
\* from two handlers that overlapped; a handler never adds to its own.
DuplicatesNeedOverlap ==
  /\ \A c \in Chip : \A a, b \in vec[c] : a.by = b.by => a = b
  /\ \A j \in Job : At(j, "insert") => \A b \in vec[job[j].chip] : b.by # j

\* Chunks are filed under a chip that their own text names, even when the
\* file is overwritten and the row relinked while they are being embedded.
ChunksMatchTheirChip ==
  \A c \in Chip : \A b \in vec[c] : \E n \in Path : PartNumber[n][b.text] = c

\* A design rule or an erratum never cites a document that is gone, though
\* the rules are written long after the handler selected its row.
RulesHaveARow == \A d \in DocId : rules[d] # 0 => Exists(d)

-----------------------------------------------------------------------------
(* Properties of a process that does not die *)

\* "processing" is never left behind: a handler that has marked the row and
\* will write its outcome is still there, whoever else ingests the document.
ProcessingIsOwned ==
  \A d \in DocId : rows[d].status = "processing" =>
    \E j \in Job :
      /\ job[j].cur.doc = d
      /\ job[j].pc \in {"read", "link", "wipe", "insert", "enrich", "finish", "fail"}

\* Callers that poll the document see the ingestion end.
FinalStatusArrives ==
  \A d \in DocId : rows[d].status = "processing" ~> rows[d].status # "processing"

\* ingest-all reaches every row of its SELECT, whichever of them fail.
IngestAllEnds == \A j \in Job : ~At(j, "idle") ~> At(j, "idle")

-----------------------------------------------------------------------------
(* Properties of documents that share neither a file name nor a chip *)

\* d's own chunks are in the index, under its chip.
Searchable(d) ==
  /\ rows[d].chip # None
  /\ \E b \in vec[rows[d].chip] : b.doc = d /\ b.text = rows[d].hash

Busy(d, pcs) == \E j \in Job : job[j].cur.doc = d /\ job[j].pc \in pcs

\* A document shown as completed is in the index, but for the moment between
\* the two halves of a re-ingestion and the end of a delete.
CompletedIsSearchable ==
  \A d \in DocId : rows[d].status = "completed" =>
    Searchable(d) \/ Busy(d, {"insert", "unlink", "drop"})

\* Every chunk in the index belongs to a document that is listed, and is
\* found through that document's chip.
NoOrphanChunks ==
  \A c \in Chip : \A b \in vec[c] : Exists(b.doc) /\ rows[b.doc].chip = c

\* The file of a listed document is the content that was hashed for it.
FileIsTheContent ==
  \A d \in DocId : Exists(d) =>
    files[rows[d].path] = rows[d].hash \/ Busy(d, {"drop"})

-----------------------------------------------------------------------------
(* What the documentation says and the code does not do *)

\* "Delete a document: Milvus chunks, PG row, and the file on disk."
DeleteRemovesEverything ==
  [][\A j \in Job : At(j, "drop") /\ At(j, "idle")' =>
       LET d == job[j].cur.doc
       IN  /\ rows'[d].status = "absent"
           /\ files'[job[j].cur.path] = None
           /\ \A c \in Chip : \A b \in vec'[c] : b.doc # d]_vars

\* "Return up to `limit` indexed chunks for the given document."
ListedChunksBelong ==
  \A d \in DocId : rows[d].chip # None =>
    \A b \in vec[rows[d].chip] : b.doc = d

\* Retrying an ingestion is safe: it leaves one set of rules.
IngestIsIdempotent == \A d \in DocId : rules[d] <= 1
=============================================================================
