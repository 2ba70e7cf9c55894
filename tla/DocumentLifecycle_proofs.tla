----------------------- MODULE DocumentLifecycle_proofs -----------------------
(***************************************************************************)
(* Proofs about DocumentLifecycle, for any number of handlers, contents,   *)
(* paths, chips and documents, and for every subset of the faults.         *)
(***************************************************************************)
EXTENDS DocumentScenarios, TLAPS

\* The layer everything else rests on: types, and the data handlers hold.
Data == TypeOK /\ RowsAreComplete /\ LocalsAreComplete

-----------------------------------------------------------------------------
(* Jobs *)

\* Moving one handler's program counter keeps every local.
LEMMA GotoType ==
  ASSUME job \in [Job -> JobState], NEW j \in Job, NEW pc \in PC, Goto(j, pc)
  PROVE  /\ job' \in [Job -> JobState]
         /\ job'[j] = [job[j] EXCEPT !.pc = pc]
         /\ \A k \in Job \ {j} : job'[k] = job[k]
BY DEF Goto, JobState

\* A handler that returns leaves the others alone.
LEMMA ReturnType ==
  ASSUME job \in [Job -> JobState], NEW j \in Job, Return(j)
  PROVE  /\ job' \in [Job -> JobState]
         /\ job'[j] = Idle
         /\ \A k \in Job \ {j} : job'[k] = job[k]
BY DEF Return, JobState, Idle, PC

\* So does one that goes on to its next row, which is one of those it selected.
LEMMA AdvanceType ==
  ASSUME job \in [Job -> JobState], NEW j \in Job, Advance(j)
  PROVE  /\ job' \in [Job -> JobState]
         /\ \A k \in Job \ {j} : job'[k] = job[k]
         /\ \/ job'[j] = Idle
            \/ /\ job'[j].pc = "mark"
               /\ job'[j].cur \in job[j].rest
               /\ job'[j].rest \subseteq job[j].rest
<1>1. CASE job[j].rest = {} /\ Return(j)
  BY <1>1, ReturnType
<1>2. CASE \E s \in job[j].rest :
             job' = [job EXCEPT ![j] = [Idle EXCEPT !.pc = "mark", !.cur = s,
                                                    !.rest = job[j].rest \ {s}]]
  <2>1. PICK s \in job[j].rest :
             job' = [job EXCEPT ![j] = [Idle EXCEPT !.pc = "mark", !.cur = s,
                                                    !.rest = job[j].rest \ {s}]]
    BY <1>2
  <2>2. job[j].rest \subseteq Snapshot
    BY DEF JobState
  <2>3. [Idle EXCEPT !.pc = "mark", !.cur = s, !.rest = job[j].rest \ {s}] \in JobState
    BY <2>2 DEF JobState, Idle, PC
  <2> QED
    BY <2>1, <2>2, <2>3 DEF Idle
<1> QED
  BY <1>1, <1>2 DEF Advance

\* An UPDATE of a status column touches nothing else of the table.
LEMMA SetStatusRows ==
  ASSUME TypeOK, NEW d \in DocId, NEW s \in Status \ {"absent"}, SetStatus(d, s)
  PROVE  /\ rows' \in [DocId -> Row]
         /\ \A e \in DocId :
              /\ rows'[e].hash = rows[e].hash /\ rows'[e].path = rows[e].path
              /\ rows'[e].name = rows[e].name /\ rows'[e].chip = rows[e].chip
              /\ rows'[e].status = IF e = d /\ Exists(d) THEN s ELSE rows[e].status
BY DEF SetStatus, TypeOK, Row, Exists
-----------------------------------------------------------------------------
(* Types, and the data handlers hold *)

LEMMA DataInit == Init => Data
BY NoneAssumption, MaxDocsAssumption DEF Init, Data, TypeOK, RowsAreComplete, LocalsAreComplete,
  HoldsItsData, At, Exists, Row, NoRow, Status, JobState, Idle, PC

\* What a handler holds is its own: a step of another changes none of it.
LEMMA OthersKeepTheirData ==
  ASSUME Data, NEW j \in Job, \A k \in Job \ {j} : job'[k] = job[k], HoldsItsData(j)'
  PROVE  LocalsAreComplete'
BY DEF Data, LocalsAreComplete, HoldsItsData, At

LEMMA UploadWriteData ==
  ASSUME Data, NEW j \in Job, NEW h \in Content, NEW p \in Path, UploadWrite(j, h, p)
  PROVE  Data'
<1> DEFINE s == [doc |-> nextId, path |-> p, name |-> p]
           new == [Idle EXCEPT !.pc = "save", !.text = h, !.cur = s]
<1>1. job' = [job EXCEPT ![j] = new] /\ nextId <= MaxDocs /\ nextId' = nextId + 1
  BY DEF UploadWrite
<1>2. s \in Snapshot
  BY <1>1, MaxDocsAssumption DEF Data, TypeOK, Snapshot, DocId
<1>3. new \in JobState /\ new.cur = s /\ new.text = h /\ new.pc = "save"
  BY <1>2 DEF JobState, Idle, PC
<1>4. TypeOK'
  BY <1>1, <1>3, MaxDocsAssumption DEF Data, TypeOK, UploadWrite
<1>5. RowsAreComplete'
  BY DEF Data, RowsAreComplete, UploadWrite, Exists
<1>6. HoldsItsData(j)' /\ \A k \in Job \ {j} : job'[k] = job[k]
  BY <1>1, <1>2, <1>3 DEF Data, TypeOK, HoldsItsData, At
<1> QED
  BY <1>4, <1>5, <1>6, OthersKeepTheirData DEF Data

\* The upsert of an upload: rows of the same content keep all but their path,
\* and one row may appear, under the id drawn for it.
LEMMA InsertRowRows ==
  ASSUME Data, NEW d \in DocId, NEW h \in Content, NEW p \in Path, InsertRow(d, h, p)
  PROVE  /\ rows' \in [DocId -> Row]
         /\ RowsAreComplete'
         /\ \A e \in DocId : e # d =>
              /\ rows'[e].status = rows[e].status /\ rows'[e].chip = rows[e].chip
         /\ ~Exists(d) => rows'[d].status \in {"absent", "uploaded"}
<1> DEFINE same == {e \in DocId : Exists(e) /\ rows[e].hash = h}
           fresh == [status |-> "uploaded", hash |-> h, path |-> p,
                     name |-> p, chip |-> None]
<1>1. rows' = [e \in DocId |->
                 IF e \in same THEN [rows[e] EXCEPT !.path = p]
                 ELSE IF e = d /\ same = {} THEN fresh ELSE rows[e]]
  BY DEF InsertRow
<1>2. fresh \in Row
  BY DEF Row, Status
<1>3. \A e \in DocId : [rows[e] EXCEPT !.path = p] \in Row
  BY DEF Data, TypeOK, Row
<1>4. rows' \in [DocId -> Row]
  BY <1>1, <1>2, <1>3 DEF Data, TypeOK
<1>5. \A e \in DocId : rows'[e].status # "absent" =>
         rows'[e].path \in Path /\ rows'[e].name \in Path /\ rows'[e].hash \in Content
  BY <1>1 DEF Data, TypeOK, Row, RowsAreComplete, Exists
<1>6. \A e \in DocId : e # d =>
         rows'[e].status = rows[e].status /\ rows'[e].chip = rows[e].chip
  <2> SUFFICES ASSUME NEW e \in DocId, e # d
               PROVE  rows'[e].status = rows[e].status /\ rows'[e].chip = rows[e].chip
    OBVIOUS
  <2>1. rows[e] \in Row
    BY DEF Data, TypeOK
  <2> QED
    BY <1>1, <2>1 DEF Row
<1>7. ~Exists(d) => rows'[d].status \in {"absent", "uploaded"}
  BY <1>1 DEF Exists
<1> QED
  BY <1>4, <1>5, <1>6, <1>7 DEF RowsAreComplete, Exists

\* A handler that moves on, and whose next step uses neither text nor chip.
LEMMA GotoData ==
  ASSUME Data, NEW j \in Job, ~At(j, "idle"),
         NEW pc \in PC \ {"idle", "save", "link", "wipe", "insert"}, Goto(j, pc)
  PROVE  job' \in [Job -> JobState] /\ LocalsAreComplete'
<1>1. /\ job' \in [Job -> JobState]
      /\ job'[j] = [job[j] EXCEPT !.pc = pc]
      /\ \A k \in Job \ {j} : job'[k] = job[k]
  BY GotoType DEF Data, TypeOK
<1>2. job[j] \in JobState /\ job[j].cur \in Snapshot
  BY DEF Data, TypeOK, LocalsAreComplete, HoldsItsData
<1>3. HoldsItsData(j)'
  BY <1>1, <1>2 DEF HoldsItsData, At, JobState
<1> QED
  BY <1>1, <1>3, OthersKeepTheirData

LEMMA ReturnData ==
  ASSUME Data, NEW j \in Job, Return(j)
  PROVE  job' \in [Job -> JobState] /\ LocalsAreComplete'
<1>1. /\ job' \in [Job -> JobState]
      /\ job'[j] = Idle
      /\ \A k \in Job \ {j} : job'[k] = job[k]
  BY ReturnType DEF Data, TypeOK
<1>2. HoldsItsData(j)'
  BY <1>1 DEF HoldsItsData, At, Idle
<1> QED
  BY <1>1, <1>2, OthersKeepTheirData

LEMMA AdvanceData ==
  ASSUME Data, NEW j \in Job, Advance(j)
  PROVE  job' \in [Job -> JobState] /\ LocalsAreComplete'
<1>1. /\ job' \in [Job -> JobState]
      /\ \A k \in Job \ {j} : job'[k] = job[k]
      /\ \/ job'[j] = Idle
         \/ job'[j].pc = "mark" /\ job'[j].cur \in job[j].rest
  BY AdvanceType DEF Data, TypeOK
<1>2. job[j].rest \subseteq Snapshot
  BY DEF Data, TypeOK, JobState
<1>3. HoldsItsData(j)'
  BY <1>1, <1>2 DEF HoldsItsData, At, Idle
<1> QED
  BY <1>1, <1>3, OthersKeepTheirData

LEMMA SetStatusData ==
  ASSUME Data, NEW d \in DocId, NEW s \in Status \ {"absent"}, SetStatus(d, s)
  PROVE  rows' \in [DocId -> Row] /\ RowsAreComplete'
<1>1. /\ rows' \in [DocId -> Row]
      /\ \A e \in DocId :
           /\ rows'[e].hash = rows[e].hash /\ rows'[e].path = rows[e].path
           /\ rows'[e].name = rows[e].name
           /\ rows'[e].status = IF e = d /\ Exists(d) THEN s ELSE rows[e].status
  BY SetStatusRows DEF Data
<1> QED
  BY <1>1 DEF Data, RowsAreComplete, Exists

\* The columns a handler selects make a snapshot.
LEMMA SnapData ==
  ASSUME Data, NEW d \in DocId, Exists(d)
  PROVE  Snap(d) \in Snapshot
BY DEF Data, RowsAreComplete, Snap, Snapshot

LEMMA StartIngestData ==
  ASSUME Data, NEW j \in Job, NEW d \in DocId, StartIngest(j, d)
  PROVE  Data'
<1> DEFINE new == [Idle EXCEPT !.pc = "mark", !.cur = Snap(d)]
<1>1. job' = [job EXCEPT ![j] = new] /\ Snap(d) \in Snapshot
  BY SnapData DEF StartIngest
<1>2. new \in JobState /\ new.cur = Snap(d) /\ new.pc = "mark"
  BY <1>1 DEF JobState, Idle, PC
<1>3. TypeOK' /\ RowsAreComplete'
  BY <1>1, <1>2 DEF Data, TypeOK, RowsAreComplete, StartIngest, Exists
<1>4. HoldsItsData(j)' /\ \A k \in Job \ {j} : job'[k] = job[k]
  BY <1>1, <1>2 DEF Data, TypeOK, HoldsItsData, At
<1> QED
  BY <1>3, <1>4, OthersKeepTheirData DEF Data

LEMMA IngestAllData ==
  ASSUME Data, NEW j \in Job, IngestAll(j)
  PROVE  Data'
<1> DEFINE all == {Snap(d) : d \in Pending}
<1>1. all \subseteq Snapshot
  <2>1. \A d \in Pending : d \in DocId /\ Exists(d)
    BY DEF Pending, Exists
  <2> QED
    BY <2>1, SnapData
<1>2. PICK s \in all :
        job' = [job EXCEPT ![j] = [Idle EXCEPT !.pc = "mark", !.cur = s, !.rest = all \ {s}]]
  BY DEF IngestAll
<1> DEFINE new == [Idle EXCEPT !.pc = "mark", !.cur = s, !.rest = all \ {s}]
<1>3. new \in JobState /\ new.cur \in Snapshot /\ new.pc = "mark"
  BY <1>1 DEF JobState, Idle, PC
<1>4. TypeOK' /\ RowsAreComplete'
  BY <1>2, <1>3 DEF Data, TypeOK, RowsAreComplete, IngestAll, Exists
<1>5. HoldsItsData(j)' /\ \A k \in Job \ {j} : job'[k] = job[k]
  BY <1>2, <1>3 DEF Data, TypeOK, HoldsItsData, At
<1> QED
  BY <1>4, <1>5, OthersKeepTheirData DEF Data

LEMMA DeleteStartData ==
  ASSUME Data, NEW j \in Job, NEW d \in DocId, DeleteStart(j, d)
  PROVE  Data'
<1> DEFINE new == [Idle EXCEPT !.pc = "unindex", !.cur = Snap(d), !.chip = rows[d].chip]
<1>1. job' = [job EXCEPT ![j] = new] /\ Snap(d) \in Snapshot
  BY SnapData DEF DeleteStart
<1>2. rows[d].chip \in Chip \cup {None}
  BY DEF Data, TypeOK, Row
<1>3. new \in JobState /\ new.cur = Snap(d) /\ new.pc = "unindex"
  BY <1>1, <1>2 DEF JobState, Idle, PC
<1>4. TypeOK' /\ RowsAreComplete'
  BY <1>1, <1>3 DEF Data, TypeOK, RowsAreComplete, DeleteStart, Exists
<1>5. HoldsItsData(j)' /\ \A k \in Job \ {j} : job'[k] = job[k]
  BY <1>1, <1>3 DEF Data, TypeOK, HoldsItsData, At
<1> QED
  BY <1>4, <1>5, OthersKeepTheirData DEF Data

\* The steps of a handler that has started.
LEMMA StepData ==
  ASSUME Data, NEW j \in Job, Step(j)
  PROVE  Data'
<1>1. job[j] \in JobState /\ HoldsItsData(j)
  BY DEF Data, TypeOK, LocalsAreComplete
<1>2. ~At(j, "idle") => job[j].cur \in Snapshot /\ job[j].cur.doc \in DocId
                        /\ job[j].cur.path \in Path /\ job[j].cur.name \in Path
  BY <1>1 DEF HoldsItsData, Snapshot
<1>3. CASE UploadSave(j)
  <2>1. At(j, "save") /\ job[j].text \in Content /\ ~At(j, "idle")
    BY <1>1, <1>3 DEF UploadSave, HoldsItsData, At
  <2>2. rows' \in [DocId -> Row] /\ RowsAreComplete'
    <3>1. CASE InsertRow(job[j].cur.doc, job[j].text, job[j].cur.path)
      BY <1>2, <2>1, <3>1, InsertRowRows
    <3>2. CASE UNCHANGED rows
      BY <3>2 DEF Data, TypeOK, RowsAreComplete, Exists
    <3> QED
      BY <1>3, <3>1, <3>2 DEF UploadSave
  <2>3. job' \in [Job -> JobState] /\ LocalsAreComplete'
    BY <1>3, ReturnData DEF UploadSave
  <2> QED
    BY <1>3, <2>2, <2>3 DEF UploadSave, Data, TypeOK
<1>4. CASE Mark(j)
  <2>1. ~At(j, "idle")
    BY <1>4 DEF Mark, At
  <2>2. CASE SetStatus(job[j].cur.doc, "processing") /\ Goto(j, "read")
    <3>1. rows' \in [DocId -> Row] /\ RowsAreComplete'
      BY <1>2, <2>1, <2>2, SetStatusData DEF Status
    <3>2. job' \in [Job -> JobState] /\ LocalsAreComplete'
      BY <2>1, <2>2, GotoData DEF PC
    <3> QED
      BY <1>4, <3>1, <3>2 DEF Mark, Data, TypeOK
  <2>3. CASE UNCHANGED rows /\ Return(j)
    BY <1>4, <2>3, ReturnData DEF Mark, Data, TypeOK, RowsAreComplete, Exists
  <2> QED
    BY <1>4, <2>2, <2>3 DEF Mark
<1>5. CASE Read(j)
  <2>1. ~At(j, "idle")
    BY <1>5 DEF Read, At
  <2>2. CASE files[job[j].cur.path] = None
    <3>1. job' \in [Job -> JobState] /\ LocalsAreComplete'
      BY <1>5, <2>1, <2>2, GotoData DEF Read, PC
    <3> QED
      BY <1>5, <3>1 DEF Read, Data, TypeOK, RowsAreComplete, Exists
  <2>3. CASE files[job[j].cur.path] # None
    <3> DEFINE new == [job[j] EXCEPT !.pc = "link", !.text = files[job[j].cur.path]]
    <3>1. job' = [job EXCEPT ![j] = new]
      BY <1>5, <2>3 DEF Read
    <3>2. files[job[j].cur.path] \in Content
      BY <1>2, <2>1, <2>3 DEF Data, TypeOK
    <3>3. /\ new \in JobState /\ new.cur = job[j].cur
          /\ new.pc = "link" /\ new.text \in Content
      BY <1>1, <3>2 DEF JobState, PC
    <3>4. HoldsItsData(j)' /\ \A k \in Job \ {j} : job'[k] = job[k]
      BY <1>2, <2>1, <3>1, <3>3 DEF Data, TypeOK, HoldsItsData, At
    <3>5. TypeOK' /\ RowsAreComplete'
      BY <1>5, <3>1, <3>3 DEF Read, Data, TypeOK, RowsAreComplete, Exists
    <3> QED
      BY <3>4, <3>5, OthersKeepTheirData DEF Data
  <2> QED
    BY <2>2, <2>3
<1>6. CASE Link(j)
  <2> DEFINE d == job[j].cur.doc
             c == PartNumber[job[j].cur.name][job[j].text]
             new == [job[j] EXCEPT !.pc = "wipe", !.chip = c]
  <2>1. At(j, "link") /\ ~At(j, "idle") /\ job[j].text \in Content
    BY <1>1, <1>6 DEF Link, At, HoldsItsData
  <2>2. c \in Chip
    BY <1>2, <2>1, PartNumberAssumption
  <2>3. job' = [job EXCEPT ![j] = new]
    BY <1>6 DEF Link
  <2>4. /\ new \in JobState /\ new.cur = job[j].cur /\ new.text = job[j].text
        /\ new.pc = "wipe" /\ new.chip = c
    BY <1>1, <2>2 DEF JobState, PC
  <2>5. HoldsItsData(j)' /\ \A k \in Job \ {j} : job'[k] = job[k]
    BY <1>2, <2>1, <2>3, <2>4 DEF Data, TypeOK, HoldsItsData, At
  <2>6. rows' = IF Exists(d) THEN [rows EXCEPT ![d] = [rows[d] EXCEPT !.chip = c]] ELSE rows
    BY <1>6 DEF Link
  <2>7. rows' \in [DocId -> Row] /\ RowsAreComplete'
    <3>1. [rows[d] EXCEPT !.chip = c] \in Row
      BY <1>2, <2>1, <2>2 DEF Data, TypeOK, Row
    <3> QED
      BY <1>2, <2>1, <2>6, <3>1 DEF Data, TypeOK, Row, RowsAreComplete, Exists
  <2> QED
    BY <1>6, <2>3, <2>4, <2>5, <2>7, OthersKeepTheirData DEF Link, Data, TypeOK
<1>7. CASE Wipe(j)
  <2> DEFINE new == [job[j] EXCEPT !.pc = "insert"]
  <2>1. /\ job' = [job EXCEPT ![j] = new]
        /\ At(j, "wipe") /\ vec' = [vec EXCEPT ![job[j].chip] = {}]
    BY <1>7 DEF Wipe, Goto
  <2>2. /\ new \in JobState /\ new.cur = job[j].cur /\ new.text = job[j].text
        /\ new.pc = "insert" /\ new.chip = job[j].chip
    BY <1>1 DEF JobState, PC
  <2>3. HoldsItsData(j)' /\ \A k \in Job \ {j} : job'[k] = job[k]
    BY <1>1, <2>1, <2>2 DEF Data, TypeOK, HoldsItsData, At
  <2>4. TypeOK' /\ RowsAreComplete'
    BY <1>7, <2>1, <2>2 DEF Wipe, Data, TypeOK, RowsAreComplete, Exists
  <2> QED
    BY <2>3, <2>4, OthersKeepTheirData DEF Data
<1>8. CASE Insert(j)
  <2>1. At(j, "insert") /\ ~At(j, "idle") /\ job[j].text \in Content
    BY <1>1, <1>8 DEF Insert, At, HoldsItsData
  <2>2. [by |-> j, doc |-> job[j].cur.doc, text |-> job[j].text] \in Batch
    BY <1>2, <2>1 DEF Batch
  <2>3. vec' \in [Chip -> SUBSET Batch]
    BY <1>8, <2>2 DEF Insert, Data, TypeOK
  <2>4. job' \in [Job -> JobState] /\ LocalsAreComplete'
    BY <1>8, <2>1, GotoData DEF Insert, PC
  <2> QED
    BY <1>8, <2>3, <2>4 DEF Insert, Data, TypeOK, RowsAreComplete, Exists
<1>9. CASE Enrich(j)
  <2>1. rules' \in [DocId -> 0..2]
    <3> DEFINE more == IF rules[job[j].cur.doc] = 0 THEN 1 ELSE 2
    <3>1. rules' = rules \/ rules' = [rules EXCEPT ![job[j].cur.doc] = more]
      BY <1>9 DEF Enrich
    <3>2. more \in 0..2
      OBVIOUS
    <3> HIDE DEF more
    <3> QED
      BY <3>1, <3>2 DEF Data, TypeOK
  <2>2. job' \in [Job -> JobState] /\ LocalsAreComplete'
    BY <1>9, GotoData DEF Enrich, At, PC
  <2> QED
    BY <1>9, <2>1, <2>2 DEF Enrich, Data, TypeOK, RowsAreComplete, Exists
<1>10. CASE Finish(j)
  <2>1. rows' \in [DocId -> Row] /\ RowsAreComplete'
    BY <1>2, <1>10, SetStatusData DEF Finish, At, Status
  <2>2. job' \in [Job -> JobState] /\ LocalsAreComplete'
    BY <1>10, AdvanceData DEF Finish
  <2> QED
    BY <1>10, <2>1, <2>2 DEF Finish, Data, TypeOK
<1>11. CASE StepFails(j)
  <2>1. job' \in [Job -> JobState] /\ LocalsAreComplete'
    BY <1>11, GotoData DEF StepFails, At, PC
  <2> QED
    BY <1>11, <2>1 DEF StepFails, Data, TypeOK, RowsAreComplete, Exists
<1>12. CASE MarkFailed(j)
  <2>1. CASE SetStatus(job[j].cur.doc, "failed") /\ Advance(j)
    <3>1. rows' \in [DocId -> Row] /\ RowsAreComplete'
      BY <1>2, <1>12, <2>1, SetStatusData DEF MarkFailed, At, Status
    <3>2. job' \in [Job -> JobState] /\ LocalsAreComplete'
      BY <2>1, AdvanceData
    <3> QED
      BY <1>12, <3>1, <3>2 DEF MarkFailed, Data, TypeOK
  <2>2. CASE UNCHANGED rows /\ Return(j)
    BY <1>12, <2>2, ReturnData DEF MarkFailed, Data, TypeOK, RowsAreComplete, Exists
  <2> QED
    BY <1>12, <2>1, <2>2 DEF MarkFailed
<1>13. CASE Unindex(j)
  <2>1. vec' \in [Chip -> SUBSET Batch]
    BY <1>13 DEF Unindex, Data, TypeOK
  <2>2. job' \in [Job -> JobState] /\ LocalsAreComplete'
    BY <1>13, GotoData DEF Unindex, At, PC
  <2> QED
    BY <1>13, <2>1, <2>2 DEF Unindex, Data, TypeOK, RowsAreComplete, Exists
<1>14. CASE Unlink(j)
  <2>1. files' \in [Path -> Content \cup {None}]
    BY <1>14 DEF Unlink, Data, TypeOK
  <2>2. job' \in [Job -> JobState] /\ LocalsAreComplete'
    BY <1>14, GotoData DEF Unlink, At, PC
  <2> QED
    BY <1>14, <2>1, <2>2 DEF Unlink, Data, TypeOK, RowsAreComplete, Exists
<1>15. CASE DropRow(j)
  <2>1. NoRow \in Row
    BY DEF NoRow, Row, Status
  <2>2. rows' \in [DocId -> Row] /\ RowsAreComplete'
    BY <1>15, <2>1 DEF DropRow, Data, TypeOK, RowsAreComplete, Exists, NoRow
  <2>3. job' \in [Job -> JobState] /\ LocalsAreComplete'
    BY <1>15, ReturnData DEF DropRow
  <2> QED
    BY <1>15, <2>2, <2>3 DEF DropRow, Data, TypeOK
<1> QED
  BY <1>3, <1>4, <1>5, <1>6, <1>7, <1>8, <1>9, <1>10, <1>11, <1>12, <1>13, <1>14, <1>15
     DEF Step, Work

-----------------------------------------------------------------------------
(* Ids, and the link between a row and its chip *)

\* What every step of a started handler has in common.  Of the handlers, it
\* changes its own: it ends, or goes on with its document or with its list.
MovesOn(j) ==
  /\ nextId' = nextId
  /\ \A k \in Job \ {j} : job'[k] = job[k]
  /\ \/ job'[j] = Idle
     \/ /\ job[j].pc \notin {"idle", "save"} /\ job'[j].pc \notin {"idle", "save"}
        /\ job'[j].cur \in {job[j].cur} \cup job[j].rest
        /\ job'[j].rest \subseteq job[j].rest

LinkedPC == {"wipe", "insert", "enrich", "finish"}

\* Of the rows, it adds at most the one an upload drew an id for, unlinks
\* none, and completes at most its own, once that is linked.
KeepsRows(j) ==
  /\ \A d \in DocId :
       /\ Exists(d)' => \/ Exists(d)
                       \/ /\ At(j, "save") /\ job'[j] = Idle /\ d = job[j].cur.doc
                          /\ rows'[d].status = "uploaded"
       /\ Exists(d) /\ rows[d].chip # None /\ Exists(d)' => rows'[d].chip # None
       /\ rows'[d].status = "completed" =>
            \/ rows[d].status = "completed"
            \/ At(j, "finish") /\ d = job[j].cur.doc /\ Exists(d)
  /\ job'[j].pc \in LinkedPC =>
       /\ job'[j].cur = job[j].cur
       /\ \/ job[j].pc \in LinkedPC
          \/ Exists(job[j].cur.doc)' => rows'[job[j].cur.doc].chip # None

LEMMA GotoMovesOn ==
  ASSUME TypeOK, NEW j \in Job, job[j].pc \notin {"idle", "save"},
         NEW pc \in PC \ {"idle", "save"}, Goto(j, pc), UNCHANGED nextId
  PROVE  MovesOn(j) /\ job'[j].cur = job[j].cur /\ job'[j].pc = pc
<1>1. /\ job'[j] = [job[j] EXCEPT !.pc = pc]
      /\ \A k \in Job \ {j} : job'[k] = job[k]
  BY GotoType DEF TypeOK
<1>2. job[j] \in JobState
  BY DEF TypeOK
<1> QED
  BY <1>1, <1>2 DEF MovesOn, JobState

LEMMA ReturnMovesOn ==
  ASSUME TypeOK, NEW j \in Job, Return(j), UNCHANGED nextId
  PROVE  MovesOn(j) /\ job'[j] = Idle /\ job'[j].pc = "idle"
BY ReturnType DEF TypeOK, MovesOn, Idle

LEMMA AdvanceMovesOn ==
  ASSUME TypeOK, NEW j \in Job, job[j].pc \notin {"idle", "save"},
         Advance(j), UNCHANGED nextId
  PROVE  MovesOn(j) /\ job'[j].pc \in {"idle", "mark"}
<1>1. /\ \A k \in Job \ {j} : job'[k] = job[k]
      /\ \/ job'[j] = Idle
         \/ /\ job'[j].pc = "mark" /\ job'[j].cur \in job[j].rest
            /\ job'[j].rest \subseteq job[j].rest
  BY AdvanceType DEF TypeOK
<1>2. Idle.pc = "idle"
  BY DEF Idle
<1> QED
  BY <1>1, <1>2 DEF MovesOn

\* A step that leaves the rows alone, and is not the one that links.
LEMMA SameRows ==
  ASSUME NEW j \in Job, UNCHANGED rows,
         job'[j].pc \in LinkedPC => job'[j].cur = job[j].cur /\ job[j].pc \in LinkedPC
  PROVE  KeepsRows(j)
BY DEF KeepsRows, Exists

LEMMA SetStatusKeepsRows ==
  ASSUME Data, NEW j \in Job, job[j].cur.doc \in DocId, NEW s \in Status \ {"absent"},
         SetStatus(job[j].cur.doc, s), s = "completed" => At(j, "finish"),
         job'[j].pc \notin LinkedPC
  PROVE  KeepsRows(j)
<1>1. \A e \in DocId :
        /\ rows'[e].chip = rows[e].chip
        /\ rows'[e].status = IF e = job[j].cur.doc /\ Exists(job[j].cur.doc) THEN s ELSE rows[e].status
  BY SetStatusRows DEF Data
<1> QED
  BY <1>1 DEF KeepsRows, Exists

LEMMA StepEffect ==
  ASSUME Data, IdsAreFresh, NEW j \in Job, Step(j)
  PROVE  MovesOn(j) /\ KeepsRows(j)
<1>1. TypeOK /\ job[j] \in JobState /\ HoldsItsData(j)
  BY DEF Data, TypeOK, LocalsAreComplete
<1>2. ~At(j, "idle") => /\ job[j].cur.doc \in DocId
                        /\ job[j].cur.path \in Path /\ job[j].cur.name \in Path
  BY <1>1 DEF HoldsItsData, Snapshot
<1>3. CASE UploadSave(j)
  <2>1. At(j, "save") /\ ~At(j, "idle") /\ ~Exists(job[j].cur.doc)
    BY <1>3 DEF UploadSave, At, IdsAreFresh
  <2>2. MovesOn(j) /\ job'[j] = Idle /\ job'[j].pc \notin LinkedPC
    BY <1>1, <1>3, ReturnMovesOn DEF UploadSave, LinkedPC
  <2>3. CASE InsertRow(job[j].cur.doc, job[j].text, job[j].cur.path)
    <3>1. /\ \A e \in DocId : e # job[j].cur.doc =>
               rows'[e].status = rows[e].status /\ rows'[e].chip = rows[e].chip
          /\ rows'[job[j].cur.doc].status \in {"absent", "uploaded"}
      BY <1>1, <1>2, <2>1, <2>3, InsertRowRows DEF HoldsItsData, At
    <3> QED
      BY <2>1, <2>2, <3>1 DEF KeepsRows, Exists
  <2>4. CASE UNCHANGED rows
    BY <2>2, <2>4, SameRows
  <2> QED
    BY <1>3, <2>2, <2>3, <2>4 DEF UploadSave
<1>4. CASE Mark(j)
  <2>1. CASE SetStatus(job[j].cur.doc, "processing") /\ Goto(j, "read")
    <3>1. MovesOn(j) /\ job'[j].pc \notin LinkedPC
      BY <1>1, <1>4, <2>1, GotoMovesOn DEF Mark, At, PC, LinkedPC
    <3> QED
      BY <1>2, <1>4, <2>1, <3>1, SetStatusKeepsRows DEF Mark, At, Status
  <2>2. CASE UNCHANGED rows /\ Return(j)
    BY <1>1, <1>4, <2>2, ReturnMovesOn, SameRows DEF Mark, LinkedPC
  <2> QED
    BY <1>4, <2>1, <2>2 DEF Mark
<1>5. CASE Read(j)
  <2>1. CASE files[job[j].cur.path] = None
    BY <1>1, <1>5, <2>1, GotoMovesOn, SameRows DEF Read, At, PC, LinkedPC
  <2>2. CASE files[job[j].cur.path] # None
    <3>1. job' = [job EXCEPT ![j] = [job[j] EXCEPT !.pc = "link", !.text = files[job[j].cur.path]]]
      BY <1>5, <2>2 DEF Read
    <3>2. MovesOn(j) /\ job'[j].pc \notin LinkedPC
      BY <1>1, <1>5, <3>1 DEF Read, At, TypeOK, JobState, MovesOn, LinkedPC
    <3> QED
      BY <1>5, <3>2, SameRows DEF Read
  <2> QED
    BY <2>1, <2>2
<1>6. CASE Link(j)
  <2> DEFINE d == job[j].cur.doc
             c == PartNumber[job[j].cur.name][job[j].text]
  <2>1. c \in Chip
    BY <1>1, <1>2, <1>6, PartNumberAssumption DEF Link, At, HoldsItsData
  <2>2. job' = [job EXCEPT ![j] = [job[j] EXCEPT !.pc = "wipe", !.chip = c]]
    BY <1>6 DEF Link
  <2>3. MovesOn(j) /\ job'[j].cur = job[j].cur
    BY <1>1, <1>6, <2>2 DEF Link, At, TypeOK, JobState, MovesOn
  <2>4. rows' = IF Exists(d) THEN [rows EXCEPT ![d] = [rows[d] EXCEPT !.chip = c]] ELSE rows
    BY <1>6 DEF Link
  <2>5. /\ \A e \in DocId : rows'[e].status = rows[e].status
        /\ \A e \in DocId \ {d} : rows'[e].chip = rows[e].chip
        /\ Exists(d) => rows'[d].chip = c
    BY <1>1, <1>2, <1>6, <2>4 DEF Link, At, TypeOK, Row
  <2>6. c # None /\ d \in DocId
    BY <1>2, <1>6, <2>1, NoneAssumption DEF Link, At
  <2> HIDE DEF c
  <2> QED
    BY <2>3, <2>5, <2>6 DEF KeepsRows, Exists
<1>7. CASE Wipe(j)
  BY <1>1, <1>7, GotoMovesOn, SameRows DEF Wipe, At, PC, LinkedPC
<1>8. CASE Insert(j)
  BY <1>1, <1>8, GotoMovesOn, SameRows DEF Insert, At, PC, LinkedPC
<1>9. CASE Enrich(j)
  BY <1>1, <1>9, GotoMovesOn, SameRows DEF Enrich, At, PC, LinkedPC
<1>10. CASE Finish(j)
  <2>1. MovesOn(j) /\ job'[j].pc \notin LinkedPC
    BY <1>1, <1>10, AdvanceMovesOn DEF Finish, At, LinkedPC
  <2> QED
    BY <1>2, <1>10, <2>1, SetStatusKeepsRows DEF Finish, At, Status
<1>11. CASE StepFails(j)
  BY <1>1, <1>11, GotoMovesOn, SameRows DEF StepFails, PC, LinkedPC
<1>12. CASE MarkFailed(j)
  <2>1. CASE SetStatus(job[j].cur.doc, "failed") /\ Advance(j)
    <3>1. MovesOn(j) /\ job'[j].pc \notin LinkedPC
      BY <1>1, <1>12, <2>1, AdvanceMovesOn DEF MarkFailed, At, LinkedPC
    <3> QED
      BY <1>2, <1>12, <2>1, <3>1, SetStatusKeepsRows DEF MarkFailed, At, Status
  <2>2. CASE UNCHANGED rows /\ Return(j)
    BY <1>1, <1>12, <2>2, ReturnMovesOn, SameRows DEF MarkFailed, LinkedPC
  <2> QED
    BY <1>12, <2>1, <2>2 DEF MarkFailed
<1>13. CASE Unindex(j)
  BY <1>1, <1>13, GotoMovesOn, SameRows DEF Unindex, At, PC, LinkedPC
<1>14. CASE Unlink(j)
  BY <1>1, <1>14, GotoMovesOn, SameRows DEF Unlink, At, PC, LinkedPC
<1>15. CASE DropRow(j)
  <2>1. MovesOn(j) /\ job'[j].pc \notin LinkedPC
    BY <1>1, <1>15, ReturnMovesOn DEF DropRow, LinkedPC
  <2>2. rows' = rows \/ rows' = [rows EXCEPT ![job[j].cur.doc] = NoRow]
    BY <1>15 DEF DropRow
  <2> QED
    BY <1>1, <2>1, <2>2 DEF KeepsRows, Exists, NoRow, TypeOK
<1> QED
  BY <1>3, <1>4, <1>5, <1>6, <1>7, <1>8, <1>9, <1>10, <1>11, <1>12, <1>13, <1>14, <1>15
     DEF Step, Work

\* A step of a started handler uses no id but its own.
LEMMA StepKeepsIds ==
  ASSUME Data, IdsAreFresh, NEW j \in Job, MovesOn(j), KeepsRows(j)
  PROVE  IdsAreFresh'
<1>1. /\ nextId' = nextId
      /\ \A k \in Job \ {j} : job'[k] = job[k]
      /\ job'[j].pc # "idle" =>
           /\ job[j].pc \notin {"idle", "save"} /\ job'[j].pc # "save"
           /\ job'[j].cur \in {job[j].cur} \cup job[j].rest
           /\ job'[j].rest \subseteq job[j].rest
      /\ job'[j].pc # "save"
  BY DEF MovesOn, Idle
<1>2. \A d \in DocId : Exists(d)' => Exists(d) \/ (At(j, "save") /\ d = job[j].cur.doc)
  BY DEF KeepsRows
<1>3. \A k \in Job : job[k].pc # "idle" => job[k].cur.doc \in DocId
  BY DEF Data, LocalsAreComplete, HoldsItsData, At, Snapshot
<1>4. \A d \in DocId : Exists(d)' => d < nextId'
  BY <1>1, <1>2 DEF IdsAreFresh, At
<1>5. \A k \in Job : job'[k].pc # "idle" =>
        job'[k].cur.doc < nextId' /\ \A s \in job'[k].rest : s.doc < nextId'
  BY <1>1 DEF IdsAreFresh, At
<1>6. \A k, l \in Job : job'[k].pc = "save" /\ l # k /\ job'[l].pc # "idle" =>
        /\ job'[l].cur.doc # job'[k].cur.doc
        /\ \A s \in job'[l].rest : s.doc # job'[k].cur.doc
  <2> SUFFICES ASSUME NEW k \in Job, NEW l \in Job, l # k,
                      job'[k].pc = "save", job'[l].pc # "idle"
               PROVE  /\ job'[l].cur.doc # job'[k].cur.doc
                      /\ \A s \in job'[l].rest : s.doc # job'[k].cur.doc
    OBVIOUS
  <2>1. k # j /\ job'[k] = job[k] /\ job[l].pc # "idle"
    BY <1>1
  <2>2. /\ job[l].cur.doc # job[k].cur.doc
        /\ \A s \in job[l].rest : s.doc # job[k].cur.doc
    BY <2>1 DEF IdsAreFresh, At
  <2> QED
    BY <1>1, <2>1, <2>2
<1>7. \A k \in Job : job'[k].pc = "save" => rows'[job'[k].cur.doc].status = "absent"
  <2> SUFFICES ASSUME NEW k \in Job, job'[k].pc = "save"
               PROVE  rows'[job'[k].cur.doc].status = "absent"
    OBVIOUS
  <2>1. k # j /\ job'[k] = job[k] /\ ~Exists(job[k].cur.doc) /\ job[k].cur.doc \in DocId
    BY <1>1, <1>3 DEF IdsAreFresh, At
  <2>2. At(j, "save") => job[j].cur.doc # job[k].cur.doc
    BY <2>1 DEF IdsAreFresh, At
  <2>3. ~Exists(job[k].cur.doc)'
    BY <1>2, <2>1, <2>2
  <2> QED
    BY <2>1, <2>3 DEF Exists
<1> QED
  BY <1>4, <1>5, <1>6, <1>7 DEF IdsAreFresh, At, Exists

\* A handler that starts holds ids of rows it has just selected.
LEMMA StartKeepsIds ==
  ASSUME Data, IdsAreFresh, NEW j \in Job, UNCHANGED <<rows, nextId>>,
         \A k \in Job \ {j} : job'[k] = job[k],
         job'[j].pc \notin {"idle", "save"},
         Exists(job'[j].cur.doc), job'[j].cur.doc \in DocId,
         \A s \in job'[j].rest : s.doc \in DocId /\ Exists(s.doc)
  PROVE  IdsAreFresh'
<1>1. \A k \in Job : job'[k].pc # "idle" =>
        job'[k].cur.doc < nextId' /\ \A s \in job'[k].rest : s.doc < nextId'
  BY DEF IdsAreFresh, At
<1>2. \A k, l \in Job : job'[k].pc = "save" /\ l # k /\ job'[l].pc # "idle" =>
        /\ job'[l].cur.doc # job'[k].cur.doc
        /\ \A s \in job'[l].rest : s.doc # job'[k].cur.doc
  <2> SUFFICES ASSUME NEW k \in Job, NEW l \in Job, l # k,
                      job'[k].pc = "save", job'[l].pc # "idle"
               PROVE  /\ job'[l].cur.doc # job'[k].cur.doc
                      /\ \A s \in job'[l].rest : s.doc # job'[k].cur.doc
    OBVIOUS
  <2>1. k # j /\ job'[k] = job[k] /\ job[k].pc = "save" /\ ~Exists(job[k].cur.doc)
    BY DEF IdsAreFresh, At
  <2>2. CASE l = j
    BY <2>1, <2>2
  <2>3. CASE l # j
    BY <2>1, <2>3 DEF IdsAreFresh, At
  <2> QED
    BY <2>2, <2>3
<1>3. \A k \in Job : job'[k].pc = "save" => rows'[job'[k].cur.doc].status = "absent"
  BY DEF IdsAreFresh, At, Exists
<1> QED
  BY <1>1, <1>2, <1>3 DEF IdsAreFresh, At, Exists

\* The id an upload draws is above every id in use.
LEMMA UploadWriteKeepsIds ==
  ASSUME Data, IdsAreFresh, NEW j \in Job, NEW h \in Content, NEW p \in Path,
         UploadWrite(j, h, p)
  PROVE  IdsAreFresh'
<1> DEFINE new == [Idle EXCEPT !.pc = "save", !.text = h,
                               !.cur = [doc |-> nextId, path |-> p, name |-> p]]
<1>1. /\ job' = [job EXCEPT ![j] = new] /\ nextId' = nextId + 1 /\ nextId \in DocId
      /\ job[j].pc = "idle" /\ rows' = rows
  BY MaxDocsAssumption DEF UploadWrite, At, Data, TypeOK, DocId
<1>2. job'[j].pc = "save" /\ job'[j].cur.doc = nextId /\ job'[j].rest = {}
  BY <1>1 DEF Data, TypeOK, Idle
<1>3. \A k \in Job \ {j} : job'[k] = job[k]
  BY <1>1 DEF Data, TypeOK
<1>4. ~Exists(nextId)
  BY <1>1, MaxDocsAssumption DEF IdsAreFresh, DocId
<1>5. \A d \in DocId : Exists(d)' => d < nextId'
  BY <1>1 DEF IdsAreFresh, Exists, DocId
<1>6. \A k \in Job \ {j} : job[k].pc # "idle" =>
        /\ job[k].cur.doc \in DocId /\ job[k].cur.doc < nextId
        /\ \A s \in job[k].rest : s.doc \in DocId /\ s.doc < nextId
  BY DEF Data, TypeOK, LocalsAreComplete, HoldsItsData, JobState, Snapshot, IdsAreFresh, At
<1>7. \A k \in Job : job'[k].pc # "idle" =>
        job'[k].cur.doc < nextId' /\ \A s \in job'[k].rest : s.doc < nextId'
  BY <1>1, <1>2, <1>3, <1>6 DEF DocId
<1>8. \A k, l \in Job : job'[k].pc = "save" /\ l # k /\ job'[l].pc # "idle" =>
        /\ job'[l].cur.doc # job'[k].cur.doc
        /\ \A s \in job'[l].rest : s.doc # job'[k].cur.doc
  <2> SUFFICES ASSUME NEW k \in Job, NEW l \in Job, l # k,
                      job'[k].pc = "save", job'[l].pc # "idle"
               PROVE  /\ job'[l].cur.doc # job'[k].cur.doc
                      /\ \A s \in job'[l].rest : s.doc # job'[k].cur.doc
    OBVIOUS
  <2>1. CASE k = j
    BY <1>1, <1>2, <1>3, <1>6, <2>1 DEF DocId
  <2>2. CASE l = j
    BY <1>1, <1>2, <1>3, <1>6, <2>2 DEF DocId
  <2>3. CASE k # j /\ l # j
    BY <1>3, <2>3 DEF IdsAreFresh, At
  <2> QED
    BY <2>1, <2>2, <2>3
<1>9. \A k \in Job : job'[k].pc = "save" => rows'[job'[k].cur.doc].status = "absent"
  BY <1>1, <1>2, <1>3, <1>4 DEF IdsAreFresh, At, Exists
<1> QED
  BY <1>5, <1>7, <1>8, <1>9 DEF IdsAreFresh, At, Exists

Linked == IngestedIsLinked /\ CompletedIsLinked

\* No step unlinks a row, and a row is completed by a handler that has linked
\* it: the id it linked is still that of the row it selected.
LEMMA StepKeepsLinks ==
  ASSUME Data, IdsAreFresh, Linked, NEW j \in Job, MovesOn(j), KeepsRows(j)
  PROVE  Linked'
<1>1. \A k \in Job : job[k].pc # "idle" => job[k].cur.doc \in DocId
  BY DEF Data, LocalsAreComplete, HoldsItsData, At, Snapshot
<1>2. \A d \in DocId :
        /\ Exists(d)' => Exists(d) \/ (At(j, "save") /\ d = job[j].cur.doc
                                       /\ rows'[d].status = "uploaded")
        /\ Exists(d) /\ rows[d].chip # None /\ Exists(d)' => rows'[d].chip # None
        /\ rows'[d].status = "completed" =>
             rows[d].status = "completed" \/ (At(j, "finish") /\ d = job[j].cur.doc /\ Exists(d))
  BY DEF KeepsRows
<1>3. ASSUME NEW k \in Job, job'[k].pc \in LinkedPC,
             rows'[job'[k].cur.doc].status # "absent"
      PROVE  rows'[job'[k].cur.doc].chip # None
  <2>1. CASE k = j
    <3>1. job'[j].cur = job[j].cur /\ job[j].pc \notin {"idle", "save"}
      BY <1>3, <2>1 DEF KeepsRows, MovesOn, LinkedPC, Idle
    <3>2. CASE job[j].pc \in LinkedPC
      BY <1>1, <1>2, <1>3, <2>1, <3>1, <3>2 DEF Linked, IngestedIsLinked, LinkedPC, Exists, At
    <3>3. CASE Exists(job[j].cur.doc)' => rows'[job[j].cur.doc].chip # None
      BY <1>3, <2>1, <3>1, <3>3 DEF Exists
    <3> QED
      BY <1>3, <2>1, <3>2, <3>3 DEF KeepsRows
  <2>2. CASE k # j
    <3>1. job'[k] = job[k] /\ job[k].pc \in LinkedPC /\ job[k].cur.doc \in DocId
      BY <1>1, <1>3, <2>2 DEF MovesOn, LinkedPC
    <3>2. At(j, "save") => job[k].cur.doc # job[j].cur.doc
      BY <2>2, <3>1 DEF IdsAreFresh, At, LinkedPC
    <3>3. Exists(job[k].cur.doc)
      BY <1>2, <1>3, <3>1, <3>2 DEF Exists
    <3> QED
      BY <1>2, <1>3, <3>1, <3>3 DEF Linked, IngestedIsLinked, LinkedPC, Exists
  <2> QED
    BY <2>1, <2>2
<1>4. ASSUME NEW d \in DocId, rows'[d].status = "completed"
      PROVE  rows'[d].chip # None
  <2>1. CASE rows[d].status = "completed"
    BY <1>2, <1>4, <2>1 DEF Linked, CompletedIsLinked, Exists
  <2>2. CASE At(j, "finish") /\ d = job[j].cur.doc /\ Exists(d)
    BY <1>2, <1>4, <2>2 DEF Linked, IngestedIsLinked, Exists, At
  <2> QED
    BY <1>2, <1>4, <2>1, <2>2
<1> QED
  BY <1>3, <1>4 DEF Linked, IngestedIsLinked, CompletedIsLinked, LinkedPC, Exists

\* A handler that starts has linked nothing yet.
LEMMA StartKeepsLinks ==
  ASSUME Linked, NEW j \in Job, UNCHANGED rows, job'[j].pc \notin LinkedPC,
         \A k \in Job \ {j} : job'[k] = job[k]
  PROVE  Linked'
BY DEF Linked, IngestedIsLinked, CompletedIsLinked, LinkedPC, Exists

IInv == Data /\ IdsAreFresh /\ Linked

LEMMA RequestKeepsIInv ==
  ASSUME IInv, NEW j \in Job, Request(j)
  PROVE  IInv'
<1>1. Data /\ IdsAreFresh /\ Linked
  BY DEF IInv
<1>2. ASSUME NEW h \in Content, NEW p \in Path, UploadWrite(j, h, p) PROVE IInv'
  <2>1. UNCHANGED rows /\ job'[j].pc = "save" /\ \A k \in Job \ {j} : job'[k] = job[k]
    BY <1>1, <1>2 DEF UploadWrite, Data, TypeOK, Idle
  <2> QED
    BY <1>1, <1>2, <2>1, UploadWriteData, UploadWriteKeepsIds, StartKeepsLinks DEF IInv, LinkedPC
<1>3. ASSUME NEW d \in DocId, StartIngest(j, d) PROVE IInv'
  <2>1. /\ UNCHANGED <<rows, nextId>> /\ job'[j].pc = "mark" /\ job'[j].cur.doc = d
        /\ job'[j].rest = {} /\ Exists(d) /\ \A k \in Job \ {j} : job'[k] = job[k]
    BY <1>1, <1>3 DEF StartIngest, Data, TypeOK, Idle, Snap
  <2>2. IdsAreFresh'
    BY <1>1, <2>1, StartKeepsIds
  <2> QED
    BY <1>1, <1>3, <2>1, <2>2, StartIngestData, StartKeepsLinks DEF IInv, LinkedPC
<1>4. ASSUME NEW d \in DocId, DeleteStart(j, d) PROVE IInv'
  <2>1. /\ UNCHANGED <<rows, nextId>> /\ job'[j].pc = "unindex" /\ job'[j].cur.doc = d
        /\ job'[j].rest = {} /\ Exists(d) /\ \A k \in Job \ {j} : job'[k] = job[k]
    BY <1>1, <1>4 DEF DeleteStart, Data, TypeOK, Idle, Snap
  <2>2. IdsAreFresh'
    BY <1>1, <2>1, StartKeepsIds
  <2> QED
    BY <1>1, <1>4, <2>1, <2>2, DeleteStartData, StartKeepsLinks DEF IInv, LinkedPC
<1>5. ASSUME IngestAll(j) PROVE IInv'
  <2> DEFINE all == {Snap(d) : d \in Pending}
  <2>1. PICK s \in all :
          job' = [job EXCEPT ![j] = [Idle EXCEPT !.pc = "mark", !.cur = s, !.rest = all \ {s}]]
    BY <1>5 DEF IngestAll
  <2>2. \A t \in all : t.doc \in DocId /\ Exists(t.doc)
    BY DEF Pending, Snap, Exists
  <2>3. /\ UNCHANGED <<rows, nextId>> /\ job'[j].pc = "mark" /\ job'[j].cur = s
        /\ job'[j].rest = all \ {s} /\ \A k \in Job \ {j} : job'[k] = job[k]
    BY <1>1, <1>5, <2>1 DEF IngestAll, Data, TypeOK, Idle
  <2> HIDE DEF all
  <2>4. IdsAreFresh'
    BY <1>1, <2>2, <2>3, StartKeepsIds
  <2> QED
    BY <1>1, <1>5, <2>3, <2>4, IngestAllData, StartKeepsLinks DEF IInv, LinkedPC
<1> QED
  BY <1>2, <1>3, <1>4, <1>5 DEF Request, IngestSingle, IngestAsync

LEMMA IInvInductive == IInv /\ [Next]_vars => IInv'
<1> SUFFICES ASSUME IInv, [Next]_vars PROVE IInv'
  OBVIOUS
<1>1. Data /\ IdsAreFresh /\ Linked
  BY DEF IInv
<1>2. CASE Crash
  <2>1. Data'
    <3>1. Idle \in JobState
      BY DEF Idle, JobState, PC
    <3> QED
      BY <1>1, <1>2, <3>1 DEF Crash, Data, TypeOK, RowsAreComplete, Exists,
                              LocalsAreComplete, HoldsItsData, At, Idle
  <2>2. IdsAreFresh' /\ Linked'
    BY <1>1, <1>2 DEF Crash, IdsAreFresh, Linked, IngestedIsLinked, CompletedIsLinked,
                      Exists, At, Idle
  <2> QED
    BY <2>1, <2>2 DEF IInv
<1>3. ASSUME NEW j \in Job, Request(j) PROVE IInv'
  BY <1>3, RequestKeepsIInv
<1>4. ASSUME NEW j \in Job, Step(j) PROVE IInv'
  BY <1>1, <1>4, StepData, StepEffect, StepKeepsIds, StepKeepsLinks DEF IInv
<1>5. CASE UNCHANGED vars
  BY <1>1, <1>5 DEF IInv, vars, Data, TypeOK, RowsAreComplete, Exists, LocalsAreComplete,
    HoldsItsData, At, IdsAreFresh, Linked, IngestedIsLinked, CompletedIsLinked
<1> QED
  BY <1>2, <1>3, <1>4, <1>5 DEF Next

LEMMA IInvAlways == Spec => []IInv
<1>1. Init => IInv
  BY DataInit DEF IInv, Init, IdsAreFresh, Linked, IngestedIsLinked, CompletedIsLinked,
    Exists, NoRow, At, Idle
<1> QED
  BY <1>1, IInvInductive, PTL DEF Spec

\* Whatever interleaves, fails or crashes, the stores keep their types: no
\* handler writes one store's kind of value into another's column.
THEOREM TypeCorrect == Spec => []TypeOK
<1>1. IInv => TypeOK
  BY DEF IInv, Data
<1> QED
  BY <1>1, IInvAlways, PTL

\* No handler reaches a step without the data that step uses, and none works
\* on another document than the one it selected.
THEOREM HandlersAreWellFormed == Spec => []WellFormed
<1>1. IInv => WellFormed
  BY DEF IInv, Data, Linked, WellFormed
<1> QED
  BY <1>1, IInvAlways, PTL

\* A document is only shown as completed when it is linked to a chip.
THEOREM CompletedDocumentsAreLinked == Spec => []CompletedIsLinked
<1>1. IInv => CompletedIsLinked
  BY DEF IInv, Linked
<1> QED
  BY <1>1, IInvAlways, PTL

-----------------------------------------------------------------------------
(* The chunks in the vector store *)

\* Nothing but Wipe leads to an insert, nothing but Insert adds chunks.
LEMMA StepChunks ==
  ASSUME IInv, NEW j \in Job, Step(j)
  PROVE  \/ Wipe(j) \/ Insert(j)
         \/ job'[j].pc # "insert" /\ \A c \in Chip : vec'[c] \subseteq vec[c]
<1> SUFFICES ASSUME ~Wipe(j), ~Insert(j)
             PROVE  job'[j].pc # "insert" /\ \A c \in Chip : vec'[c] \subseteq vec[c]
  OBVIOUS
<1>1. TypeOK
  BY DEF IInv, Data
<1>2. CASE UploadSave(j)
  BY <1>1, <1>2, ReturnMovesOn DEF UploadSave
<1>3. CASE Mark(j)
  BY <1>1, <1>3, GotoMovesOn, ReturnMovesOn DEF Mark, At, PC
<1>4. CASE Read(j)
  <2>1. \/ Goto(j, "fail")
        \/ job' = [job EXCEPT ![j] = [job[j] EXCEPT !.pc = "link", !.text = files[job[j].cur.path]]]
    BY <1>4 DEF Read
  <2>2. job'[j].pc # "insert"
    BY <1>1, <1>4, <2>1, GotoMovesOn DEF Read, At, PC, TypeOK, JobState
  <2> QED
    BY <1>4, <2>2 DEF Read
<1>5. CASE Link(j)
  <2>1. job' = [job EXCEPT ![j] = [job[j] EXCEPT !.pc = "wipe",
                                     !.chip = PartNumber[job[j].cur.name][job[j].text]]]
    BY <1>5 DEF Link
  <2>2. job'[j].pc = "wipe"
    BY <1>1, <2>1 DEF TypeOK, JobState
  <2> QED
    BY <1>5, <2>2 DEF Link
<1>6. CASE Enrich(j)
  BY <1>1, <1>6, GotoMovesOn DEF Enrich, At, PC
<1>7. CASE Finish(j)
  BY <1>1, <1>7, AdvanceMovesOn DEF Finish, At
<1>8. CASE StepFails(j)
  BY <1>1, <1>8, GotoMovesOn DEF StepFails, PC
<1>9. CASE MarkFailed(j)
  BY <1>1, <1>9, AdvanceMovesOn, ReturnMovesOn DEF MarkFailed, At
<1>10. CASE Unindex(j)
  BY <1>1, <1>10, GotoMovesOn DEF Unindex, At, PC
<1>11. CASE Unlink(j)
  BY <1>1, <1>11, GotoMovesOn DEF Unlink, At, PC
<1>12. CASE DropRow(j)
  BY <1>1, <1>12, ReturnMovesOn DEF DropRow
<1> QED
  BY <1>2, <1>3, <1>4, <1>5, <1>6, <1>7, <1>8, <1>9, <1>10, <1>11, <1>12 DEF Step, Work

\* A request adds no chunk and starts at no insert.
LEMMA RequestChunks ==
  ASSUME TypeOK, NEW j \in Job, Request(j)
  PROVE  /\ vec' = vec /\ job'[j].pc # "insert"
         /\ \A k \in Job \ {j} : job'[k] = job[k]
<1>1. ASSUME NEW h \in Content, NEW p \in Path, UploadWrite(j, h, p)
      PROVE  vec' = vec /\ job'[j].pc # "insert" /\ \A k \in Job \ {j} : job'[k] = job[k]
  BY <1>1 DEF UploadWrite, TypeOK, Idle
<1>2. ASSUME NEW d \in DocId, StartIngest(j, d)
      PROVE  vec' = vec /\ job'[j].pc # "insert" /\ \A k \in Job \ {j} : job'[k] = job[k]
  BY <1>2 DEF StartIngest, TypeOK, Idle
<1>3. ASSUME NEW d \in DocId, DeleteStart(j, d)
      PROVE  vec' = vec /\ job'[j].pc # "insert" /\ \A k \in Job \ {j} : job'[k] = job[k]
  BY <1>3 DEF DeleteStart, TypeOK, Idle
<1>4. ASSUME IngestAll(j)
      PROVE  vec' = vec /\ job'[j].pc # "insert" /\ \A k \in Job \ {j} : job'[k] = job[k]
  <2>1. PICK s, r : job' = [job EXCEPT ![j] = [Idle EXCEPT !.pc = "mark", !.cur = s, !.rest = r]]
    BY <1>4 DEF IngestAll
  <2> QED
    BY <1>4, <2>1 DEF IngestAll, TypeOK, Idle
<1> QED
  BY <1>1, <1>2, <1>3, <1>4 DEF Request, IngestSingle, IngestAsync

ChunkInv == DuplicatesNeedOverlap /\ ChunksMatchTheirChip

\* Fewer chunks, and no handler newly at an insert.
LEMMA FewerChunks ==
  ASSUME ChunkInv, NEW j \in Job, \A c \in Chip : vec'[c] \subseteq vec[c],
         \A k \in Job \ {j} : job'[k] = job[k], job'[j].pc # "insert",
         \A k \in Job : job[k].pc = "insert" => job[k].chip \in Chip
  PROVE  ChunkInv'
BY DEF ChunkInv, DuplicatesNeedOverlap, ChunksMatchTheirChip, At

LEMMA ChunkInvInductive == IInv /\ ChunkInv /\ [Next]_vars => ChunkInv'
<1> SUFFICES ASSUME IInv, ChunkInv, [Next]_vars PROVE ChunkInv'
  OBVIOUS
<1>1. TypeOK /\ Data /\ IdsAreFresh /\ \A k \in Job : HoldsItsData(k)
  BY DEF IInv, Data, LocalsAreComplete
<1>2. \A k \in Job : job[k].pc \in {"wipe", "insert"} =>
        /\ job[k].chip \in Chip /\ job[k].text \in Content
        /\ \E n \in Path : PartNumber[n][job[k].text] = job[k].chip
  BY <1>1, PartNumberAssumption DEF HoldsItsData
<1>3. CASE Crash
  BY <1>3 DEF Crash, ChunkInv, DuplicatesNeedOverlap, ChunksMatchTheirChip, At, Idle
<1>4. ASSUME NEW j \in Job, Request(j) PROVE ChunkInv'
  BY <1>1, <1>2, <1>4, RequestChunks, FewerChunks
<1>5. ASSUME NEW j \in Job, Step(j) PROVE ChunkInv'
  <2>1. \A k \in Job \ {j} : job'[k] = job[k]
    BY <1>1, <1>5, StepEffect DEF MovesOn
  <2>2. CASE Wipe(j)
    <3>1. /\ job[j].pc = "wipe" /\ job[j].chip \in Chip
          /\ vec' = [vec EXCEPT ![job[j].chip] = {}]
          /\ job' = [job EXCEPT ![j] = [job[j] EXCEPT !.pc = "insert"]]
      BY <1>2, <2>2 DEF Wipe, Goto, At
    <3>2. job'[j].pc = "insert" /\ job'[j].chip = job[j].chip
      BY <1>1, <3>1 DEF TypeOK, JobState
    <3>3. vec'[job[j].chip] = {} /\ \A c \in Chip : vec'[c] \subseteq vec[c]
      BY <1>1, <3>1 DEF TypeOK
    <3> QED
      BY <1>2, <2>1, <3>2, <3>3 DEF ChunkInv, DuplicatesNeedOverlap, ChunksMatchTheirChip, At
  <2>3. CASE Insert(j)
    <3> DEFINE b == [by |-> j, doc |-> job[j].cur.doc, text |-> job[j].text]
    <3>1. /\ job[j].pc = "insert" /\ job[j].chip \in Chip
          /\ vec' = [vec EXCEPT ![job[j].chip] = vec[job[j].chip] \cup {b}]
          /\ job'[j].pc = "enrich"
      BY <1>1, <1>2, <2>3, GotoMovesOn DEF Insert, At, PC
    <3>2. /\ vec'[job[j].chip] = vec[job[j].chip] \cup {b}
          /\ \A c \in Chip \ {job[j].chip} : vec'[c] = vec[c]
      BY <1>1, <3>1 DEF TypeOK
    <3>3. b.by = j /\ b.text = job[j].text
      OBVIOUS
    <3> HIDE DEF b
    <3>4. \A c \in Chip : \A x, y \in vec'[c] : x.by = y.by => x = y
      BY <3>1, <3>2, <3>3 DEF ChunkInv, DuplicatesNeedOverlap, At
    <3>5. \A k \in Job : job'[k].pc = "insert" => \A x \in vec'[job'[k].chip] : x.by # k
      BY <1>2, <2>1, <3>1, <3>2, <3>3 DEF ChunkInv, DuplicatesNeedOverlap, At
    <3>6. \A c \in Chip : \A x \in vec'[c] : \E n \in Path : PartNumber[n][x.text] = c
      BY <1>2, <3>1, <3>2, <3>3 DEF ChunkInv, ChunksMatchTheirChip
    <3> QED
      BY <3>4, <3>5, <3>6 DEF ChunkInv, DuplicatesNeedOverlap, ChunksMatchTheirChip, At
  <2>4. CASE job'[j].pc # "insert" /\ \A c \in Chip : vec'[c] \subseteq vec[c]
    BY <1>2, <2>1, <2>4, FewerChunks
  <2> QED
    BY <1>5, <2>2, <2>3, <2>4, StepChunks
<1>6. CASE UNCHANGED vars
  BY <1>6 DEF vars, ChunkInv, DuplicatesNeedOverlap, ChunksMatchTheirChip, At
<1> QED
  BY <1>3, <1>4, <1>5, <1>6 DEF Next

LEMMA ChunkInvAlways == Spec => []ChunkInv
<1>1. Init => ChunkInv
  BY DEF Init, ChunkInv, DuplicatesNeedOverlap, ChunksMatchTheirChip, At, Idle
<1> QED
  BY <1>1, IInvAlways, ChunkInvInductive, PTL DEF Spec

\* Two sets of chunks under one chip always come from two handlers that
\* overlapped: a single handler never duplicates, whatever it retries.
THEOREM DuplicatesComeFromOverlap == Spec => []DuplicatesNeedOverlap
<1>1. ChunkInv => DuplicatesNeedOverlap
  BY DEF ChunkInv
<1> QED
  BY <1>1, ChunkInvAlways, PTL

\* No chunk is ever filed under a chip its own text does not name, even when
\* its file is overwritten and its row relinked under way.
THEOREM ChunksAreFiledCorrectly == Spec => []ChunksMatchTheirChip
<1>1. ChunkInv => ChunksMatchTheirChip
  BY DEF ChunkInv
<1> QED
  BY <1>1, ChunkInvAlways, PTL

-----------------------------------------------------------------------------
(* Rules and errata *)

\* Of a started handler's steps, Enrich alone adds rules and DropRow alone
\* removes a row.
LEMMA StepRules ==
  ASSUME IInv, NEW j \in Job, Step(j), RulesHaveARow
  PROVE  RulesHaveARow'
<1>1. TypeOK /\ Data /\ job[j] \in JobState /\ HoldsItsData(j)
  BY DEF IInv, Data, TypeOK, LocalsAreComplete
<1>2. job[j].pc # "idle" => job[j].cur.doc \in DocId /\ job[j].cur.path \in Path
  BY <1>1 DEF HoldsItsData, Snapshot, At
<1>3. CASE Enrich(j)
  <2>1. rules' = rules \/ (/\ Exists(job[j].cur.doc)
                          /\ \A d \in DocId \ {job[j].cur.doc} : rules'[d] = rules[d])
    BY <1>1, <1>3 DEF Enrich, TypeOK
  <2> QED
    BY <1>3, <2>1 DEF Enrich, RulesHaveARow, Exists
<1>4. CASE DropRow(j)
  BY <1>1, <1>2, <1>4 DEF DropRow, RulesHaveARow, Exists, TypeOK, At
<1>5. CASE UNCHANGED rules /\ \A d \in DocId : Exists(d) => Exists(d)'
  BY <1>5 DEF RulesHaveARow
<1>6. CASE UploadSave(j)
  <2>1. CASE InsertRow(job[j].cur.doc, job[j].text, job[j].cur.path)
    <3>1. /\ \A e \in DocId : e # job[j].cur.doc => rows'[e].status = rows[e].status
          /\ ~Exists(job[j].cur.doc)
      BY <1>1, <1>2, <1>6, <2>1, InsertRowRows DEF UploadSave, At, HoldsItsData, IInv, IdsAreFresh
    <3> QED
      BY <1>5, <1>6, <3>1 DEF UploadSave, Exists
  <2> QED
    BY <1>5, <1>6, <2>1 DEF UploadSave, Exists
<1>7. CASE Mark(j) \/ Finish(j) \/ MarkFailed(j)
  <2>1. /\ UNCHANGED rules
        /\ \/ UNCHANGED rows
           \/ \E s \in Status \ {"absent"} : SetStatus(job[j].cur.doc, s)
        /\ job[j].cur.doc \in DocId
    BY <1>2, <1>7 DEF Mark, Finish, MarkFailed, Status, At
  <2> QED
    BY <1>1, <1>5, <2>1, SetStatusRows DEF Exists
<1>8. CASE Link(j)
  <2>1. UNCHANGED rules /\ \A e \in DocId : rows'[e].status = rows[e].status
    BY <1>1, <1>2, <1>8 DEF Link, At, TypeOK, Row
  <2> QED
    BY <1>5, <2>1 DEF Exists
<1>9. CASE Read(j) \/ Wipe(j) \/ Insert(j) \/ StepFails(j) \/ Unindex(j) \/ Unlink(j)
  BY <1>5, <1>9 DEF Read, Wipe, Insert, StepFails, Unindex, Unlink, Exists
<1> QED
  BY <1>3, <1>4, <1>6, <1>7, <1>8, <1>9 DEF Step, Work

\* Rules and errata never outlive the document they cite: the foreign key
\* holds across the await between the SELECT and the INSERT.
THEOREM RulesCiteDocuments == Spec => []RulesHaveARow
<1>1. Init => RulesHaveARow
  BY DEF Init, RulesHaveARow
<1>2. IInv /\ RulesHaveARow /\ [Next]_vars => RulesHaveARow'
  <2> SUFFICES ASSUME IInv, RulesHaveARow, [Next]_vars PROVE RulesHaveARow'
    OBVIOUS
  <2>1. ASSUME NEW j \in Job, Request(j) PROVE RulesHaveARow'
    BY <2>1 DEF Request, UploadWrite, IngestSingle, IngestAsync, StartIngest, IngestAll,
                DeleteStart, RulesHaveARow, Exists
  <2>2. ASSUME NEW j \in Job, Step(j) PROVE RulesHaveARow'
    BY <2>2, StepRules
  <2>3. CASE Crash \/ UNCHANGED vars
    BY <2>3 DEF Crash, vars, RulesHaveARow, Exists
  <2> QED
    BY <2>1, <2>2, <2>3 DEF Next
<1> QED
  BY <1>1, <1>2, IInvAlways, PTL DEF Spec

-----------------------------------------------------------------------------
(* The outcome of an ingestion, when the process lives and can mark rows *)

OwnerPC == {"read", "link", "wipe", "insert", "enrich", "finish", "fail"}

\* j has marked the row of d and will write its outcome.
Owns(j, d) == job[j].cur.doc = d /\ job[j].pc \in OwnerPC

\* A step keeps its own row owned as long as the row says "processing".
KeepsOwned(j) ==
  \A d \in DocId : rows'[d].status = "processing" =>
    \/ Owns(j, d)'
    \/ rows[d].status = "processing" /\ ~Owns(j, d)

LEMMA StepKeepsOwned ==
  ASSUME IInv, "mark" \notin Faults, NEW j \in Job, Step(j)
  PROVE  KeepsOwned(j)
<1>1. TypeOK /\ Data /\ IdsAreFresh /\ job[j] \in JobState /\ HoldsItsData(j)
  BY DEF IInv, Data, TypeOK, LocalsAreComplete
<1>2. job[j].pc # "idle" => job[j].cur.doc \in DocId
  BY <1>1 DEF HoldsItsData, Snapshot, At
\* A handler that stays in the pipeline keeps what it owns.
<1>3. ASSUME job'[j].pc \in OwnerPC, job'[j].cur = job[j].cur,
             \A d \in DocId : d # job[j].cur.doc /\ rows'[d].status = "processing"
                             => rows[d].status = "processing"
      PROVE  KeepsOwned(j)
  BY <1>3 DEF KeepsOwned, Owns
\* A handler that owns nothing may do anything but mark a row.
<1>4. ASSUME job[j].pc \notin OwnerPC,
             \A d \in DocId : rows'[d].status = "processing" => rows[d].status = "processing"
      PROVE  KeepsOwned(j)
  BY <1>4 DEF KeepsOwned, Owns
\* A handler that leaves the pipeline has written an outcome.
<1>5. ASSUME job[j].pc # "idle", NEW s \in {"completed", "failed"},
             SetStatus(job[j].cur.doc, s)
      PROVE  KeepsOwned(j)
  <2>1. \A d \in DocId : rows'[d].status =
          IF d = job[j].cur.doc /\ Exists(job[j].cur.doc) THEN s ELSE rows[d].status
    BY <1>1, <1>2, <1>5, SetStatusRows DEF Status
  <2> QED
    BY <1>5, <2>1 DEF KeepsOwned, Owns, Exists
<1>6. CASE UploadSave(j)
  <2>1. job[j].pc = "save"
    BY <1>6 DEF UploadSave, At
  <2>2. \A d \in DocId : rows'[d].status = "processing" => rows[d].status = "processing"
    <3>1. CASE InsertRow(job[j].cur.doc, job[j].text, job[j].cur.path)
      <4>1. /\ \A e \in DocId : e # job[j].cur.doc => rows'[e].status = rows[e].status
            /\ rows'[job[j].cur.doc].status \in {"absent", "uploaded"}
        BY <1>1, <1>2, <2>1, <3>1, InsertRowRows DEF At, HoldsItsData, IdsAreFresh, Snapshot
      <4> QED
        BY <4>1
    <3> QED
      BY <1>6, <3>1 DEF UploadSave
  <2> QED
    BY <1>4, <2>1, <2>2 DEF OwnerPC
<1>7. CASE Mark(j)
  <2>1. SetStatus(job[j].cur.doc, "processing") /\ Goto(j, "read") /\ At(j, "mark")
    BY <1>7 DEF Mark
  <2>2. job'[j].pc = "read" /\ job'[j].cur = job[j].cur
    BY <1>1, <1>7, <2>1, GotoMovesOn DEF Mark, At, PC
  <2>3. \A d \in DocId : d # job[j].cur.doc => rows'[d].status = rows[d].status
    BY <1>1, <1>2, <2>1, SetStatusRows DEF Status, At
  <2> QED
    BY <1>3, <2>2, <2>3 DEF OwnerPC
<1>8. CASE Read(j)
  <2>1. \/ Goto(j, "fail")
        \/ job' = [job EXCEPT ![j] = [job[j] EXCEPT !.pc = "link", !.text = files[job[j].cur.path]]]
    BY <1>8 DEF Read
  <2>2. job'[j].pc \in OwnerPC /\ job'[j].cur = job[j].cur
    BY <1>1, <1>8, <2>1, GotoMovesOn DEF Read, At, PC, OwnerPC, TypeOK, JobState
  <2> QED
    BY <1>3, <1>8, <2>2 DEF Read
<1>9. CASE Link(j)
  <2>1. job' = [job EXCEPT ![j] = [job[j] EXCEPT !.pc = "wipe",
                                     !.chip = PartNumber[job[j].cur.name][job[j].text]]]
    BY <1>9 DEF Link
  <2>2. job'[j].pc \in OwnerPC /\ job'[j].cur = job[j].cur
    BY <1>1, <2>1 DEF OwnerPC, TypeOK, JobState
  <2>3. \A e \in DocId : e # job[j].cur.doc => rows'[e].status = rows[e].status
    BY <1>1, <1>2, <1>9 DEF Link, At, TypeOK
  <2> QED
    BY <1>3, <2>2, <2>3
<1>10. CASE Wipe(j)
  BY <1>1, <1>3, <1>10, GotoMovesOn DEF Wipe, At, PC, OwnerPC
<1>11. CASE Insert(j)
  BY <1>1, <1>3, <1>11, GotoMovesOn DEF Insert, At, PC, OwnerPC
<1>12. CASE Enrich(j)
  BY <1>1, <1>3, <1>12, GotoMovesOn DEF Enrich, At, PC, OwnerPC
<1>13. CASE Finish(j)
  BY <1>5, <1>13 DEF Finish, At
<1>14. CASE StepFails(j)
  BY <1>1, <1>3, <1>14, GotoMovesOn DEF StepFails, PC, OwnerPC
<1>15. CASE MarkFailed(j)
  BY <1>5, <1>15 DEF MarkFailed, At
<1>16. CASE Unindex(j) \/ Unlink(j)
  BY <1>4, <1>16 DEF Unindex, Unlink, At, OwnerPC
<1>17. CASE DropRow(j)
  <2>1. \A d \in DocId : rows'[d].status = "processing" => rows[d].status = "processing"
    BY <1>1, <1>2, <1>17 DEF DropRow, At, NoRow, TypeOK
  <2> QED
    BY <1>4, <1>17, <2>1 DEF DropRow, At, OwnerPC
<1> QED
  BY <1>6, <1>7, <1>8, <1>9, <1>10, <1>11, <1>12, <1>13, <1>14, <1>15, <1>16, <1>17
     DEF Step, Work

\* While the process lives and its own UPDATEs succeed, a document that says
\* "processing" has a handler that will write its outcome, however many
\* handlers ingest it at once and however they fail.
THEOREM ProcessingHasAnOwner ==
  ASSUME "crash" \notin Faults, "mark" \notin Faults
  PROVE  Spec => []ProcessingIsOwned
<1>1. ProcessingIsOwned <=>
        \A d \in DocId : rows[d].status = "processing" => \E j \in Job : Owns(j, d)
  BY DEF ProcessingIsOwned, Owns, OwnerPC
<1>2. Init => ProcessingIsOwned
  BY DEF Init, ProcessingIsOwned, NoRow
<1>3. IInv /\ ProcessingIsOwned /\ [Next]_vars => ProcessingIsOwned'
  <2> SUFFICES ASSUME IInv, ProcessingIsOwned, [Next]_vars,
                      NEW d \in DocId, rows'[d].status = "processing"
               PROVE  \E j \in Job : Owns(j, d)'
    BY DEF ProcessingIsOwned, Owns, OwnerPC
  <2>1. ASSUME NEW j \in Job, Request(j) PROVE \E k \in Job : Owns(k, d)'
    <3>1. UNCHANGED rows /\ job[j].pc = "idle"
      BY <2>1 DEF Request, UploadWrite, IngestSingle, IngestAsync, StartIngest, IngestAll,
                  DeleteStart, At
    <3>2. PICK k \in Job : Owns(k, d)
      BY <1>1, <3>1
    <3>3. k # j
      BY <3>1, <3>2 DEF Owns, OwnerPC
    <3> QED
      BY <2>1, <3>2, <3>3, RequestChunks DEF IInv, Data, Owns
  <2>2. ASSUME NEW j \in Job, Step(j) PROVE \E k \in Job : Owns(k, d)'
    <3>1. KeepsOwned(j) /\ \A k \in Job \ {j} : job'[k] = job[k]
      BY <2>2, StepKeepsOwned, StepEffect DEF IInv, MovesOn
    <3>2. CASE Owns(j, d)'
      BY <3>2
    <3>3. CASE rows[d].status = "processing" /\ ~Owns(j, d)
      <4>1. PICK k \in Job : Owns(k, d)
        BY <1>1, <3>3
      <4> QED
        BY <3>1, <3>3, <4>1 DEF Owns
    <3> QED
      BY <3>1, <3>2, <3>3 DEF KeepsOwned
  <2>3. CASE UNCHANGED vars
    BY <1>1, <2>3 DEF vars, Owns
  <2> QED
    BY <2>1, <2>2, <2>3 DEF Next, Crash
<1> QED
  BY <1>2, <1>3, IInvAlways, PTL DEF Spec
-----------------------------------------------------------------------------
(* Rows, files and chunks agree, in the settings that promise it *)

Quiet == setting \in {"serial", "reingest"}

HashesAreUnique ==
  \A d, e \in DocId :
    Exists(d) /\ Exists(e) /\ rows[d].hash = rows[e].hash => d = e

\* A row's path and name are among those its content is uploaded under, and it
\* is linked, if at all, to the chip its own name gives.
RowsFollowTheirContent ==
  \A d \in DocId : Exists(d) =>
    /\ rows[d].path \in UploadPaths[rows[d].hash]
    /\ rows[d].name \in UploadPaths[rows[d].hash]
    /\ rows[d].chip \in {None, PartNumber[rows[d].name][rows[d].hash]}

FilesHoldTheirContent == \A p \in Path : files[p] # None => p \in UploadPaths[files[p]]

ChunksFollowRows ==
  \A c \in Chip : \A b \in vec[c] :
    Exists(b.doc) /\ rows[b.doc].chip = c /\ b.text = rows[b.doc].hash

StoresFollow ==
  /\ HashesAreUnique /\ RowsFollowTheirContent /\ FilesHoldTheirContent
  /\ ChunksFollowRows /\ \A d \in DocId : rules[d] = 0

\* What a handler selected is still so, and the file is still there.
FollowsRow(s) ==
  /\ Exists(s.doc) /\ s.name = rows[s.doc].name
  /\ s.path \in UploadPaths[rows[s.doc].hash]
  /\ files[s.path] = rows[s.doc].hash

Ingesting == {"mark", "read", "link", "wipe", "insert", "enrich", "finish", "fail"}
Deleting == {"unindex", "unlink", "drop"}
Unindexed == {"read", "link", "wipe", "insert"}

\* The chunks of d are in the index, or about to be.
Indexed(d) == Searchable(d) \/ Busy(d, {"insert"})

HasNoChunk(d) == \A c \in Chip : \A b \in vec[c] : b.doc # d

UploadFollows(j) ==
  /\ job[j].cur.path = job[j].cur.name
  /\ job[j].cur.path \in UploadPaths[job[j].text]
  /\ files[job[j].cur.path] = job[j].text

IngestFollows(j) ==
  LET d == job[j].cur.doc
  IN  /\ FollowsRow(job[j].cur) /\ \A s \in job[j].rest : FollowsRow(s)
      /\ job[j].pc \in {"link", "wipe", "insert"} => job[j].text = rows[d].hash
      /\ job[j].pc \in {"wipe", "insert"} => job[j].chip = rows[d].chip
      /\ job[j].pc \in {"enrich", "finish"} => Indexed(d)

DeleteFollows(j) ==
  LET d == job[j].cur.doc
  IN  /\ Exists(d) /\ job[j].cur = Snap(d)
      /\ job[j].pc = "unindex" => job[j].chip = rows[d].chip
      /\ job[j].pc # "unindex" => HasNoChunk(d)

JobFollows(j) ==
  /\ job[j].pc = "save" => UploadFollows(j)
  /\ job[j].pc \in Ingesting => IngestFollows(j)
  /\ job[j].pc \in Deleting => DeleteFollows(j)

\* One handler at a time: it has taken "completed" off the row it ingests.
OneAtATime ==
  /\ \A j, k \in Job : job[j].pc # "idle" /\ job[k].pc # "idle" => j = k
  /\ \A j \in Job : job[j].pc \in Unindexed =>
       rows[job[j].cur.doc].status # "completed"

HandlersFollow ==
  /\ \A j \in Job : JobFollows(j)
  /\ setting = "serial" => OneAtATime
  /\ setting = "reingest" => \A j \in Job : job[j].pc \notin Deleting

Agree == StoresFollow /\ FileIsTheContent /\ CompletedIsSearchable /\ HandlersFollow

LEMMA QuietAssumption ==
  ASSUME Quiet, setting \in Settings
  PROVE  NothingIsShared /\ DeletesSucceed
BY SettingsAssumption DEF Quiet

\* A file name belongs to one content.
LEMMA PathsTellContents ==
  ASSUME NothingIsShared, NEW g \in Content, NEW h \in Content,
         NEW p, p \in UploadPaths[g], p \in UploadPaths[h]
  PROVE  g = h
BY DEF NothingIsShared

\* So does a chip, and with it a document.
LEMMA ChipsTellDocuments ==
  ASSUME NothingIsShared, Data, StoresFollow, NEW d \in DocId, NEW e \in DocId,
         Exists(d), Exists(e), rows[d].chip # None, rows[d].chip = rows[e].chip
  PROVE  d = e
<1>1. /\ rows[d].hash \in Content /\ rows[e].hash \in Content
      /\ rows[d].name \in UploadPaths[rows[d].hash]
      /\ rows[e].name \in UploadPaths[rows[e].hash]
      /\ rows[d].chip = PartNumber[rows[d].name][rows[d].hash]
      /\ rows[e].chip = PartNumber[rows[e].name][rows[e].hash]
  BY DEF Data, RowsAreComplete, StoresFollow, RowsFollowTheirContent
<1>2. rows[d].hash = rows[e].hash
  BY <1>1 DEF NothingIsShared
<1> QED
  BY <1>2 DEF StoresFollow, HashesAreUnique

\* A step that takes nothing away: rows keep what identifies them, files stay.
Kept ==
  /\ \A d \in DocId : Exists(d) =>
       /\ Exists(d)' /\ rows'[d].hash = rows[d].hash /\ rows'[d].name = rows[d].name
       /\ rows[d].chip # None => rows'[d].chip = rows[d].chip
  /\ \A p \in Path : files[p] # None => files'[p] = files[p]

LEMMA FollowsRowKept ==
  ASSUME Data, Kept, NEW s \in Snapshot, FollowsRow(s)
  PROVE  FollowsRow(s)'
<1>1. s.doc \in DocId /\ s.path \in Path /\ Exists(s.doc) /\ rows[s.doc].hash \in Content
  BY DEF Snapshot, FollowsRow, Data, RowsAreComplete
<1>2. files[s.path] # None
  BY <1>1, NoneAssumption DEF FollowsRow
<1> QED
  BY <1>1, <1>2 DEF Kept, FollowsRow

\* A handler that waits while another takes nothing away.
LEMMA OthersFollow ==
  ASSUME IInv, Kept, NEW k \in Job, job'[k] = job[k], JobFollows(k),
         job[k].pc \notin Deleting,
         \A d \in DocId : Exists(d) /\ Indexed(d) /\ job[k].pc # "idle" => Indexed(d)'
  PROVE  JobFollows(k)'
<1>1. Data /\ IngestedIsLinked /\ HoldsItsData(k) /\ job[k] \in JobState
  BY DEF IInv, Data, TypeOK, LocalsAreComplete, Linked
<1>2. CASE job[k].pc = "save"
  <2>1. job[k].text \in Content /\ job[k].cur.path \in Path
    BY <1>1, <1>2 DEF HoldsItsData, At, Snapshot
  <2>2. files'[job[k].cur.path] = job[k].text
    BY <1>2, <2>1, NoneAssumption DEF JobFollows, UploadFollows, Kept
  <2> QED
    BY <1>2, <2>2 DEF JobFollows, UploadFollows, Ingesting, Deleting
<1>3. CASE job[k].pc \in Ingesting
  <2> DEFINE d == job[k].cur.doc
  <2>1. IngestFollows(k) /\ job[k].cur \in Snapshot /\ job[k].rest \subseteq Snapshot
        /\ d \in DocId
    BY <1>1, <1>3 DEF JobFollows, HoldsItsData, At, JobState, Ingesting, Snapshot
  <2>2. FollowsRow(job[k].cur)' /\ \A s \in job[k].rest : FollowsRow(s)'
    <3>1. /\ FollowsRow(job[k].cur)
          /\ \A s \in job[k].rest : s \in Snapshot /\ FollowsRow(s)
      BY <2>1 DEF IngestFollows
    <3>2. ASSUME NEW s \in Snapshot, FollowsRow(s) PROVE FollowsRow(s)'
      BY <1>1, <3>2, FollowsRowKept
    <3>3. \A s \in Snapshot : FollowsRow(s) => FollowsRow(s)'
      BY <3>2
    <3> QED
      BY <2>1, <3>1, <3>3 DEF FollowsRow
  <2>3. Exists(d)
    BY <2>1 DEF IngestFollows, FollowsRow
  <2>4. job[k].pc \in {"wipe", "insert"} => rows[d].chip # None
    BY <1>1, <2>3 DEF IngestedIsLinked
  <2>5. /\ job[k].pc \in {"link", "wipe", "insert"} => job[k].text = rows'[d].hash
        /\ job[k].pc \in {"wipe", "insert"} => job[k].chip = rows'[d].chip
    BY <2>1, <2>3, <2>4 DEF IngestFollows, Kept
  <2>6. job[k].pc \in {"enrich", "finish"} => Indexed(d)'
    BY <2>1, <2>3 DEF IngestFollows
  <2>7. IngestFollows(k)'
    BY <2>2, <2>5, <2>6 DEF IngestFollows, FollowsRow, Indexed, Searchable, Busy
  <2> QED
    BY <1>3, <2>7 DEF JobFollows, Ingesting, Deleting
<1>4. CASE job[k].pc = "idle"
  BY <1>4 DEF JobFollows, Ingesting, Deleting
<1> QED
  BY <1>1, <1>2, <1>3, <1>4 DEF JobState, PC, Ingesting, Deleting

\* Indexed documents stay so while chunks are only added, unless the handler
\* that moves was the one about to insert theirs.
LEMMA IndexedKept ==
  ASSUME Data, Kept, NEW j \in Job, \A k \in Job \ {j} : job'[k] = job[k],
         \A c \in Chip : vec[c] \subseteq vec'[c],
         NEW d \in DocId, Exists(d), Indexed(d),
         job[j].pc = "insert" => job[j].cur.doc # d
  PROVE  Indexed(d)'
<1>1. CASE Searchable(d)
  <2>1. rows[d].chip \in Chip /\ rows[d].chip # None
    BY <1>1 DEF Searchable, Data, TypeOK, Row
  <2>2. rows'[d].chip = rows[d].chip /\ rows'[d].hash = rows[d].hash
    BY <2>1 DEF Kept
  <2>3. \A b \in vec[rows[d].chip] : b \in vec'[rows[d].chip]
    BY <2>1
  <2>4. Searchable(d)'
    BY <1>1, <2>1, <2>2, <2>3 DEF Searchable
  <2> QED
    BY <2>4 DEF Indexed
<1>2. CASE Busy(d, {"insert"})
  <2>1. PICK k \in Job : job[k].cur.doc = d /\ job[k].pc = "insert"
    BY <1>2 DEF Busy
  <2>2. job'[k] = job[k]
    BY <2>1
  <2>3. Busy(d, {"insert"})'
    BY <2>1, <2>2 DEF Busy
  <2> QED
    BY <2>3 DEF Indexed
<1> QED
  BY <1>1, <1>2 DEF Indexed

\* What a step that takes nothing away owes: its own handler, the rows it
\* completes and the documents it leaves out of the index.
LEMMA KeepsAgreement ==
  ASSUME IInv, Agree, Quiet, UNCHANGED setting, NEW j \in Job,
         \A k \in Job \ {j} : job'[k] = job[k],
         job[j].pc \notin Deleting,
         setting = "serial" => \A k \in Job \ {j} : job[k].pc = "idle",
         Kept, StoresFollow', FileIsTheContent', JobFollows(j)',
         \A d \in DocId : Exists(d) /\ Indexed(d) =>
           Indexed(d)' \/ (setting = "serial" /\ rows'[d].status # "completed"),
         \A d \in DocId : rows'[d].status = "completed" =>
           rows[d].status = "completed" \/ (Exists(d) /\ Indexed(d)),
         setting = "serial" /\ job'[j].pc \in Unindexed =>
           rows'[job'[j].cur.doc].status # "completed",
         setting = "reingest" => job'[j].pc \notin Deleting
  PROVE  Agree'
<1>1. \A k \in Job : JobFollows(k) /\ (k # j => job[k].pc \notin Deleting)
  BY DEF Agree, HandlersFollow, Quiet, Deleting
<1>2. ASSUME NEW k \in Job, k # j PROVE JobFollows(k)'
  <2>1. job'[k] = job[k]
    BY <1>2
  <2>2. CASE job[k].pc = "idle"
    BY <2>1, <2>2 DEF JobFollows, Ingesting, Deleting
  <2>3. CASE job[k].pc # "idle"
    <3>1. setting # "serial"
      BY <1>2, <2>3
    <3> QED
      BY <1>1, <1>2, <2>1, <3>1, OthersFollow
  <2> QED
    BY <2>2, <2>3
<1>3. CompletedIsSearchable'
  <2> SUFFICES ASSUME NEW d \in DocId, rows'[d].status = "completed"
               PROVE  Indexed(d)'
    BY DEF CompletedIsSearchable, Indexed, Busy
  <2>1. CASE rows[d].status = "completed"
    <3>1. Searchable(d) \/ Busy(d, {"insert", "unlink", "drop"})
      BY <2>1 DEF Agree, CompletedIsSearchable
    <3>2. ~Busy(d, {"unlink", "drop"})
      BY <1>1 DEF Busy, Deleting
    <3>3. Indexed(d) /\ Exists(d)
      BY <2>1, <3>1, <3>2 DEF Indexed, Busy, Exists
    <3> QED
      BY <3>3
  <2>2. CASE Exists(d) /\ Indexed(d)
    BY <2>2
  <2> QED
    BY <2>1, <2>2
<1>4. HandlersFollow'
  <2>1. \A k \in Job : JobFollows(k)'
    BY <1>2
  <2>2. (setting = "serial" => OneAtATime)'
    BY DEF OneAtATime, Unindexed
  <2>3. (setting = "reingest" => \A k \in Job : job[k].pc \notin Deleting)'
    BY DEF Agree, HandlersFollow
  <2> QED
    BY <2>1, <2>2, <2>3 DEF HandlersFollow
<1> QED
  BY <1>3, <1>4 DEF Agree

\* Rows keep what identifies them; a handler may link one to its own chip.
RowsKept ==
  \A d \in DocId :
    /\ Exists(d)' <=> Exists(d)
    /\ rows'[d].hash = rows[d].hash /\ rows'[d].path = rows[d].path
    /\ rows'[d].name = rows[d].name
    /\ Exists(d) => rows'[d].chip \in
         {rows[d].chip, PartNumber[rows[d].name][rows[d].hash]}

\* The stores follow when files and rules are left alone and a new chunk is
\* that of its document.
LEMMA StoresKept ==
  ASSUME IInv, StoresFollow, FileIsTheContent, RowsKept, UNCHANGED <<files, rules>>,
         NEW j \in Job, \A k \in Job \ {j} : job'[k] = job[k], job[j].pc # "drop",
         \A c \in Chip : \A b \in vec'[c] :
           b \in vec[c] \/ (/\ b.doc \in DocId /\ Exists(b.doc) /\ rows'[b.doc].chip = c
                            /\ b.text = rows[b.doc].hash)
  PROVE  Kept /\ StoresFollow' /\ FileIsTheContent'
<1>1. Data
  BY DEF IInv
<1>2. \A d \in DocId : Exists(d) /\ rows[d].chip # None => rows'[d].chip = rows[d].chip
  BY DEF StoresFollow, RowsFollowTheirContent, RowsKept
<1>3. Kept
  BY <1>2 DEF Kept, RowsKept
<1>4. HashesAreUnique' /\ RowsFollowTheirContent'
  BY DEF StoresFollow, HashesAreUnique, RowsFollowTheirContent, RowsKept
<1>5. ChunksFollowRows'
  <2> SUFFICES ASSUME NEW c \in Chip, NEW b \in vec'[c]
               PROVE  Exists(b.doc)' /\ rows'[b.doc].chip = c /\ b.text = rows'[b.doc].hash
    BY DEF ChunksFollowRows, Exists
  <2>1. CASE b \in vec[c]
    <3>1. b.doc \in DocId
      BY <1>1, <2>1 DEF Data, TypeOK, Batch
    <3>2. Exists(b.doc) /\ rows[b.doc].chip = c /\ b.text = rows[b.doc].hash
      BY <2>1 DEF StoresFollow, ChunksFollowRows
    <3>3. c # None
      BY NoneAssumption
    <3> QED
      BY <1>2, <3>1, <3>2, <3>3 DEF RowsKept
  <2>2. CASE /\ b.doc \in DocId /\ Exists(b.doc) /\ rows'[b.doc].chip = c
             /\ b.text = rows[b.doc].hash
    BY <2>2 DEF RowsKept
  <2> QED
    BY <2>1, <2>2
<1>6. FilesHoldTheirContent' /\ \A d \in DocId : rules'[d] = 0
  BY DEF StoresFollow, FilesHoldTheirContent
<1>7. FileIsTheContent'
  <2> SUFFICES ASSUME NEW d \in DocId, Exists(d)
               PROVE  files[rows[d].path] = rows[d].hash \/ Busy(d, {"drop"})'
    BY DEF FileIsTheContent, RowsKept
  <2>1. CASE Busy(d, {"drop"})
    BY <2>1 DEF Busy
  <2> QED
    BY <2>1 DEF FileIsTheContent
<1> QED
  BY <1>3, <1>4, <1>5, <1>6, <1>7 DEF StoresFollow

LEMMA SameRowsKept == UNCHANGED rows => RowsKept
BY DEF RowsKept, Exists

LEMMA SetStatusRowsKept ==
  ASSUME TypeOK, NEW d \in DocId, NEW s \in Status \ {"absent"}, SetStatus(d, s)
  PROVE  RowsKept
<1>1. /\ \A e \in DocId :
           /\ rows'[e].hash = rows[e].hash /\ rows'[e].path = rows[e].path
           /\ rows'[e].name = rows[e].name /\ rows'[e].chip = rows[e].chip
           /\ rows'[e].status = IF e = d /\ Exists(d) THEN s ELSE rows[e].status
  BY SetStatusRows
<1> QED
  BY <1>1 DEF RowsKept, Exists

\* A step that touches neither files nor chunks.
LEMMA QuietStep ==
  ASSUME IInv, Agree, Quiet, UNCHANGED <<setting, files, vec, rules>>, NEW j \in Job,
         RowsKept, \A k \in Job \ {j} : job'[k] = job[k],
         job[j].pc \notin Deleting,
         setting = "serial" => \A k \in Job \ {j} : job[k].pc = "idle",
         job[j].pc = "insert" => setting = "serial" /\ rows' = rows,
         \A d \in DocId : rows'[d].status = "completed" =>
           \/ rows[d].status = "completed"
           \/ job[j].pc = "finish" /\ d = job[j].cur.doc /\ Exists(d),
         setting = "serial" /\ job'[j].pc \in Unindexed =>
           rows'[job'[j].cur.doc].status # "completed",
         setting = "reingest" => job'[j].pc \notin Deleting,
         Kept /\ StoresFollow' /\ FileIsTheContent' => JobFollows(j)'
  PROVE  Agree'
<1>1. Data /\ HoldsItsData(j) /\ JobFollows(j)
  BY DEF IInv, Data, LocalsAreComplete, Agree, HandlersFollow
<1>2. Kept /\ StoresFollow' /\ FileIsTheContent'
  BY StoresKept DEF Agree, Deleting
<1>3. ASSUME NEW d \in DocId, Exists(d), Indexed(d)
      PROVE  Indexed(d)' \/ (setting = "serial" /\ rows'[d].status # "completed")
  <2>1. CASE job[j].pc = "insert" /\ job[j].cur.doc = d
    BY <2>1 DEF Agree, HandlersFollow, OneAtATime, Unindexed
  <2> QED
    BY <1>1, <1>2, <1>3, <2>1, IndexedKept
<1>4. \A d \in DocId : rows'[d].status = "completed" =>
        rows[d].status = "completed" \/ (Exists(d) /\ Indexed(d))
  BY <1>1 DEF JobFollows, IngestFollows, Ingesting
<1> QED
  BY <1>2, <1>3, <1>4, KeepsAgreement

\* A handler can rely on the row it selects, unless that is being dropped.
LEMMA SnapFollows ==
  ASSUME Data, Agree, NEW d \in DocId, Exists(d), ~Busy(d, {"drop"})
  PROVE  FollowsRow(Snap(d))
<1>1. /\ files[rows[d].path] = rows[d].hash
      /\ rows[d].path \in UploadPaths[rows[d].hash]
  BY DEF Agree, FileIsTheContent, StoresFollow, RowsFollowTheirContent
<1> QED
  BY <1>1 DEF FollowsRow, Snap

\* When a handler starts: alone, or where nothing is deleted.
LEMMA NothingIsDropped ==
  ASSUME Agree, Quiet, setting = "serial" => \A k \in Job : job[k].pc = "idle"
  PROVE  \A d : ~Busy(d, {"drop"})
BY DEF Agree, HandlersFollow, Quiet, Busy, Deleting

LEMMA UploadWriteAgrees ==
  ASSUME IInv, Agree, Quiet, NothingIsShared, UNCHANGED setting, NEW j \in Job,
         setting = "serial" => \A k \in Job : job[k].pc = "idle",
         NEW h \in Content, NEW p \in Path, UploadWrite(j, h, p)
  PROVE  Agree'
<1> DEFINE new == [Idle EXCEPT !.pc = "save", !.text = h,
                               !.cur = [doc |-> nextId, path |-> p, name |-> p]]
<1>1. Data /\ TypeOK
  BY DEF IInv, Data
<1>2. /\ job[j].pc = "idle" /\ p \in UploadPaths[h] /\ job' = [job EXCEPT ![j] = new]
      /\ files' = [files EXCEPT ![p] = h] /\ UNCHANGED <<rows, vec, rules>>
  BY DEF UploadWrite, At
<1>3. /\ job'[j] = new /\ new.pc = "save" /\ new.text = h
      /\ new.cur.path = p /\ new.cur.name = p
      /\ \A k \in Job \ {j} : job'[k] = job[k]
  BY <1>1, <1>2 DEF TypeOK, Idle
<1> HIDE DEF new
<1>4. files' \in [Path -> Content \cup {None}] /\ files'[p] = h
      /\ \A q \in Path \ {p} : files'[q] = files[q]
  BY <1>1, <1>2 DEF TypeOK
<1>5. \A q \in Path : files[q] # None => files'[q] = files[q]
  <2> SUFFICES ASSUME files[p] # None PROVE files[p] = h
    BY <1>4
  <2>1. files[p] \in Content /\ p \in UploadPaths[files[p]]
    BY <1>1 DEF TypeOK, Agree, StoresFollow, FilesHoldTheirContent
  <2> QED
    BY <1>2, <2>1, PathsTellContents
<1>6. Kept
  BY <1>2, <1>5 DEF Kept, Exists
<1>7. StoresFollow'
  BY <1>2, <1>4 DEF Agree, StoresFollow, HashesAreUnique, RowsFollowTheirContent,
    FilesHoldTheirContent, ChunksFollowRows, Exists
<1>8. FileIsTheContent'
  <2> SUFFICES ASSUME NEW d \in DocId, Exists(d) PROVE files'[rows[d].path] = rows[d].hash
    BY <1>2 DEF FileIsTheContent, Exists
  <2>1. files[rows[d].path] = rows[d].hash /\ rows[d].path \in Path /\ rows[d].hash \in Content
    BY <1>1, NothingIsDropped DEF Data, RowsAreComplete, Agree, FileIsTheContent
  <2> QED
    BY <1>5, <2>1, NoneAssumption
<1>9. JobFollows(j)'
  BY <1>2, <1>3, <1>4 DEF JobFollows, UploadFollows, Ingesting, Deleting
<1>10. \A c \in Chip : vec[c] \subseteq vec'[c]
  BY <1>2
<1>11. \A d \in DocId : Exists(d) /\ Indexed(d) => Indexed(d)'
  BY <1>1, <1>2, <1>3, <1>6, <1>10, IndexedKept
<1>12. job[j].pc \notin Deleting /\ job'[j].pc \notin Deleting /\ job'[j].pc \notin Unindexed
  BY <1>2, <1>3 DEF Deleting, Unindexed
<1>13. \A d \in DocId : rows'[d].status = "completed" => rows[d].status = "completed"
  BY <1>2
<1> QED
  BY <1>3, <1>6, <1>7, <1>8, <1>9, <1>11, <1>12, <1>13, KeepsAgreement

\* A handler that starts with rows it has just selected.
LEMMA StartAgrees ==
  ASSUME IInv, Agree, Quiet, UNCHANGED <<setting, rows, files, vec, rules>>, NEW j \in Job,
         setting = "serial" => \A k \in Job : job[k].pc = "idle",
         job[j].pc = "idle", \A k \in Job \ {j} : job'[k] = job[k],
         \/ /\ job'[j].pc = "mark"
            /\ \A s \in {job'[j].cur} \cup job'[j].rest :
                 \E d \in DocId : Exists(d) /\ s = Snap(d)
         \/ /\ setting # "reingest" /\ job'[j].pc = "unindex"
            /\ \E d \in DocId : /\ Exists(d) /\ job'[j].cur = Snap(d)
                                /\ job'[j].chip = rows[d].chip
  PROVE  Agree'
<1>1. Data
  BY DEF IInv
<1>2. \A d \in DocId : Exists(d) => FollowsRow(Snap(d))
  BY <1>1, NothingIsDropped, SnapFollows
<1>3. JobFollows(j)'
  <2>1. CASE /\ job'[j].pc = "mark"
             /\ \A s \in {job'[j].cur} \cup job'[j].rest :
                  \E d \in DocId : Exists(d) /\ s = Snap(d)
    <3>1. FollowsRow(job'[j].cur) /\ \A s \in job'[j].rest : FollowsRow(s)
      BY <1>2, <2>1
    <3>2. IngestFollows(j)'
      BY <2>1, <3>1 DEF IngestFollows, FollowsRow, Exists
    <3> QED
      BY <2>1, <3>2 DEF JobFollows, Deleting
  <2>2. CASE /\ job'[j].pc = "unindex"
             /\ \E d \in DocId : /\ Exists(d) /\ job'[j].cur = Snap(d)
                                 /\ job'[j].chip = rows[d].chip
    <3>1. PICK d \in DocId : /\ Exists(d) /\ job'[j].cur = Snap(d)
                             /\ job'[j].chip = rows[d].chip
      BY <2>2
    <3>2. job'[j].cur.doc = d
      BY <3>1 DEF Snap
    <3>3. DeleteFollows(j)'
      BY <2>2, <3>1, <3>2 DEF DeleteFollows, Snap, Exists
    <3> QED
      BY <2>2, <3>3 DEF JobFollows, Ingesting
  <2> QED
    BY <2>1, <2>2
<1>4. job[j].pc \notin Deleting /\ job[j].pc # "insert" /\ job'[j].pc \notin Unindexed
      /\ (setting = "reingest" => job'[j].pc \notin Deleting)
  BY DEF Deleting, Unindexed
<1>5. RowsKept
  BY SameRowsKept
<1> QED
  BY <1>3, <1>4, <1>5, QuietStep

LEMMA RequestAgrees ==
  ASSUME IInv, Agree, Quiet, setting \in Settings, NEW j \in Job, ScenarioRequest(j)
  PROVE  Agree'
<1>1. Data /\ TypeOK /\ UNCHANGED setting /\ NothingIsShared
  BY QuietAssumption DEF IInv, Data, ScenarioRequest
<1>2. setting = "serial" => \A k \in Job : job[k].pc = "idle"
  BY DEF ScenarioRequest, At
<1>3. ASSUME NEW h \in Content, NEW p \in Path, UploadWrite(j, h, p) PROVE Agree'
  BY <1>1, <1>2, <1>3, UploadWriteAgrees
<1>4. ASSUME NEW d \in DocId, StartIngest(j, d) PROVE Agree'
  <2>1. /\ job[j].pc = "idle" /\ Exists(d) /\ UNCHANGED <<rows, files, vec, rules>>
        /\ job'[j].pc = "mark" /\ job'[j].cur = Snap(d) /\ job'[j].rest = {}
        /\ \A k \in Job \ {j} : job'[k] = job[k]
    BY <1>1, <1>4 DEF StartIngest, At, TypeOK, Idle
  <2> QED
    BY <1>1, <1>2, <2>1, StartAgrees
<1>5. ASSUME NEW d \in DocId, DeleteStart(j, d), setting # "reingest" PROVE Agree'
  <2>1. /\ job[j].pc = "idle" /\ Exists(d) /\ UNCHANGED <<rows, files, vec, rules>>
        /\ job'[j].pc = "unindex" /\ job'[j].cur = Snap(d) /\ job'[j].chip = rows[d].chip
        /\ \A k \in Job \ {j} : job'[k] = job[k]
    BY <1>1, <1>5 DEF DeleteStart, At, TypeOK, Idle
  <2> QED
    BY <1>1, <1>2, <1>5, <2>1, StartAgrees
<1>6. ASSUME IngestAll(j) PROVE Agree'
  <2> DEFINE all == {Snap(d) : d \in Pending}
  <2>1. PICK s \in all :
          job' = [job EXCEPT ![j] = [Idle EXCEPT !.pc = "mark", !.cur = s, !.rest = all \ {s}]]
    BY <1>6 DEF IngestAll
  <2>2. \A t \in all : \E d \in DocId : Exists(d) /\ t = Snap(d)
    BY DEF Pending, Exists
  <2>3. /\ job[j].pc = "idle" /\ UNCHANGED <<rows, files, vec, rules>>
        /\ job'[j].pc = "mark" /\ job'[j].cur = s /\ job'[j].rest = all \ {s}
        /\ \A k \in Job \ {j} : job'[k] = job[k]
    BY <1>1, <1>6, <2>1 DEF IngestAll, At, TypeOK, Idle
  <2> HIDE DEF all
  <2>4. \A t \in {job'[j].cur} \cup job'[j].rest : \E d \in DocId : Exists(d) /\ t = Snap(d)
    BY <2>1, <2>2, <2>3
  <2> QED
    BY <1>1, <1>2, <2>3, <2>4, StartAgrees
<1> QED
  BY <1>3, <1>4, <1>5, <1>6 DEF ScenarioRequest, IngestSingle, IngestAsync

LEMMA WorksAlone ==
  ASSUME Agree, Quiet, NEW j \in Job, job[j].pc # "idle"
  PROVE  /\ setting = "serial" => \A k \in Job \ {j} : job[k].pc = "idle"
         /\ setting = "serial" /\ job[j].pc \in Unindexed =>
              rows[job[j].cur.doc].status # "completed"
         /\ setting = "reingest" => job[j].pc \notin Deleting
         /\ job[j].pc \in Deleting => setting = "serial"
BY DEF Agree, HandlersFollow, OneAtATime, Quiet

\* An ingestion can rely on what it selected.
LEMMA IngestionRelies ==
  ASSUME IInv, Agree, NEW j \in Job, job[j].pc \in Ingesting
  PROVE  /\ job[j].cur \in Snapshot /\ job[j].cur.doc \in DocId
         /\ Exists(job[j].cur.doc) /\ rows[job[j].cur.doc].hash \in Content
         /\ FollowsRow(job[j].cur)
         /\ job[j].rest \subseteq Snapshot /\ \A s \in job[j].rest : FollowsRow(s)
         /\ Kept => \A s \in {job[j].cur} \cup job[j].rest : FollowsRow(s)'
<1>1. Data /\ HoldsItsData(j) /\ job[j] \in JobState
  BY DEF IInv, Data, TypeOK, LocalsAreComplete
<1>2. /\ job[j].cur \in Snapshot /\ job[j].cur.doc \in DocId
      /\ job[j].rest \subseteq Snapshot
  BY <1>1 DEF HoldsItsData, At, Snapshot, Ingesting, JobState
<1>3. FollowsRow(job[j].cur) /\ \A s \in job[j].rest : FollowsRow(s)
  BY DEF Agree, HandlersFollow, JobFollows, IngestFollows
<1>4. Exists(job[j].cur.doc) /\ rows[job[j].cur.doc].hash \in Content
  BY <1>1, <1>2, <1>3 DEF FollowsRow, Data, RowsAreComplete
<1>5. ASSUME Kept PROVE \A s \in Snapshot : FollowsRow(s) => FollowsRow(s)'
  BY <1>1, <1>5, FollowsRowKept
<1>6. Kept => \A s \in {job[j].cur} \cup job[j].rest : FollowsRow(s)'
  BY <1>2, <1>3, <1>5
<1> QED
  BY <1>2, <1>3, <1>4, <1>6

\* A handler that goes on with its next row, or returns.
LEMMA AdvanceFollows ==
  ASSUME IInv, Agree, NEW j \in Job, job[j].pc \in Ingesting, Advance(j) \/ Return(j)
  PROVE  /\ Kept => JobFollows(j)'
         /\ job'[j].pc \notin Unindexed /\ job'[j].pc \notin Deleting
<1>1. \/ job'[j].pc = "idle"
      \/ /\ job'[j].pc = "mark" /\ job'[j].cur \in job[j].rest
         /\ job'[j].rest \subseteq job[j].rest
  BY AdvanceType, ReturnType DEF IInv, Data, TypeOK, Idle
<1>2. CASE job'[j].pc = "idle"
  BY <1>2 DEF JobFollows, Ingesting, Deleting, Unindexed
<1>3. CASE /\ job'[j].pc = "mark" /\ job'[j].cur \in job[j].rest
           /\ job'[j].rest \subseteq job[j].rest
  <2>1. ASSUME Kept PROVE IngestFollows(j)'
    <3>1. \A s \in {job[j].cur} \cup job[j].rest : FollowsRow(s)'
      BY <2>1, IngestionRelies
    <3> QED
      BY <1>3, <3>1 DEF IngestFollows, FollowsRow, Exists
  <2> QED
    BY <1>3, <2>1 DEF JobFollows, Deleting, Unindexed
<1> QED
  BY <1>1, <1>2, <1>3

\* A handler that stays with its row.
LEMMA GoesOnFollowing ==
  ASSUME IInv, Agree, Kept, NEW j \in Job, job[j].pc \in Ingesting,
         job'[j].cur = job[j].cur, job'[j].rest = job[j].rest,
         job'[j].pc \in Ingesting,
         job'[j].pc \in {"link", "wipe", "insert"} => job'[j].text = rows'[job[j].cur.doc].hash,
         job'[j].pc \in {"wipe", "insert"} => job'[j].chip = rows'[job[j].cur.doc].chip,
         job'[j].pc \in {"enrich", "finish"} => Indexed(job[j].cur.doc)'
  PROVE  JobFollows(j)'
<1>1. \A s \in {job[j].cur} \cup job[j].rest : FollowsRow(s)'
  BY IngestionRelies
<1>2. IngestFollows(j)'
  BY <1>1 DEF IngestFollows, FollowsRow, Exists, Indexed, Searchable, Busy
<1> QED
  BY <1>2 DEF JobFollows, Ingesting, Deleting

LEMMA UploadSaveAgrees ==
  ASSUME IInv, Agree, Quiet, UNCHANGED setting, NEW j \in Job, UploadSave(j)
  PROVE  Agree'
<1> DEFINE d == job[j].cur.doc
           h == job[j].text
           p == job[j].cur.path
<1>1. Data /\ TypeOK /\ HoldsItsData(j) /\ JobFollows(j) /\ IdsAreFresh
  BY DEF IInv, Data, LocalsAreComplete, Agree, HandlersFollow
<1>2. job[j].pc = "save" /\ Return(j) /\ UNCHANGED <<files, vec, rules>>
  BY DEF UploadSave, At
<1>3. /\ d \in DocId /\ h \in Content /\ p \in Path /\ ~Exists(d)
      /\ p \in UploadPaths[h] /\ files[p] = h
  BY <1>1, <1>2 DEF HoldsItsData, At, Snapshot, IdsAreFresh, JobFollows, UploadFollows
<1>4. job'[j] = Idle /\ job'[j].pc = "idle" /\ \A k \in Job \ {j} : job'[k] = job[k]
  <2>1. job' = [job EXCEPT ![j] = Idle]
    BY <1>2 DEF Return
  <2>2. job \in [Job -> JobState]
    BY <1>1 DEF TypeOK
  <2>3. Idle.pc = "idle"
    BY DEF Idle
  <2> HIDE DEF d, h, p
  <2> QED BY <2>1, <2>2, <2>3
<1>5. /\ \A e \in DocId : Exists(e) =>
           /\ Exists(e)' /\ rows'[e].hash = rows[e].hash /\ rows'[e].name = rows[e].name
           /\ rows'[e].chip = rows[e].chip /\ rows'[e].status = rows[e].status
           /\ rows'[e].path = rows[e].path \/ (rows[e].hash = h /\ rows'[e].path = p)
      /\ \A e \in DocId : Exists(e)' /\ ~Exists(e) =>
           /\ rows'[e].hash = h /\ rows'[e].name = p /\ rows'[e].path = p
           /\ rows'[e].chip = None /\ rows'[e].status = "uploaded" /\ e = d
           /\ \A f \in DocId : Exists(f) => rows[f].hash # h
  <2>1. CASE InsertRow(d, h, p)
    <3> DEFINE same == {e \in DocId : Exists(e) /\ rows[e].hash = h}
               fresh == [status |-> "uploaded", hash |-> h, path |-> p,
                         name |-> p, chip |-> None]
    <3>1. \A e \in DocId :
            /\ e \in same => rows'[e] = [rows[e] EXCEPT !.path = p]
            /\ e \notin same /\ e = d /\ same = {} => rows'[e] = fresh
            /\ e \notin same /\ ~(e = d /\ same = {}) => rows'[e] = rows[e]
      BY <2>1 DEF InsertRow
    <3>2. \A e \in DocId : rows[e] \in Row
      BY <1>1 DEF TypeOK
    <3>3. ASSUME NEW e \in DocId, Exists(e)
          PROVE  /\ Exists(e)' /\ rows'[e].hash = rows[e].hash
                 /\ rows'[e].name = rows[e].name
                 /\ rows'[e].chip = rows[e].chip /\ rows'[e].status = rows[e].status
                 /\ rows'[e].path = rows[e].path \/ (rows[e].hash = h /\ rows'[e].path = p)
      <4>1. CASE e \in same
        BY <3>1, <3>2, <3>3, <4>1 DEF Row, Exists
      <4>2. CASE e \notin same
        BY <1>3, <3>1, <3>3, <4>2 DEF Exists
      <4> QED
        BY <4>1, <4>2
    <3>4. ASSUME NEW e \in DocId, Exists(e)', ~Exists(e)
          PROVE  e = d /\ same = {} /\ rows'[e] = fresh
      BY <3>1, <3>4 DEF Exists
    <3> QED
      BY <3>3, <3>4
  <2>2. CASE UNCHANGED rows
    BY <2>2 DEF Exists
  <2> QED
    BY <2>1, <2>2 DEF UploadSave
<1>6. Kept
  BY <1>2, <1>5 DEF Kept
<1>7. HashesAreUnique'
  <2> SUFFICES ASSUME NEW e \in DocId, NEW f \in DocId, Exists(e)', Exists(f)',
                      rows'[e].hash = rows'[f].hash
               PROVE  e = f
    BY DEF HashesAreUnique, Exists
  <2>1. CASE Exists(e) /\ Exists(f)
    BY <1>5, <2>1 DEF Agree, StoresFollow, HashesAreUnique
  <2>2. CASE ~Exists(e) \/ ~Exists(f)
    BY <1>5, <2>2
  <2> QED
    BY <2>1, <2>2
<1>8. RowsFollowTheirContent'
  <2> SUFFICES ASSUME NEW e \in DocId, Exists(e)'
               PROVE  /\ rows'[e].path \in UploadPaths[rows'[e].hash]
                      /\ rows'[e].name \in UploadPaths[rows'[e].hash]
                      /\ rows'[e].chip \in {None, PartNumber[rows'[e].name][rows'[e].hash]}
    BY DEF RowsFollowTheirContent, Exists
  <2>1. CASE Exists(e)
    BY <1>3, <1>5, <2>1 DEF Agree, StoresFollow, RowsFollowTheirContent
  <2>2. CASE ~Exists(e)
    BY <1>3, <1>5, <2>2
  <2> QED
    BY <2>1, <2>2
<1>9. ChunksFollowRows'
  <2>1. \A c \in Chip : \A b \in vec[c] : b.doc \in DocId
    BY <1>1 DEF TypeOK, Batch
  <2> QED
    BY <1>2, <1>5, <2>1 DEF Agree, StoresFollow, ChunksFollowRows, Exists
<1>10. StoresFollow'
  BY <1>2, <1>7, <1>8, <1>9 DEF Agree, StoresFollow, FilesHoldTheirContent
<1>11. FileIsTheContent'
  <2> SUFFICES ASSUME NEW e \in DocId, Exists(e)'
               PROVE  files[rows'[e].path] = rows'[e].hash \/ Busy(e, {"drop"})'
    BY <1>2 DEF FileIsTheContent, Exists
  <2>1. CASE rows'[e].hash = h /\ rows'[e].path = p
    BY <1>3, <2>1
  <2>2. CASE Exists(e) /\ rows'[e].hash = rows[e].hash /\ rows'[e].path = rows[e].path
    <3>1. CASE Busy(e, {"drop"})
      BY <1>2, <1>4, <3>1 DEF Busy
    <3> QED
      BY <2>2, <3>1 DEF Agree, FileIsTheContent
  <2> QED
    BY <1>5, <2>1, <2>2
<1>12. JobFollows(j)' /\ job'[j].pc \notin Deleting \cup Unindexed
  BY <1>4 DEF JobFollows, Ingesting, Deleting, Unindexed
<1>13. \A c \in Chip : vec[c] \subseteq vec'[c]
  BY <1>2
<1>14. \A e \in DocId : Exists(e) /\ Indexed(e) => Indexed(e)'
  BY <1>1, <1>2, <1>4, <1>6, <1>13, IndexedKept
<1>15. \A e \in DocId : rows'[e].status = "completed" => rows[e].status = "completed"
  BY <1>5 DEF Exists
<1>16. setting = "serial" => \A k \in Job \ {j} : job[k].pc = "idle"
  BY <1>2, WorksAlone
<1> QED
  BY <1>2, <1>4, <1>6, <1>10, <1>11, <1>12, <1>14, <1>15, <1>16, KeepsAgreement DEF Deleting

\* The steps of an ingestion that touch neither files nor chunks.
LEMMA IngestStepAgrees ==
  ASSUME IInv, Agree, Quiet, DeletesSucceed, UNCHANGED setting, NEW j \in Job,
         \/ Mark(j) \/ Read(j) \/ Link(j) \/ Enrich(j) \/ Finish(j) \/ MarkFailed(j)
         \/ (setting # "reingest" /\ StepFails(j))
  PROVE  Agree'
<1> DEFINE d == job[j].cur.doc
<1>1. Data /\ TypeOK /\ job[j] \in JobState /\ JobFollows(j) /\ LocalsAreComplete
  BY DEF IInv, Data, TypeOK, Agree, HandlersFollow
<1>2. job[j].pc \in Ingesting /\ job[j].pc # "idle" /\ job[j].pc \notin Deleting
      /\ UNCHANGED <<files, vec>>
  BY DEF Mark, Read, Link, Enrich, Finish, MarkFailed, StepFails, At, Ingesting, Deleting
<1>3. /\ job[j].cur \in Snapshot /\ d \in DocId /\ Exists(d) /\ rows[d].hash \in Content
      /\ FollowsRow(job[j].cur)
  BY <1>2, IngestionRelies
<1>4. /\ setting = "serial" => \A k \in Job \ {j} : job[k].pc = "idle"
      /\ setting = "serial" /\ job[j].pc \in Unindexed => rows[d].status # "completed"
  BY <1>2, WorksAlone
<1>5. \A k \in Job \ {j} : job'[k] = job[k]
  <2>1. Step(j)
    BY DEF Step, Work
  <2>2. MovesOn(j)
    BY <1>1, <2>1, StepEffect DEF IInv
  <2> QED
    BY <2>2 DEF MovesOn
\* What is left to show of each step.
<1>6. ASSUME RowsKept, UNCHANGED rules,
             \A e \in DocId : rows'[e].status = "completed" =>
               \/ rows[e].status = "completed"
               \/ job[j].pc = "finish" /\ e = d /\ Exists(e),
             job[j].pc = "insert" => setting = "serial" /\ rows' = rows,
             setting = "serial" /\ job'[j].pc \in Unindexed =>
               rows'[job'[j].cur.doc].status # "completed",
             job'[j].pc \notin Deleting,
             Kept => JobFollows(j)'
      PROVE  Agree'
  BY <1>2, <1>4, <1>5, <1>6, QuietStep
<1>7. ASSUME NEW pc \in PC, Goto(j, pc)
      PROVE  job'[j].pc = pc /\ job'[j].cur = job[j].cur /\ job'[j].rest = job[j].rest
             /\ job'[j].text = job[j].text /\ job'[j].chip = job[j].chip
  <2>1. job'[j] = [job[j] EXCEPT !.pc = pc]
    BY <1>1, <1>7, GotoType DEF TypeOK
  <2> QED
    BY <1>1, <2>1 DEF JobState
<1>8. CASE Mark(j)
  <2>1. CASE SetStatus(d, "processing") /\ Goto(j, "read")
    <3>1. job'[j].pc = "read" /\ job'[j].cur = job[j].cur /\ job'[j].rest = job[j].rest
      BY <1>7, <2>1 DEF PC
    <3>2. \A e \in DocId : rows'[e].status =
             IF e = d /\ Exists(d) THEN "processing" ELSE rows[e].status
      BY <1>1, <1>3, <2>1, SetStatusRows DEF Status
    <3>3. RowsKept
      BY <1>1, <1>3, <2>1, SetStatusRowsKept DEF Status
    <3>4. Kept => JobFollows(j)'
      BY <1>2, <3>1, GoesOnFollowing DEF Ingesting
    <3>5. job[j].pc = "mark" /\ UNCHANGED rules /\ job'[j].pc \notin Deleting
      BY <1>8, <3>1 DEF Mark, At, Deleting
    <3> QED
      BY <1>3, <1>6, <3>1, <3>2, <3>3, <3>4, <3>5
  <2>2. CASE UNCHANGED rows /\ Return(j)
    <3>1. /\ Kept => JobFollows(j)'
          /\ job'[j].pc \notin Unindexed /\ job'[j].pc \notin Deleting
      BY <1>2, <2>2, AdvanceFollows
    <3>2. RowsKept /\ UNCHANGED rules /\ job[j].pc = "mark"
      BY <1>8, <2>2, SameRowsKept DEF Mark, At
    <3> QED
      BY <1>6, <2>2, <3>1, <3>2
  <2> QED
    BY <1>8, <2>1, <2>2 DEF Mark
<1>9. CASE Read(j)
  <2>1. files[job[j].cur.path] = rows[d].hash /\ files[job[j].cur.path] # None
    BY <1>3, NoneAssumption DEF FollowsRow
  <2> DEFINE new == [job[j] EXCEPT !.pc = "link", !.text = files[job[j].cur.path]]
  <2>2. job' = [job EXCEPT ![j] = new] /\ UNCHANGED <<rows, rules>> /\ job[j].pc = "read"
    BY <1>9, <2>1 DEF Read, At
  <2>3. /\ job'[j].pc = "link" /\ job'[j].cur = job[j].cur /\ job'[j].rest = job[j].rest
        /\ job'[j].text = rows[d].hash
    BY <1>1, <2>1, <2>2 DEF TypeOK, JobState
  <2>4. Kept => JobFollows(j)'
    BY <1>2, <2>2, <2>3, GoesOnFollowing DEF Ingesting
  <2>5. RowsKept /\ job'[j].pc \notin Deleting
    BY <2>2, <2>3, SameRowsKept DEF Deleting
  <2>6. setting = "serial" => rows'[job'[j].cur.doc].status # "completed"
    BY <1>4, <2>2, <2>3 DEF Unindexed
  <2> QED
    BY <1>6, <2>2, <2>4, <2>5, <2>6
<1>10. CASE Link(j)
  <2> DEFINE c == PartNumber[job[j].cur.name][job[j].text]
             new == [job[j] EXCEPT !.pc = "wipe", !.chip = c]
  <2>1. /\ job[j].pc = "link" /\ UNCHANGED rules
        /\ rows' = [rows EXCEPT ![d] = [rows[d] EXCEPT !.chip = c]]
        /\ job' = [job EXCEPT ![j] = new]
    BY <1>3, <1>10 DEF Link, At
  <2>2. job[j].text = rows[d].hash /\ job[j].cur.name = rows[d].name
    BY <1>1, <1>3, <2>1 DEF JobFollows, IngestFollows, FollowsRow, Ingesting
  <2>3. c = PartNumber[rows[d].name][rows[d].hash]
    BY <2>2
  <2>4. /\ job'[j].pc = "wipe" /\ job'[j].cur = job[j].cur /\ job'[j].rest = job[j].rest
        /\ job'[j].text = job[j].text /\ job'[j].chip = c
    BY <1>1, <2>1 DEF TypeOK, JobState
  <2>5. rows[d] \in Row /\ rows \in [DocId -> Row]
    BY <1>1, <1>3 DEF TypeOK
  <2>6. /\ rows'[d].status = rows[d].status /\ rows'[d].hash = rows[d].hash
        /\ rows'[d].path = rows[d].path /\ rows'[d].name = rows[d].name
        /\ rows'[d].chip = c /\ \A e \in DocId \ {d} : rows'[e] = rows[e]
    BY <1>3, <2>1, <2>5 DEF Row
  <2> HIDE DEF c
  <2>7. RowsKept
    BY <2>3, <2>6 DEF RowsKept, Exists
  <2>8. Kept => JobFollows(j)'
    BY <1>2, <2>2, <2>4, <2>6, GoesOnFollowing DEF Ingesting
  <2>9. setting = "serial" => rows'[job'[j].cur.doc].status # "completed"
    BY <1>4, <2>1, <2>4, <2>6 DEF Unindexed
  <2>10. \A e \in DocId : rows'[e].status = rows[e].status
    BY <2>6
  <2> QED
    BY <1>6, <2>1, <2>4, <2>7, <2>8, <2>9, <2>10 DEF Deleting
<1>11. CASE Enrich(j)
  <2>1. /\ job[j].pc = "enrich" /\ UNCHANGED <<rows, rules>> /\ Goto(j, "finish")
    BY <1>11 DEF Enrich, At, DeletesSucceed
  <2>2. job'[j].pc = "finish" /\ job'[j].cur = job[j].cur /\ job'[j].rest = job[j].rest
    BY <1>7, <2>1 DEF PC
  <2>3. Indexed(d)
    BY <1>1, <2>1 DEF JobFollows, IngestFollows, Ingesting
  <2>4. \A c \in Chip : vec[c] \subseteq vec'[c]
    BY <1>2
  <2>5. Kept => \A e \in DocId : Exists(e) /\ Indexed(e) => Indexed(e)'
    BY <1>1, <1>5, <2>1, <2>4, IndexedKept
  <2>6. Kept => Indexed(job[j].cur.doc)'
    BY <1>3, <2>2, <2>3, <2>5 DEF Indexed, Searchable, Busy
  <2>7. Kept => JobFollows(j)'
    BY <1>2, <2>2, <2>6, GoesOnFollowing DEF Ingesting
  <2> QED
    BY <1>6, <2>1, <2>2, <2>7, SameRowsKept DEF Deleting, Unindexed
<1>12. CASE Finish(j)
  <2>1. /\ job[j].pc = "finish" /\ UNCHANGED rules /\ Advance(j)
        /\ SetStatus(d, "completed")
    BY <1>12 DEF Finish, At
  <2>2. \A e \in DocId : rows'[e].status =
           IF e = d /\ Exists(d) THEN "completed" ELSE rows[e].status
    BY <1>1, <1>3, <2>1, SetStatusRows DEF Status
  <2>3. RowsKept
    BY <1>1, <1>3, <2>1, SetStatusRowsKept DEF Status
  <2>4. /\ Kept => JobFollows(j)'
        /\ job'[j].pc \notin Unindexed /\ job'[j].pc \notin Deleting
    BY <1>2, <2>1, AdvanceFollows
  <2> QED
    BY <1>6, <2>1, <2>2, <2>3, <2>4
<1>13. CASE MarkFailed(j)
  <2>1. job[j].pc = "fail" /\ UNCHANGED rules /\ (Advance(j) \/ Return(j))
    BY <1>13 DEF MarkFailed, At
  <2>2. /\ Kept => JobFollows(j)'
        /\ job'[j].pc \notin Unindexed /\ job'[j].pc \notin Deleting
    BY <1>2, <2>1, AdvanceFollows
  <2>3. CASE SetStatus(d, "failed")
    <3>1. \A e \in DocId : rows'[e].status =
             IF e = d /\ Exists(d) THEN "failed" ELSE rows[e].status
      BY <1>1, <1>3, <2>3, SetStatusRows DEF Status
    <3>2. RowsKept
      BY <1>1, <1>3, <2>3, SetStatusRowsKept DEF Status
    <3> QED
      BY <1>6, <2>1, <2>2, <3>1, <3>2
  <2>4. CASE UNCHANGED rows
    BY <1>6, <2>1, <2>2, <2>4, SameRowsKept
  <2> QED
    BY <1>13, <2>3, <2>4 DEF MarkFailed
<1>14. CASE setting # "reingest" /\ StepFails(j)
  <2>1. Goto(j, "fail") /\ UNCHANGED <<rows, rules>> /\ setting = "serial"
    BY <1>14 DEF StepFails, Quiet
  <2>2. job'[j].pc = "fail" /\ job'[j].cur = job[j].cur /\ job'[j].rest = job[j].rest
    BY <1>7, <2>1 DEF PC
  <2>3. Kept => JobFollows(j)'
    BY <1>2, <2>2, GoesOnFollowing DEF Ingesting
  <2> QED
    BY <1>6, <2>1, <2>2, <2>3, SameRowsKept DEF Deleting, Unindexed
<1> QED
  BY <1>8, <1>9, <1>10, <1>11, <1>12, <1>13, <1>14

\* The two halves of _milvus_upsert.  Wipe takes the chunks of one chip, which
\* are its own document's, and Insert puts them back.
LEMMA UpsertAgrees ==
  ASSUME IInv, Agree, Quiet, NothingIsShared, UNCHANGED setting, NEW j \in Job,
         Wipe(j) \/ Insert(j)
  PROVE  Agree'
<1>1. PICK d : d = job[j].cur.doc
  OBVIOUS
<1>2. Data /\ TypeOK /\ JobFollows(j) /\ LocalsAreComplete /\ IngestedIsLinked /\ StoresFollow
  BY DEF IInv, Data, TypeOK, Agree, HandlersFollow, Linked
<1>3. /\ job[j].pc \in {"wipe", "insert"} /\ job[j].pc \in Ingesting /\ job[j].pc # "idle"
      /\ job[j].pc \notin Deleting /\ UNCHANGED <<rows, files, rules>>
  BY DEF Wipe, Insert, At, Ingesting, Deleting
<1>4. /\ d \in DocId /\ Exists(d) /\ rows[d].hash \in Content
  BY <1>1, <1>3, IngestionRelies
<1>5. /\ job[j].text = rows[d].hash /\ job[j].chip = rows[d].chip
      /\ rows[d].chip # None /\ rows[d].chip \in Chip
  <2>1. job[j].text = rows[d].hash /\ job[j].chip = rows[d].chip
    BY <1>1, <1>2, <1>3 DEF JobFollows, IngestFollows
  <2>2. rows[d].chip # None /\ rows[d] \in Row
    BY <1>1, <1>2, <1>3, <1>4 DEF IngestedIsLinked, TypeOK
  <2> QED
    BY <2>1, <2>2 DEF Row
<1>6. /\ setting = "serial" => \A k \in Job \ {j} : job[k].pc = "idle"
      /\ setting = "serial" => rows[d].status # "completed"
  BY <1>1, <1>3, WorksAlone DEF Unindexed
<1>7. PICK b : b = [by |-> j, doc |-> d, text |-> job[j].text]
  OBVIOUS
<1>8. \/ /\ job[j].pc = "wipe" /\ Goto(j, "insert")
         /\ vec' = [vec EXCEPT ![rows[d].chip] = {}]
      \/ /\ job[j].pc = "insert" /\ Goto(j, "enrich")
         /\ vec' = [vec EXCEPT ![rows[d].chip] = vec[rows[d].chip] \cup {b}]
  BY <1>1, <1>5, <1>7 DEF Wipe, Insert, At
<1>9. /\ \A k \in Job \ {j} : job'[k] = job[k]
      /\ job'[j].cur = job[j].cur /\ job'[j].rest = job[j].rest
      /\ job'[j].text = job[j].text /\ job'[j].chip = job[j].chip
      /\ job[j].pc = "wipe" => job'[j].pc = "insert"
      /\ job[j].pc = "insert" => job'[j].pc = "enrich"
  <2>1. PICK pc \in {"insert", "enrich"} :
          Goto(j, pc) /\ pc = (IF job[j].pc = "wipe" THEN "insert" ELSE "enrich")
    BY <1>8
  <2>2. job'[j] = [job[j] EXCEPT !.pc = pc] /\ \A k \in Job \ {j} : job'[k] = job[k]
    BY <1>2, <2>1, GotoType DEF TypeOK, PC
  <2> QED
    BY <1>2, <2>1, <2>2 DEF TypeOK, JobState
<1>10. \A c \in Chip \ {rows[d].chip} : vec'[c] = vec[c]
  BY <1>2, <1>5, <1>8 DEF TypeOK
<1>11. b.doc = d /\ b.text = rows[d].hash
  BY <1>5, <1>7
<1>12. vec'[rows[d].chip] = IF job[j].pc = "wipe" THEN {} ELSE vec[rows[d].chip] \cup {b}
  BY <1>2, <1>5, <1>8 DEF TypeOK
<1>13. \A c \in Chip : \A x \in vec'[c] :
         x \in vec[c] \/ (/\ x.doc \in DocId /\ Exists(x.doc) /\ rows'[x.doc].chip = c
                          /\ x.text = rows[x.doc].hash)
  BY <1>3, <1>4, <1>10, <1>11, <1>12
<1>14. Kept /\ StoresFollow' /\ FileIsTheContent'
  <2>1. RowsKept /\ FileIsTheContent /\ job[j].pc # "drop"
    BY <1>3, SameRowsKept DEF Agree
  <2> QED
    BY <1>2, <1>3, <1>9, <1>13, <2>1, StoresKept
<1>15. ASSUME NEW e \in DocId, Exists(e), Indexed(e) PROVE Indexed(e)'
  <2>1. CASE e = d /\ job[j].pc = "wipe"
    <3>1. Busy(e, {"insert"})'
      BY <1>1, <1>9, <2>1 DEF Busy
    <3> QED
      BY <3>1 DEF Indexed
  <2>2. CASE e = d /\ job[j].pc = "insert"
    <3>1. Searchable(e)'
      BY <1>3, <1>5, <1>11, <1>12, <2>2 DEF Searchable
    <3> QED
      BY <3>1 DEF Indexed
  <2>3. CASE e # d
    <3>1. CASE Searchable(e)
      <4>1. rows[e].chip \in Chip /\ rows[e].chip # None
        BY <1>2, <3>1 DEF TypeOK, Row, Searchable
      <4>2. rows[e].chip # rows[d].chip
        BY <1>2, <1>4, <1>5, <1>15, <2>3, ChipsTellDocuments
      <4>3. Searchable(e)'
        BY <1>3, <1>10, <3>1, <4>1, <4>2 DEF Searchable
      <4> QED
        BY <4>3 DEF Indexed
    <3>2. CASE Busy(e, {"insert"})
      <4>1. PICK k \in Job : job[k].cur.doc = e /\ job[k].pc = "insert"
        BY <3>2 DEF Busy
      <4>2. job'[k] = job[k]
        BY <1>1, <1>9, <2>3, <4>1
      <4>3. Busy(e, {"insert"})'
        BY <4>1, <4>2 DEF Busy
      <4> QED
        BY <4>3 DEF Indexed
    <3> QED
      BY <1>15, <3>1, <3>2 DEF Indexed
  <2> QED
    BY <1>3, <2>1, <2>2, <2>3
<1>16. job[j].pc = "insert" => Searchable(d)'
  BY <1>3, <1>5, <1>11, <1>12 DEF Searchable
<1>17. job[j].pc = "insert" => Indexed(job[j].cur.doc)'
  BY <1>1, <1>9, <1>16 DEF Indexed, Searchable
<1>18. job'[j].pc \in {"insert", "enrich"} /\ (job'[j].pc = "enrich" => job[j].pc = "insert")
  BY <1>3, <1>9
<1>19. JobFollows(j)'
  <2>1. job'[j].pc \in Ingesting
    BY <1>18 DEF Ingesting
  <2>2. /\ job'[j].pc \in {"link", "wipe", "insert"} =>
             job'[j].text = rows'[job[j].cur.doc].hash
        /\ job'[j].pc \in {"wipe", "insert"} => job'[j].chip = rows'[job[j].cur.doc].chip
    BY <1>1, <1>3, <1>5, <1>9
  <2> QED
    BY <1>3, <1>9, <1>14, <1>17, <1>18, <2>1, <2>2, GoesOnFollowing
<1>20. job'[j].pc \notin Deleting /\ job'[j].cur.doc = d
  BY <1>1, <1>9, <1>18 DEF Deleting
<1>21. setting = "serial" /\ job'[j].pc \in Unindexed =>
          rows'[job'[j].cur.doc].status # "completed"
  BY <1>3, <1>6, <1>20
<1>22. \A e \in DocId : rows'[e].status = "completed" => rows[e].status = "completed"
  BY <1>3
<1> QED
  BY <1>3, <1>6, <1>9, <1>14, <1>15, <1>19, <1>20, <1>21, <1>22, KeepsAgreement

\* A delete works alone.
LEMMA DeleteAgrees ==
  ASSUME IInv, Agree, Quiet, NothingIsShared, DeletesSucceed, UNCHANGED setting,
         NEW j \in Job, Unindex(j) \/ Unlink(j) \/ DropRow(j)
  PROVE  Agree'
<1>1. PICK d : d = job[j].cur.doc
  OBVIOUS
<1>2. Data /\ TypeOK /\ LocalsAreComplete /\ IdsAreFresh /\ JobFollows(j) /\ StoresFollow
  BY DEF IInv, Data, TypeOK, Agree, HandlersFollow, Linked
<1>3. job[j].pc \in Deleting /\ job[j].pc # "idle"
  BY DEF Unindex, Unlink, DropRow, At, Deleting
<1>4. setting = "serial" /\ \A k \in Job \ {j} : job[k].pc = "idle"
  BY <1>3, WorksAlone
<1>5. /\ d \in DocId /\ Exists(d) /\ job[j].cur = Snap(d) /\ rows[d].path \in Path
      /\ job[j].cur.path = rows[d].path
      /\ job[j].pc = "unindex" => job[j].chip = rows[d].chip
      /\ job[j].pc # "unindex" => HasNoChunk(d)
  <2>1. d \in DocId
    BY <1>1, <1>2, <1>3 DEF LocalsAreComplete, HoldsItsData, At, Snapshot
  <2>2. DeleteFollows(j)
    BY <1>2, <1>3 DEF JobFollows
  <2> QED
    BY <1>1, <1>2, <2>1, <2>2 DEF DeleteFollows, Snap, Data, RowsAreComplete
<1>6. \A k \in Job \ {j} : job'[k] = job[k]
  <2>1. Step(j)
    BY DEF Step, Work
  <2> QED
    BY <1>2, <2>1, StepEffect DEF MovesOn
\* What is left to show of each step.
<1>7. ASSUME StoresFollow', FileIsTheContent', CompletedIsSearchable', JobFollows(j)',
             job'[j].pc \notin Unindexed
      PROVE  Agree'
  <2>1. \A k \in Job : JobFollows(k)'
    <3>1. ASSUME NEW k \in Job, k # j PROVE JobFollows(k)'
      BY <1>4, <1>6, <3>1 DEF JobFollows, Ingesting, Deleting
    <3> QED
      BY <1>7, <3>1
  <2>2. OneAtATime'
    BY <1>4, <1>6, <1>7 DEF OneAtATime, Unindexed
  <2> QED
    BY <1>4, <1>7, <2>1, <2>2 DEF Agree, HandlersFollow
<1>8. ASSUME NEW e \in DocId, rows[e].status = "completed", e # d PROVE Searchable(e)
  <2>1. Searchable(e) \/ Busy(e, {"insert", "unlink", "drop"})
    BY <1>8 DEF Agree, CompletedIsSearchable
  <2> QED
    BY <1>1, <1>4, <1>8, <2>1 DEF Busy
<1>9. ASSUME NEW pc \in PC, Goto(j, pc)
      PROVE  job'[j].pc = pc /\ job'[j].cur = job[j].cur
  <2>1. job'[j] = [job[j] EXCEPT !.pc = pc] /\ job[j] \in JobState
    BY <1>2, <1>9, GotoType DEF TypeOK
  <2> QED
    BY <2>1 DEF JobState
<1>10. CASE Unindex(j)
  <2>1. /\ job[j].pc = "unindex" /\ UNCHANGED <<rows, files, rules>> /\ Goto(j, "unlink")
        /\ vec' = [c \in Chip |-> IF c = rows[d].chip THEN {} ELSE vec[c]]
    BY <1>5, <1>10 DEF Unindex, At, DeletesSucceed
  <2>2. job'[j].pc = "unlink" /\ job'[j].cur = job[j].cur
    BY <1>9, <2>1 DEF PC
  <2>3. RowsKept /\ FileIsTheContent
    BY <2>1, SameRowsKept DEF Agree
  <2>4. \A c \in Chip : \A b \in vec'[c] : b \in vec[c] /\ c # rows[d].chip
    BY <2>1
  <2>5. StoresFollow' /\ FileIsTheContent'
    BY <1>2, <1>6, <2>1, <2>3, <2>4, StoresKept
  <2>6. \A c \in Chip : \A b \in vec'[c] : b.doc # d
    BY <2>4, <1>2 DEF StoresFollow, ChunksFollowRows
  <2>7. JobFollows(j)'
    <3>1. DeleteFollows(j)'
      BY <1>1, <1>5, <2>1, <2>2, <2>6 DEF DeleteFollows, HasNoChunk, Snap, Exists
    <3> QED
      BY <2>2, <3>1 DEF JobFollows, Ingesting
  <2>8. CompletedIsSearchable'
    <3> SUFFICES ASSUME NEW e \in DocId, rows[e].status = "completed"
                 PROVE  Searchable(e)' \/ Busy(e, {"insert", "unlink", "drop"})'
      BY <2>1 DEF CompletedIsSearchable
    <3>1. CASE e = d
      BY <1>1, <2>2, <3>1 DEF Busy
    <3>2. CASE e # d
      <4>1. Searchable(e) /\ Exists(e)
        BY <1>8, <3>2 DEF Exists
      <4>2. rows[e].chip \in Chip /\ rows[e].chip # None
        BY <1>2, <4>1 DEF TypeOK, Row, Searchable
      <4>3. rows[e].chip # rows[d].chip
        BY <1>2, <1>5, <3>2, <4>1, <4>2, ChipsTellDocuments
      <4> QED
        BY <2>1, <4>1, <4>2, <4>3 DEF Searchable
    <3> QED
      BY <3>1, <3>2
  <2> QED
    BY <1>7, <2>2, <2>5, <2>7, <2>8 DEF Unindexed
<1>11. CASE Unlink(j)
  <2>1. /\ job[j].pc = "unlink" /\ UNCHANGED <<rows, vec, rules>> /\ Goto(j, "drop")
        /\ files' = [files EXCEPT ![rows[d].path] = None] \/ UNCHANGED files
    BY <1>5, <1>11 DEF Unlink, At
  <2>2. job'[j].pc = "drop" /\ job'[j].cur = job[j].cur
    BY <1>9, <2>1 DEF PC
  <2>3. /\ \A p \in Path : files'[p] = files[p] \/ files'[p] = None
        /\ \A p \in Path \ {rows[d].path} : files'[p] = files[p]
    BY <1>2, <1>5, <2>1 DEF TypeOK
  <2>4. StoresFollow'
    BY <1>2, <2>1, <2>3 DEF StoresFollow, HashesAreUnique, RowsFollowTheirContent,
      FilesHoldTheirContent, ChunksFollowRows, Exists
  <2>5. FileIsTheContent'
    <3> SUFFICES ASSUME NEW e \in DocId, Exists(e)
                 PROVE  files'[rows[e].path] = rows[e].hash \/ Busy(e, {"drop"})'
      BY <2>1 DEF FileIsTheContent, Exists
    <3>1. CASE e = d
      BY <1>1, <2>2, <3>1 DEF Busy
    <3>2. CASE e # d
      <4>1. ~Busy(e, {"drop"})
        BY <1>1, <1>4, <3>2 DEF Busy
      <4>2. /\ files[rows[e].path] = rows[e].hash /\ rows[e].path \in Path
            /\ rows[e].hash \in Content /\ rows[d].hash \in Content
            /\ rows[e].path \in UploadPaths[rows[e].hash]
            /\ rows[d].path \in UploadPaths[rows[d].hash]
            /\ rows[e].hash # rows[d].hash
        BY <1>2, <1>5, <3>2, <4>1 DEF Agree, FileIsTheContent, Data, RowsAreComplete,
          StoresFollow, RowsFollowTheirContent, HashesAreUnique
      <4>3. rows[e].path # rows[d].path
        BY <4>2, PathsTellContents
      <4> QED
        BY <2>3, <4>2, <4>3
    <3> QED
      BY <3>1, <3>2
  <2>6. JobFollows(j)'
    <3>1. DeleteFollows(j)'
      BY <1>1, <1>5, <2>1, <2>2 DEF DeleteFollows, HasNoChunk, Snap, Exists
    <3> QED
      BY <2>2, <3>1 DEF JobFollows, Ingesting
  <2>7. CompletedIsSearchable'
    <3> SUFFICES ASSUME NEW e \in DocId, rows[e].status = "completed"
                 PROVE  Searchable(e)' \/ Busy(e, {"insert", "unlink", "drop"})'
      BY <2>1 DEF CompletedIsSearchable
    <3>1. CASE e = d
      BY <1>1, <2>2, <3>1 DEF Busy
    <3>2. CASE e # d
      BY <1>8, <2>1, <3>2 DEF Searchable
    <3> QED
      BY <3>1, <3>2
  <2> QED
    BY <1>7, <2>2, <2>4, <2>5, <2>6, <2>7 DEF Unindexed
<1>12. CASE DropRow(j)
  <2>1. /\ job[j].pc = "drop" /\ UNCHANGED <<files, vec, rules>> /\ Return(j)
        /\ rows' = [rows EXCEPT ![d] = NoRow]
    BY <1>1, <1>2, <1>5, <1>12 DEF DropRow, At, DeletesSucceed, StoresFollow
  <2>2. job'[j].pc = "idle"
    BY <1>2, <2>1, ReturnType DEF TypeOK, Idle
  <2>3. ~Exists(d)' /\ \A e \in DocId \ {d} : rows'[e] = rows[e]
    BY <1>2, <1>5, <2>1 DEF TypeOK, Exists, NoRow
  <2>4. ChunksFollowRows'
    <3>1. \A c \in Chip : \A b \in vec[c] : b.doc \in DocId /\ b.doc # d
      BY <1>2, <1>5, <2>1 DEF TypeOK, Batch, HasNoChunk
    <3> QED
      BY <1>2, <2>1, <2>3, <3>1 DEF StoresFollow, ChunksFollowRows, Exists
  <2>5. HashesAreUnique' /\ RowsFollowTheirContent' /\ FilesHoldTheirContent'
    BY <1>2, <2>1, <2>3 DEF StoresFollow, HashesAreUnique, RowsFollowTheirContent,
      FilesHoldTheirContent, Exists
  <2>6. StoresFollow'
    BY <1>2, <2>1, <2>4, <2>5 DEF StoresFollow
  <2>7. FileIsTheContent'
    <3> SUFFICES ASSUME NEW e \in DocId, Exists(e), e # d
                 PROVE  files[rows[e].path] = rows[e].hash
      BY <2>1, <2>3 DEF FileIsTheContent, Exists
    <3>1. ~Busy(e, {"drop"})
      BY <1>1, <1>4 DEF Busy
    <3> QED
      BY <3>1 DEF Agree, FileIsTheContent
  <2>8. CompletedIsSearchable'
    <3> SUFFICES ASSUME NEW e \in DocId, rows[e].status = "completed", e # d
                 PROVE  Searchable(e)'
      BY <2>3 DEF CompletedIsSearchable, Exists
    <3>1. Searchable(e)
      BY <1>8
    <3> QED
      BY <2>1, <2>3, <3>1 DEF Searchable
  <2>9. JobFollows(j)'
    BY <2>2 DEF JobFollows, Ingesting, Deleting
  <2> QED
    BY <1>7, <2>2, <2>6, <2>7, <2>8, <2>9 DEF Unindexed
<1> QED
  BY <1>10, <1>11, <1>12

\* A scenario's step is one of the document pipeline.
LEMMA ScenarioSteps == [ScenarioNext]_scenarioVars => [Next]_vars
BY DEF ScenarioNext, ScenarioCrash, ScenarioRequest, ScenarioStep, scenarioVars, Next, Request,
  Step, Work

AgreeInv == setting \in Settings /\ (Quiet => Agree)

LEMMA AgreeInductive ==
  IInv /\ AgreeInv /\ [ScenarioNext]_scenarioVars => AgreeInv'
<1> SUFFICES ASSUME IInv, AgreeInv, [ScenarioNext]_scenarioVars PROVE AgreeInv'
  OBVIOUS
<1>1. UNCHANGED setting
  BY DEF ScenarioNext, ScenarioCrash, ScenarioRequest, ScenarioStep, scenarioVars
<1>2. ASSUME Quiet PROVE Agree'
  <2>1. Agree /\ setting \in Settings /\ NothingIsShared /\ DeletesSucceed
    BY <1>2, QuietAssumption DEF AgreeInv
  <2>2. ASSUME NEW j \in Job, ScenarioRequest(j) PROVE Agree'
    BY <1>2, <2>1, <2>2, RequestAgrees
  <2>3. ASSUME NEW j \in Job, ScenarioStep(j) PROVE Agree'
    <3>1. CASE UploadSave(j)
      BY <1>1, <1>2, <2>1, <3>1, UploadSaveAgrees
    <3>2. CASE \/ Mark(j) \/ Read(j) \/ Link(j) \/ Enrich(j) \/ Finish(j) \/ MarkFailed(j)
               \/ (setting # "reingest" /\ StepFails(j))
      BY <1>1, <1>2, <2>1, <3>2, IngestStepAgrees
    <3>3. CASE Wipe(j) \/ Insert(j)
      BY <1>1, <1>2, <2>1, <3>3, UpsertAgrees
    <3>4. CASE Unindex(j) \/ Unlink(j) \/ DropRow(j)
      BY <1>1, <1>2, <2>1, <3>4, DeleteAgrees
    <3> QED
      BY <2>3, <3>1, <3>2, <3>3, <3>4 DEF ScenarioStep, Work
  <2>4. CASE UNCHANGED scenarioVars
    <3>1. UNCHANGED <<rows, files, vec, rules, job, setting>>
      BY <2>4 DEF scenarioVars, vars
    <3> QED
      BY <2>1, <3>1 DEF Agree, StoresFollow, HashesAreUnique, RowsFollowTheirContent,
        FilesHoldTheirContent, ChunksFollowRows, FileIsTheContent, CompletedIsSearchable,
        Searchable, Busy, HandlersFollow, JobFollows, UploadFollows, IngestFollows,
        DeleteFollows, FollowsRow, Indexed, HasNoChunk, Snap, OneAtATime, Exists
  <2> QED
    BY <1>2, <2>2, <2>3, <2>4 DEF ScenarioNext, ScenarioCrash, Quiet
<1> QED
  BY <1>1, <1>2 DEF AgreeInv, Quiet

LEMMA AgreeInit == ScenarioInit => AgreeInv
<1> SUFFICES ASSUME ScenarioInit PROVE Agree
  BY DEF AgreeInv, ScenarioInit
<1>1. /\ \A d \in DocId : ~Exists(d) /\ rows[d].status # "completed" /\ rules[d] = 0
      /\ \A p \in Path : files[p] = None
      /\ \A c \in Chip : vec[c] = {}
      /\ \A j \in Job : job[j].pc = "idle"
  BY DEF ScenarioInit, Init, Exists, NoRow, Idle
<1>2. StoresFollow /\ FileIsTheContent /\ CompletedIsSearchable
  BY <1>1 DEF StoresFollow, HashesAreUnique, RowsFollowTheirContent, FilesHoldTheirContent,
    ChunksFollowRows, FileIsTheContent, CompletedIsSearchable
<1>3. HandlersFollow
  BY <1>1 DEF HandlersFollow, JobFollows, OneAtATime, Ingesting, Deleting, Unindexed
<1> QED
  BY <1>2, <1>3 DEF Agree

\* A scenario is a run of the document pipeline: what holds however handlers
\* interleave, fail and crash holds in every scenario.
THEOREM ScenariosAreRuns == ScenarioSpec => Spec
<1>1. ScenarioInit => Init
  BY DEF ScenarioInit
<1> QED
  BY <1>1, ScenarioSteps, PTL DEF ScenarioSpec, Spec

\* Where documents share neither file name nor chip, completed means
\* searchable, no chunk is without its document and the file is the content
\* that was hashed: for one handler at a time, whatever it does and whichever
\* step of it fails, and for any number of overlapping ingestions while nothing
\* is deleted and no step fails.
THEOREM StoresAgree == ScenarioSpec => []RowsFilesAndChunksAgree
<1>1. AgreeInv => RowsFilesAndChunksAgree
  BY DEF AgreeInv, Agree, StoresFollow, ChunksFollowRows, Quiet, RowsFilesAndChunksAgree,
    NoOrphanChunks
<1>2. ScenarioSpec => []IInv
  BY ScenariosAreRuns, IInvAlways, PTL
<1>3. ScenarioInit => AgreeInv
  BY AgreeInit
<1> QED
  BY <1>1, <1>2, <1>3, AgreeInductive, PTL DEF ScenarioSpec
=============================================================================
