---------------------------- MODULE Background_proofs ---------------------------
(***************************************************************************)
(* Proofs about what goes on in the background of the queries: the intake  *)
(* of datasheets, the tasks of an ingestion, and the evaluations, for any  *)
(* number of paths, documents, runs and workers, and any faults.           *)
(***************************************************************************)
EXTENDS DatasheetIntake, EvalSampling, IngestionChain, EvalStore, EvalStatistics,
        Lists_proofs, FiniteSetTheorems, TLAPS

-----------------------------------------------------------------------------
(* The intake: no arrival is forgotten or ingested twice, and files are     *)
(* only damaged by races.  The books of the watchdog balance because an     *)
(* entry that process_pending works on is still there when its turn comes;  *)
(* the bounds of the counters follow from the books.  Files are safe        *)
(* because the crawler visits each link of a run once, and what it fetches  *)
(* was absent or has raced.                                                 *)

\* The copy process_pending works on names entries of _pending.
ReadyIsPending == \A p \in ready : pending[p] # NotPending

\* The crawler is at a link that is still to do, and has downloaded none of those.
LinksAreDoneOnce ==
  /\ crawl.does # "visits" => crawl.at \in crawl.todo
  /\ crawl.todo \cap crawl.downloaded = {}

\* What the crawler fetches is not there, unless it came meanwhile.
FetchesWhatIsAbsent ==
  crawl.does = "fetches" => disk[crawl.at] = "absent" \/ crawl.at \in raced

\* Who copies a file has begun to write it.
CopiesAreThere == \A p \in copying : disk[p] # "absent"

WatchTypeOK ==
  /\ pending \in [Path -> NotPending..Debounce] /\ ready \subseteq Path
  /\ submitted \in [Path -> [whole : 0..MaxCreations, early : 0..MaxCreations]]
  /\ created \in [Path -> 0..MaxCreations] /\ dropped \in [Path -> 0..MaxCreations]
  /\ watching \in BOOLEAN

Crawls == [todo : SUBSET Link, at : Link \cup {Nowhere}, downloaded : SUBSET Link,
           does : {"visits", "fetches", "writes"}]

FilesTypeOK ==
  /\ disk \in [Path -> {"absent", "partial", "whole"}]
  /\ copying \subseteq Path /\ raced \subseteq Path
  /\ crawl \in Crawls

WatchInv == WatchTypeOK /\ ReadyIsPending /\ ArrivalsAreAccounted
FilesInv ==
  /\ FilesTypeOK /\ DownloadsAreWhole /\ LinksAreDoneOnce /\ FetchesWhatIsAbsent /\ CopiesAreThere

LEMMA Bounds ==
  /\ Debounce \in Nat /\ Debounce # 0 /\ MaxCreations \in Nat /\ MaxCreations # 0
  /\ 0 \in NotPending..Debounce /\ NotPending \in NotPending..Debounce
  /\ 0 \in 0..MaxCreations
BY IntakeAssumption DEF NotPending

LEMMA IntakeInitInv == IntakeInit => WatchInv /\ FilesInv
<1>. SUFFICES ASSUME IntakeInit PROVE WatchInv /\ FilesInv
  OBVIOUS
<1>. USE IntakeAssumption DEF IntakeInit
<1>1. WatchTypeOK
  <2>1. pending \in [Path -> NotPending..Debounce] /\ ready \subseteq Path
    BY Bounds
  <2>2. submitted \in [Path -> [whole : 0..MaxCreations, early : 0..MaxCreations]]
    BY Bounds
  <2>3. created \in [Path -> 0..MaxCreations] /\ dropped \in [Path -> 0..MaxCreations]
    BY Bounds
  <2>. QED BY <2>1, <2>2, <2>3 DEF WatchTypeOK
<1>2. ReadyIsPending /\ ArrivalsAreAccounted
  BY DEF ReadyIsPending, ArrivalsAreAccounted, NotPending
<1>3. FilesTypeOK
  BY DEF FilesTypeOK, Crawls, CrawlStarts
<1>4. DownloadsAreWhole /\ LinksAreDoneOnce /\ FetchesWhatIsAbsent /\ CopiesAreThere
  BY DEF DownloadsAreWhole, LinksAreDoneOnce, FetchesWhatIsAbsent, CopiesAreThere, CrawlStarts
<1>. QED BY <1>1, <1>2, <1>3, <1>4 DEF WatchInv, FilesInv

-----------------------------------------------------------------------------
(* The books of the watchdog *)

\* What was accounted for stays within what may be created.
LEMMA OutcomesAreBounded ==
  ASSUME WatchInv, NEW p \in Path
  PROVE  /\ submitted[p].whole \in Nat /\ submitted[p].early \in Nat /\ dropped[p] \in Nat
         /\ submitted[p].whole + submitted[p].early + dropped[p]
              + (IF pending[p] = NotPending THEN 0 ELSE 1) <= MaxCreations
BY IntakeAssumption DEF WatchInv, WatchTypeOK, ArrivalsAreAccounted

\* A creation opens an entry; the one before it, if it still was there, is lost.
LEMMA CreationKeepsBooks ==
  ASSUME WatchInv, NEW p \in Path, MayCreate(p), FileCreated(p),
         UNCHANGED <<ready, submitted, watching>>
  PROVE  WatchInv'
<1>1. CASE watching /\ Noted(p)
  <2>1. /\ pending' = [pending EXCEPT ![p] = 0] /\ created' = [created EXCEPT ![p] = @ + 1]
        /\ dropped' = IF pending[p] = NotPending THEN dropped ELSE [dropped EXCEPT ![p] = @ + 1]
    BY <1>1 DEF FileCreated
  <2>2. WatchTypeOK'
    BY <2>1, OutcomesAreBounded, IntakeAssumption
       DEF WatchInv, WatchTypeOK, MayCreate, NotPending
  <2>3. ReadyIsPending'
    BY <2>1 DEF WatchInv, WatchTypeOK, ReadyIsPending, NotPending
  <2>4. ArrivalsAreAccounted'
    <3>. SUFFICES ASSUME NEW q \in Path
                  PROVE  created'[q] = submitted'[q].whole + submitted'[q].early + dropped'[q]
                                         + (IF pending'[q] = NotPending THEN 0 ELSE 1)
      BY DEF ArrivalsAreAccounted
    <3>0. created[q] = submitted[q].whole + submitted[q].early + dropped[q]
                         + (IF pending[q] = NotPending THEN 0 ELSE 1)
      BY DEF WatchInv, ArrivalsAreAccounted
    <3>1. CASE q # p
      <4>1. created'[q] = created[q] /\ dropped'[q] = dropped[q] /\ pending'[q] = pending[q]
        BY <2>1, <3>1 DEF WatchInv, WatchTypeOK
      <4>. QED BY <3>0, <4>1
    <3>2. CASE q = p
      <4>1. pending'[p] = 0 /\ created'[p] = created[p] + 1
        BY <2>1 DEF WatchInv, WatchTypeOK
      <4>2. dropped'[p] = dropped[p] + (IF pending[p] = NotPending THEN 0 ELSE 1)
        BY <2>1, OutcomesAreBounded DEF WatchInv, WatchTypeOK
      <4>. QED BY <3>0, <3>2, <4>1, <4>2, OutcomesAreBounded DEF NotPending
    <3>. QED BY <3>1, <3>2
  <2>. QED BY <2>2, <2>3, <2>4 DEF WatchInv
<1>2. CASE ~(watching /\ Noted(p))
  <2>1. UNCHANGED <<pending, created, dropped>>
    BY <1>2 DEF FileCreated
  <2>. QED BY <2>1 DEF WatchInv, WatchTypeOK, ReadyIsPending, ArrivalsAreAccounted
<1>. QED BY <1>1, <1>2

\* A submission closes the entry it is for, whatever was noted since the copy.
LEMMA SubmitKeepsBooks ==
  ASSUME WatchInv, NEW p \in Path, Submit(p)
  PROVE  WatchInv'
<1>1. pending[p] # NotPending /\ p \in ready
  BY DEF WatchInv, ReadyIsPending, Submit
<1>2. /\ submitted[p].whole + 1 \in 0..MaxCreations /\ submitted[p].early + 1 \in 0..MaxCreations
      /\ dropped[p] + 1 \in 0..MaxCreations
  BY <1>1, OutcomesAreBounded, IntakeAssumption
<1>3. /\ pending' = [pending EXCEPT ![p] = NotPending] /\ ready' = ready \ {p}
      /\ UNCHANGED <<created, watching>>
      /\ \/ /\ submitted' = [submitted EXCEPT ![p].whole = @ + 1] /\ dropped' = dropped
         \/ /\ submitted' = [submitted EXCEPT ![p].early = @ + 1] /\ dropped' = dropped
         \/ /\ dropped' = [dropped EXCEPT ![p] = @ + 1] /\ submitted' = submitted
  BY DEF Submit, WithoutEntry
<1>4. WatchTypeOK'
  BY <1>2, <1>3, IntakeAssumption DEF WatchInv, WatchTypeOK, NotPending
<1>5. ReadyIsPending'
  BY <1>3 DEF WatchInv, WatchTypeOK, ReadyIsPending
<1>6. ArrivalsAreAccounted'
  <2>. SUFFICES ASSUME NEW q \in Path
                PROVE  created'[q] = submitted'[q].whole + submitted'[q].early + dropped'[q]
                                       + (IF pending'[q] = NotPending THEN 0 ELSE 1)
    BY DEF ArrivalsAreAccounted
  <2>0. created[q] = submitted[q].whole + submitted[q].early + dropped[q]
                       + (IF pending[q] = NotPending THEN 0 ELSE 1)
    BY DEF WatchInv, ArrivalsAreAccounted
  <2>1. CASE q # p
    <3>1. /\ created'[q] = created[q] /\ submitted'[q] = submitted[q]
          /\ dropped'[q] = dropped[q] /\ pending'[q] = pending[q]
      BY <1>3, <2>1 DEF WatchInv, WatchTypeOK
    <3>. QED BY <2>0, <3>1
  <2>2. CASE q = p
    <3>1. /\ pending'[p] = NotPending /\ created'[p] = created[p]
          /\ \/ submitted'[p].whole = submitted[p].whole + 1
                /\ submitted'[p].early = submitted[p].early /\ dropped'[p] = dropped[p]
             \/ submitted'[p].early = submitted[p].early + 1
                /\ submitted'[p].whole = submitted[p].whole /\ dropped'[p] = dropped[p]
             \/ dropped'[p] = dropped[p] + 1 /\ submitted'[p] = submitted[p]
      BY <1>3 DEF WatchInv, WatchTypeOK
    <3>. QED BY <1>1, <2>0, <2>2, <3>1, OutcomesAreBounded
  <2>. QED BY <2>1, <2>2
<1>. QED BY <1>4, <1>5, <1>6 DEF WatchInv

\* The end of the process closes all entries as lost.
LEMMA WatcherDiesKeepsBooks ==
  ASSUME WatchInv, WatcherDies
  PROVE  WatchInv'
<1>. USE DEF WatcherDies
<1>1. \A p \in Path : dropped[p] + (IF pending[p] = NotPending THEN 0 ELSE 1) \in 0..MaxCreations
  BY OutcomesAreBounded, IntakeAssumption
<1>2. WatchTypeOK'
  <2>1. pending' \in [Path -> NotPending..Debounce] /\ ready' \subseteq Path /\ watching' \in BOOLEAN
    BY Bounds
  <2>2. dropped' \in [Path -> 0..MaxCreations]
    BY <1>1
  <2>. QED BY <2>1, <2>2 DEF WatchInv, WatchTypeOK
<1>3. ReadyIsPending'
  BY DEF ReadyIsPending
<1>4. ArrivalsAreAccounted'
  BY OutcomesAreBounded DEF WatchInv, WatchTypeOK, ArrivalsAreAccounted, NotPending
<1>. QED BY <1>2, <1>3, <1>4 DEF WatchInv

\* Time, and the copy.
LEMMA TickKeepsBooks ==
  ASSUME WatchInv, IntakeTick \/ TakePending \/ StartWatching
  PROVE  WatchInv'
<1>1. CASE IntakeTick
  <2>. USE <1>1 DEF IntakeTick
  <2>1. \A p \in Path : pending'[p] = NotPending <=> pending[p] = NotPending
    BY IntakeAssumption DEF WatchInv, WatchTypeOK, NotPending
  <2>2. WatchTypeOK'
    BY IntakeAssumption DEF WatchInv, WatchTypeOK, NotPending
  <2>3. ReadyIsPending' /\ ArrivalsAreAccounted'
    BY <2>1 DEF WatchInv, WatchTypeOK, ReadyIsPending, ArrivalsAreAccounted
  <2>. QED BY <2>2, <2>3 DEF WatchInv
<1>2. CASE TakePending
  <2>. USE <1>2 DEF TakePending
  <2>1. WatchTypeOK' /\ ArrivalsAreAccounted'
    BY DEF WatchInv, WatchTypeOK, ArrivalsAreAccounted
  <2>2. ReadyIsPending'
    BY IntakeAssumption DEF WatchInv, WatchTypeOK, ReadyIsPending, Due, NotPending
  <2>. QED BY <2>1, <2>2 DEF WatchInv
<1>3. CASE StartWatching
  BY <1>3 DEF StartWatching, WatchInv, WatchTypeOK, ReadyIsPending, ArrivalsAreAccounted
<1>. QED BY <1>1, <1>2, <1>3

LEMMA BooksUntouched ==
  ASSUME WatchInv, UNCHANGED <<pending, ready, submitted, created, dropped, watching>>
  PROVE  WatchInv'
BY DEF WatchInv, WatchTypeOK, ReadyIsPending, ArrivalsAreAccounted

LEMMA StepKeepsBooks == WatchInv /\ [IntakeNext]_intakeVars => WatchInv'
<1>. SUFFICES ASSUME WatchInv, [IntakeNext]_intakeVars PROVE WatchInv'
  OBVIOUS
<1>1. CASE StartWatching \/ IntakeTick \/ TakePending
  BY <1>1, TickKeepsBooks
<1>2. CASE WatcherDies
  BY <1>2, WatcherDiesKeepsBooks
<1>3. CASE CrawlAgain
  BY <1>3, BooksUntouched DEF CrawlAgain
<1>4. ASSUME NEW p \in Path, Submit(p) PROVE WatchInv'
  BY <1>4, SubmitKeepsBooks
<1>5. ASSUME NEW p \in Path, Fetched(p) PROVE WatchInv'
  <2>1. CASE UNCHANGED <<pending, created, dropped>>
    BY <1>5, <2>1, BooksUntouched DEF Fetched
  <2>2. CASE MayCreate(p) /\ FileCreated(p)
    BY <1>5, <2>2, CreationKeepsBooks DEF Fetched
  <2>. QED BY <1>5, <2>1, <2>2 DEF Fetched
<1>6. ASSUME NEW p \in Path, Copy(p) PROVE WatchInv'
  BY <1>6, CreationKeepsBooks DEF Copy, Arrives
<1>7. ASSUME NEW p \in Path, Visit(p) \/ Wrote(p) \/ CopyEnds(p) \/ MoveHere(p) \/ RemoveFile(p)
      PROVE  WatchInv'
  BY <1>7, BooksUntouched DEF Visit, Wrote, CopyEnds, MoveHere, RemoveFile
<1>8. CASE UNCHANGED intakeVars
  BY <1>8, BooksUntouched DEF intakeVars
<1>. QED BY <1>1, <1>2, <1>3, <1>4, <1>5, <1>6, <1>7, <1>8 DEF IntakeNext

\* Every creation the observer saw was submitted once, or its entry is pending
\* or was lost in one of the ways DatasheetIntake counts (watchdog_monitor.py).
THEOREM EveryArrivalIsAccounted == IntakeSpec => []ArrivalsAreAccounted
<1>1. WatchInv => ArrivalsAreAccounted
  BY DEF WatchInv
<1>2. IntakeInit => WatchInv
  BY IntakeInitInv
<1>. QED BY <1>1, <1>2, StepKeepsBooks, PTL DEF IntakeSpec

-----------------------------------------------------------------------------
(* The files *)

LEMMA LinksArePaths == Link \subseteq Path
BY IntakeAssumption DEF Path

\* What the records that EXCEPT builds from crawl hold.
LEMMA LinkDoneIs ==
  ASSUME FilesTypeOK, NEW p
  PROVE  /\ LinkDone(p) \in Crawls
         /\ LinkDone(p).todo = crawl.todo \ {p} /\ LinkDone(p).at = Nowhere
         /\ LinkDone(p).does = "visits" /\ LinkDone(p).downloaded = crawl.downloaded
BY DEF FilesTypeOK, Crawls, LinkDone

LEMMA VisitKeepsFiles ==
  ASSUME FilesInv, NEW p \in Path, Visit(p)
  PROVE  FilesInv'
<1>1. UNCHANGED <<disk, copying, raced>> /\ crawl.does = "visits" /\ p \in crawl.todo
  BY DEF Visit, Visits
<1>2. CASE NotYetThere(p)
  <2>1. crawl' = [crawl EXCEPT !.at = p, !.does = "fetches"]
    BY <1>2 DEF Visit
  <2>2. /\ crawl' \in Crawls /\ crawl'.todo = crawl.todo /\ crawl'.at = p
        /\ crawl'.does = "fetches" /\ crawl'.downloaded = crawl.downloaded
    BY <1>1, <2>1 DEF FilesInv, FilesTypeOK, Crawls
  <2>. QED BY <1>1, <1>2, <2>2 DEF FilesInv, FilesTypeOK, DownloadsAreWhole, LinksAreDoneOnce,
                                    FetchesWhatIsAbsent, CopiesAreThere, NotYetThere
<1>3. CASE ~NotYetThere(p)
  <2>1. crawl' = LinkDone(p)
    BY <1>3 DEF Visit
  <2>. QED BY <1>1, <2>1, LinkDoneIs DEF FilesInv, FilesTypeOK, DownloadsAreWhole,
                                    LinksAreDoneOnce, FetchesWhatIsAbsent, CopiesAreThere
<1>. QED BY <1>2, <1>3

LEMMA FetchedKeepsFiles ==
  ASSUME FilesInv, NEW p \in Path, Fetched(p)
  PROVE  FilesInv'
<1>1. /\ UNCHANGED <<copying, raced>> /\ crawl.does = "fetches" /\ crawl.at = p
      /\ p \in crawl.todo
  BY DEF Fetched, FilesInv, LinksAreDoneOnce
<1>2. CASE crawl' = LinkDone(p) /\ UNCHANGED disk
  BY <1>1, <1>2, LinkDoneIs DEF FilesInv, FilesTypeOK, DownloadsAreWhole, LinksAreDoneOnce,
                                FetchesWhatIsAbsent, CopiesAreThere
<1>3. CASE crawl' = [crawl EXCEPT !.does = "writes"] /\ disk' = [disk EXCEPT ![p] = "partial"]
  <2>1. /\ crawl' \in Crawls /\ crawl'.todo = crawl.todo /\ crawl'.at = crawl.at
        /\ crawl'.does = "writes" /\ crawl'.downloaded = crawl.downloaded
    BY <1>3 DEF FilesInv, FilesTypeOK, Crawls
  <2>2. /\ disk' \in [Path -> {"absent", "partial", "whole"}] /\ disk'[p] = "partial"
        /\ \A q \in Path : q # p => disk'[q] = disk[q]
    BY <1>3 DEF FilesInv, FilesTypeOK
  <2>3. FilesTypeOK' /\ LinksAreDoneOnce' /\ FetchesWhatIsAbsent'
    BY <1>1, <2>1, <2>2 DEF FilesInv, FilesTypeOK, LinksAreDoneOnce, FetchesWhatIsAbsent
  <2>4. DownloadsAreWhole' /\ CopiesAreThere'
    BY <1>1, <2>1, <2>2, LinksArePaths
       DEF FilesInv, FilesTypeOK, Crawls, DownloadsAreWhole, LinksAreDoneOnce, CopiesAreThere
  <2>. QED BY <2>3, <2>4 DEF FilesInv
<1>. QED BY <1>2, <1>3 DEF Fetched

LEMMA WroteKeepsFiles ==
  ASSUME FilesInv, NEW p \in Path, Wrote(p)
  PROVE  FilesInv'
<1>1. /\ UNCHANGED <<copying, raced>> /\ crawl.does = "writes" /\ crawl.at = p
      /\ p \in crawl.todo /\ p \notin crawl.downloaded /\ p \in Link
  BY DEF Wrote, FilesInv, FilesTypeOK, Crawls, LinksAreDoneOnce
<1>2. CASE /\ disk' = IF p \in copying THEN disk ELSE [disk EXCEPT ![p] = "whole"]
           /\ crawl' = [LinkDone(p) EXCEPT !.downloaded = @ \cup {p}]
  <2>1. /\ crawl' \in Crawls /\ crawl'.todo = crawl.todo \ {p} /\ crawl'.at = Nowhere
        /\ crawl'.does = "visits" /\ crawl'.downloaded = crawl.downloaded \cup {p}
    BY <1>1, <1>2, LinkDoneIs DEF FilesInv, Crawls
  <2>2. /\ disk' \in [Path -> {"absent", "partial", "whole"}]
        /\ p \in copying \/ disk'[p] = "whole"
        /\ \A q \in Path : q # p => disk'[q] = disk[q]
        /\ p \in copying => disk'[p] = disk[p]
    BY <1>2 DEF FilesInv, FilesTypeOK
  <2>3. FilesTypeOK' /\ LinksAreDoneOnce' /\ FetchesWhatIsAbsent'
    BY <1>1, <2>1, <2>2 DEF FilesInv, FilesTypeOK, LinksAreDoneOnce, FetchesWhatIsAbsent
  <2>4. DownloadsAreWhole' /\ CopiesAreThere'
    BY <1>1, <2>1, <2>2, LinksArePaths
       DEF FilesInv, FilesTypeOK, Crawls, DownloadsAreWhole, CopiesAreThere
  <2>. QED BY <2>3, <2>4 DEF FilesInv
<1>3. CASE crawl' = FailedWrite(p) /\ UNCHANGED disk
  BY <1>1, <1>3, LinkDoneIs DEF FailedWrite, FilesInv, FilesTypeOK, DownloadsAreWhole,
                                LinksAreDoneOnce, FetchesWhatIsAbsent, CopiesAreThere
<1>. QED BY <1>2, <1>3 DEF Wrote

LEMMA CrawlAgainKeepsFiles ==
  ASSUME FilesInv, CrawlAgain
  PROVE  FilesInv'
<1>1. PICK links \in {Link, {}} : crawl' = [CrawlStarts EXCEPT !.todo = links]
  BY DEF CrawlAgain
<1>2. /\ crawl' \in Crawls /\ crawl'.does = "visits" /\ crawl'.downloaded = {}
  BY <1>1 DEF CrawlStarts, Crawls
<1>. QED BY <1>2 DEF CrawlAgain, FilesInv, FilesTypeOK, DownloadsAreWhole, LinksAreDoneOnce,
                     FetchesWhatIsAbsent, CopiesAreThere

\* Another writer touches one path, and the crawler is where it was.
LEMMA OthersKeepFiles ==
  ASSUME FilesInv, NEW p \in Path,
         Copy(p) \/ CopyEnds(p) \/ MoveHere(p) \/ RemoveFile(p)
  PROVE  FilesInv'
<1>. USE DEF FilesInv, FilesTypeOK, DownloadsAreWhole, LinksAreDoneOnce, FetchesWhatIsAbsent,
             CopiesAreThere
<1>1. CASE Copy(p)
  BY <1>1, LinksArePaths DEF Copy, Arrives, Crawls
<1>2. CASE CopyEnds(p)
  BY <1>2, LinksArePaths DEF CopyEnds, Crawls
<1>3. CASE MoveHere(p)
  BY <1>3, LinksArePaths DEF MoveHere, Arrives, Crawls
<1>4. CASE RemoveFile(p)
  BY <1>4, LinksArePaths DEF RemoveFile, Crawls
<1>. QED BY <1>1, <1>2, <1>3, <1>4

LEMMA FilesUntouched ==
  ASSUME FilesInv, UNCHANGED <<disk, copying, crawl, raced>>
  PROVE  FilesInv'
BY DEF FilesInv, FilesTypeOK, DownloadsAreWhole, LinksAreDoneOnce, FetchesWhatIsAbsent,
       CopiesAreThere

LEMMA StepKeepsFiles == FilesInv /\ [IntakeNext]_intakeVars => FilesInv'
<1>. SUFFICES ASSUME FilesInv, [IntakeNext]_intakeVars PROVE FilesInv'
  OBVIOUS
<1>1. CASE StartWatching \/ WatcherDies \/ IntakeTick \/ TakePending
  BY <1>1, FilesUntouched DEF StartWatching, WatcherDies, IntakeTick, TakePending
<1>2. CASE CrawlAgain
  BY <1>2, CrawlAgainKeepsFiles
<1>3. ASSUME NEW p \in Path, Submit(p) PROVE FilesInv'
  BY <1>3, FilesUntouched DEF Submit
<1>4. ASSUME NEW p \in Path, Visit(p) \/ Fetched(p) \/ Wrote(p) PROVE FilesInv'
  BY <1>4, VisitKeepsFiles, FetchedKeepsFiles, WroteKeepsFiles
<1>5. ASSUME NEW p \in Path, Copy(p) \/ CopyEnds(p) \/ MoveHere(p) \/ RemoveFile(p)
      PROVE  FilesInv'
  BY <1>5, OthersKeepFiles
<1>6. CASE UNCHANGED intakeVars
  BY <1>6, FilesUntouched DEF intakeVars
<1>. QED BY <1>1, <1>2, <1>3, <1>4, <1>5, <1>6 DEF IntakeNext

\* A file that is whole is opened for writing by the crawler only, after it
\* found the path empty.
LEMMA StepOverwritesOnlyRaced ==
  ASSUME FilesInv, [IntakeNext]_intakeVars
  PROVE  \A p \in Path : disk[p] = "whole" /\ disk'[p] = "partial" => p \in raced
<1>. SUFFICES ASSUME NEW p \in Path, disk[p] = "whole", disk'[p] = "partial" PROVE p \in raced
  OBVIOUS
<1>1. ASSUME NEW q \in Path, Fetched(q) PROVE p \in raced
  BY <1>1 DEF Fetched, FilesInv, FilesTypeOK, FetchesWhatIsAbsent
<1>2. ASSUME NEW q \in Path,
             \/ Submit(q) \/ Visit(q) \/ Wrote(q) \/ Copy(q) \/ CopyEnds(q)
             \/ MoveHere(q) \/ RemoveFile(q)
      PROVE  FALSE
  BY <1>2 DEF Submit, Visit, Wrote, Copy, CopyEnds, MoveHere, RemoveFile, Arrives,
              FilesInv, FilesTypeOK
<1>3. disk' # disk
  OBVIOUS
<1>. QED BY <1>1, <1>2, <1>3 DEF IntakeNext, intakeVars, StartWatching, WatcherDies, IntakeTick,
                                TakePending, CrawlAgain

\* A file that is whole stays so, and what the crawler calls downloaded is
\* whole, but for those who write the same file at the same time (crawler.py).
THEOREM FilesAreOnlyDamagedByRaces == IntakeSpec => OnlyRacesDamageFiles
<1>1. IntakeInit => WatchInv /\ FilesInv
  BY IntakeInitInv
<1>2. WatchInv /\ FilesInv => IntakeTypeOK /\ DownloadsAreWhole
  BY DEF WatchInv, FilesInv, WatchTypeOK, FilesTypeOK, Crawls, IntakeTypeOK
<1>3. FilesInv /\ [IntakeNext]_intakeVars
        => [\A p \in Path : disk[p] = "whole" /\ disk'[p] = "partial" => p \in raced]_intakeVars
  BY StepOverwritesOnlyRaced
<1>. QED
  BY <1>1, <1>2, <1>3, StepKeepsBooks, StepKeepsFiles, PTL
     DEF IntakeSpec, OnlyRacesDamageFiles, OnlyRacesOverwrite

-----------------------------------------------------------------------------
(* The sampler: its semaphore is neither overdrawn nor lost.  The balance   *)
(* of permits and evaluations is inductive once it is known that only the   *)
(* sampler's evaluations wait for the semaphore.                            *)

Judging == {e \in Online : stage[e] = "judging"}

\* Only what the sampler started waits for a permit.
WaitersAreOnline == \A e \in Evaluation : stage[e] = "waiting" => e \in Online

PermitInv ==
  /\ stage \in [Evaluation ->
                  {"idle", "waiting", "judging", "stored", "skipped", "failed", "lost"}]
  /\ permits \in Nat
  /\ WaitersAreOnline
  /\ OnlineIsLimited

\* What is judged for the sampler can be counted, and one more or less.
LEMMA JudgingIsFinite ==
  /\ IsFiniteSet(Judging) /\ Cardinality(Judging) \in Nat
  /\ \A e \in Online \ Judging : Cardinality(Judging \cup {e}) = Cardinality(Judging) + 1
  /\ \A e \in Judging : Cardinality(Judging \ {e}) = Cardinality(Judging) - 1
<1>1. IsFiniteSet(Judging)
  BY SamplingAssumption, FS_Subset DEF Judging
<1>. QED BY <1>1, FS_CardinalityType, FS_AddElement, FS_RemoveElement

LEMMA SamplingInitInv == SamplingInit => PermitInv
<1>. SUFFICES ASSUME SamplingInit PROVE PermitInv
  OBVIOUS
<1>1. {e \in Online : stage[e] = "judging"} = {}
  BY SamplingAssumption DEF SamplingInit
<1>2. OnlineIsLimited
  <2>1. permits = MaxParallel /\ MaxParallel \in Nat /\ Cardinality({}) = 0
    BY SamplingAssumption, FS_EmptySet DEF SamplingInit
  <2>. QED BY <1>1, <2>1 DEF OnlineIsLimited
<1>. QED BY <1>2, SamplingAssumption DEF SamplingInit, PermitInv, WaitersAreOnline

\* The balance, from what a step does to the permits and to the set.
LEMMA BalanceIsKept ==
  ASSUME PermitInv, permits' \in Nat,
         permits' + Cardinality(Judging') = permits + Cardinality(Judging)
  PROVE  OnlineIsLimited'
BY DEF PermitInv, OnlineIsLimited, Judging

LEMMA EnterKeepsBalance ==
  ASSUME PermitInv, NEW e \in Evaluation, Enter(e)
  PROVE  PermitInv'
<1>. USE DEF PermitInv
<1>1. /\ e \in Online \ Judging /\ permits > 0 /\ permits' = permits - 1
      /\ stage' = [stage EXCEPT ![e] = "judging"]
  BY DEF Enter, MayEnter, WaitersAreOnline, Judging
<1>2. Judging' = Judging \cup {e}
  BY <1>1, SamplingAssumption DEF Judging
<1>3. OnlineIsLimited'
  BY <1>1, <1>2, JudgingIsFinite, BalanceIsKept
<1>. QED BY <1>1, <1>3 DEF WaitersAreOnline

LEMMA EndKeepsBalance ==
  ASSUME PermitInv, NEW e \in Evaluation, EndEvaluation(e)
  PROVE  PermitInv'
<1>. USE DEF PermitInv
<1>1. PICK ended \in {"stored", "failed"} : /\ stage' = [stage EXCEPT ![e] = ended]
                                            /\ permits' = PermitsAfter(e, ended)
  BY DEF EndEvaluation
<1>2. stage[e] = "judging"
  BY DEF EndEvaluation
<1>3. CASE e \in Online
  <2>1. Judging' = Judging \ {e} /\ e \in Judging /\ permits' = permits + 1
    BY <1>1, <1>2, <1>3, SamplingAssumption DEF Judging, PermitsAfter
  <2>. QED BY <1>1, <2>1, JudgingIsFinite, BalanceIsKept DEF WaitersAreOnline
<1>4. CASE e \notin Online
  <2>1. Judging' = Judging /\ permits' = permits
    BY <1>1, <1>4, SamplingAssumption DEF Judging, PermitsAfter
  <2>. QED BY <1>1, <2>1, BalanceIsKept DEF WaitersAreOnline
<1>. QED BY <1>3, <1>4

\* Steps that neither take nor give a permit.
LEMMA OthersKeepBalance ==
  ASSUME PermitInv, NEW e \in Evaluation, Schedule(e) \/ StartItem(e) \/ JudgeAnswers(e)
  PROVE  PermitInv'
<1>. USE DEF PermitInv
<1>1. Judging' = Judging /\ permits' = permits
  BY SamplingAssumption DEF Schedule, StartItem, JudgeAnswers, Judging
<1>2. /\ stage' \in [Evaluation ->
                       {"idle", "waiting", "judging", "stored", "skipped", "failed", "lost"}]
      /\ WaitersAreOnline'
  BY DEF Schedule, StartItem, JudgeAnswers, WaitersAreOnline
<1>. QED BY <1>1, <1>2, BalanceIsKept

LEMMA ExitKeepsBalance ==
  ASSUME PermitInv, Exit
  PROVE  PermitInv'
<1>1. {e \in Online : stage'[e] = "judging"} = {}
  BY SamplingAssumption DEF Exit, PermitInv
<1>2. OnlineIsLimited'
  <2>1. permits' = MaxParallel /\ MaxParallel \in Nat /\ Cardinality({}) = 0
    BY SamplingAssumption, FS_EmptySet DEF Exit
  <2>. QED BY <1>1, <2>1 DEF OnlineIsLimited
<1>. QED BY <1>2, SamplingAssumption DEF Exit, PermitInv, WaitersAreOnline

LEMMA StepKeepsBalance == PermitInv /\ [SamplingNext]_evalsVars => PermitInv'
<1>. SUFFICES ASSUME PermitInv, [SamplingNext]_evalsVars PROVE PermitInv'
  OBVIOUS
<1>1. CASE Exit
  BY <1>1, ExitKeepsBalance
<1>2. ASSUME NEW e \in Evaluation, StepOf(e) PROVE PermitInv'
  BY <1>2, EnterKeepsBalance, EndKeepsBalance, OthersKeepBalance DEF StepOf
<1>3. CASE UNCHANGED evalsVars
  BY <1>3 DEF evalsVars, PermitInv, WaitersAreOnline, OnlineIsLimited
<1>. QED BY <1>1, <1>2, <1>3 DEF SamplingNext

\* Whatever is sampled, judged, stored and lost, no more than MaxParallel of the
\* sampler's evaluations are judging at a time, and the semaphore is back to its
\* full count when none is (online_sampler.py, _run_one).
THEOREM PermitsAreNeverLost == SamplingSpec => []OnlineIsLimited
<1>1. PermitInv => OnlineIsLimited
  BY DEF PermitInv
<1>. QED BY <1>1, SamplingInitInv, StepKeepsBalance, PTL DEF SamplingSpec

-----------------------------------------------------------------------------
(* The chain of an ingestion: DocumentOK says, for each task, what has been  *)
(* done of a document so far, or what excuses that it was not.              *)

\* What is known of a document, d, that is at its n-th task: what has been done
\* so far was done or is excused.
DocumentOK(c, n, d) ==
  /\ n <= 3 => ~d.text
  /\ n <= 6 => ~d.chunks
  /\ n <= 8 => ~d.vectors
  /\ n <= 9 => ~d.stored
  /\ d.skipped => ~(d.text \/ d.chunks \/ d.vectors \/ d.stored)
  /\ (d.chunks => d.text) /\ (d.vectors => d.chunks)
  /\ d.skipped \/ d.error \/ c \in Blank \/
       (/\ n > 3 => d.text
        /\ n > 6 => d.chunks
        /\ n > 8 => d.vectors)

Journey == [at : 1..11, tries : 0..MaxRetries, doc : Document,
            state : {"queued", "running", "failed", "completed"}]

ChainInv ==
  /\ chain \in [Chain -> Journey]
  /\ progress \in [ProgressKey -> [status : {"none", "running", "completed"}, expires : BOOLEAN]]
  /\ viewer \in [Viewer -> [of : Followed, state : {"open", "notFound", "told"}, saw : BOOLEAN]]
  /\ deaths \in 0..MaxDeaths
  /\ \A c \in Chain : DocumentOK(c, chain[c].at, Doc(c))

LEMMA TasksAre ==
  /\ DOMAIN Tasks = 1..11
  /\ \A n \in 1..11 :
       /\ Tasks[n] = "download" => n = 1
       /\ Tasks[n] = "dedup" => n = 2
       /\ Tasks[n] = "text" => n = 3
       /\ Tasks[n] = "tables" => n = 4
       /\ Tasks[n] = "chunk" => n = 6
       /\ Tasks[n] = "vectors" => n = 8
       /\ Tasks[n] = "metadata" => n = 9
       /\ n = 3 => Tasks[n] = "text"
       /\ n = 6 => Tasks[n] = "chunk"
       /\ n = 8 => Tasks[n] = "vectors"
BY DEF Tasks

LEMMA ErrorIsSet ==
  ASSUME NEW d \in Document, NEW b \in BOOLEAN, NEW e, e = [d EXCEPT !.error = b]
  PROVE  /\ e \in Document /\ e.error = b
         /\ e.skipped = d.skipped /\ e.text = d.text /\ e.chunks = d.chunks
         /\ e.vectors = d.vectors /\ e.stored = d.stored
BY DEF Document

LEMMA TextIsSet ==
  ASSUME NEW d \in Document, NEW b \in BOOLEAN, NEW e, e = [d EXCEPT !.text = b]
  PROVE  /\ e \in Document /\ e.text = b
         /\ e.skipped = d.skipped /\ e.error = d.error /\ e.chunks = d.chunks
         /\ e.vectors = d.vectors /\ e.stored = d.stored
BY DEF Document

LEMMA ChunksIsSet ==
  ASSUME NEW d \in Document, NEW b \in BOOLEAN, NEW e, e = [d EXCEPT !.chunks = b]
  PROVE  /\ e \in Document /\ e.chunks = b
         /\ e.skipped = d.skipped /\ e.error = d.error /\ e.text = d.text
         /\ e.vectors = d.vectors /\ e.stored = d.stored
BY DEF Document

LEMMA VectorsIsSet ==
  ASSUME NEW d \in Document, NEW b \in BOOLEAN, NEW e, e = [d EXCEPT !.vectors = b]
  PROVE  /\ e \in Document /\ e.vectors = b
         /\ e.skipped = d.skipped /\ e.error = d.error /\ e.text = d.text
         /\ e.chunks = d.chunks /\ e.stored = d.stored
BY DEF Document

LEMMA StoredIsSet ==
  ASSUME NEW d \in Document, NEW b \in BOOLEAN, NEW e, e = [d EXCEPT !.stored = b]
  PROVE  /\ e \in Document /\ e.stored = b
         /\ e.skipped = d.skipped /\ e.error = d.error /\ e.text = d.text
         /\ e.chunks = d.chunks /\ e.vectors = d.vectors
BY DEF Document

\* An error excuses whatever has not been done.
LEMMA ErrorExcuses ==
  ASSUME NEW d \in Document, NEW c, NEW n \in 1..10, DocumentOK(c, n, d)
  PROVE  /\ [d EXCEPT !.error = TRUE] \in Document
         /\ DocumentOK(c, n + 1, [d EXCEPT !.error = TRUE])
<1>1. PICK e : e = [d EXCEPT !.error = TRUE]
  OBVIOUS
<1>2. /\ e \in Document /\ e.error = TRUE /\ e.skipped = d.skipped /\ e.text = d.text
      /\ e.chunks = d.chunks /\ e.vectors = d.vectors /\ e.stored = d.stored
  BY <1>1, ErrorIsSet, TRUE \in BOOLEAN, Zenon
<1>3. DocumentOK(c, n + 1, e)
  BY <1>2 DEF DocumentOK
<1>. QED BY <1>1, <1>2, <1>3

LEMMA ChainInitInv == ChainInit => ChainInv
<1>. SUFFICES ASSUME ChainInit PROVE ChainInv
  OBVIOUS
<1>1. chain \in [Chain -> Journey] /\ \A c \in Chain : DocumentOK(c, chain[c].at, Doc(c))
  BY ChainAssumption DEF ChainInit, Journey, Document, DocumentOK, Doc
<1>2. progress \in [ProgressKey -> [status : {"none", "running", "completed"}, expires : BOOLEAN]]
  BY DEF ChainInit, Absent
<1>3. viewer \in [Viewer -> [of : Followed, state : {"open", "notFound", "told"}, saw : BOOLEAN]]
  BY DEF ChainInit
<1>. QED BY <1>1, <1>2, <1>3, ChainAssumption DEF ChainInv, ChainInit

\* A step that leaves the documents, their places and the viewers alone.
LEMMA PlaceKeepsInv ==
  ASSUME ChainInv, NEW c \in Chain, NEW st \in {"queued", "running", "failed", "completed"},
         NEW tr \in 0..MaxRetries,
         \/ chain' = [chain EXCEPT ![c].state = st]
         \/ chain' = [chain EXCEPT ![c].state = st, ![c].tries = tr]
  PROVE  /\ chain' \in [Chain -> Journey]
         /\ \A x \in Chain : DocumentOK(x, chain'[x].at, chain'[x].doc)
<1>1. chain' \in [Chain -> Journey]
      /\ \A x \in Chain : chain'[x].at = chain[x].at /\ chain'[x].doc = chain[x].doc
  BY DEF ChainInv, Journey
<1>. QED BY <1>1 DEF ChainInv, Doc

LEMMA HandOnKeepsInv ==
  ASSUME ChainInv, NEW c \in Chain, NEW doc \in Document, HandOn(c, doc),
         chain[c].at \in 1..10, DocumentOK(c, chain[c].at + 1, doc),
         UNCHANGED <<progress, viewer, deaths>>
  PROVE  ChainInv'
<1>1. chain \in [Chain -> Journey]
  BY DEF ChainInv
<1>2. chain' = [chain EXCEPT ![c] =
        [at |-> chain[c].at + 1, tries |-> 0, doc |-> doc, state |-> "queued"]]
  BY DEF HandOn
<1>3. [at |-> chain[c].at + 1, tries |-> 0, doc |-> doc, state |-> "queued"] \in Journey
  BY ChainAssumption DEF Journey
<1>4. chain' \in [Chain -> Journey]
  BY <1>1, <1>2, <1>3
<1>5. \A x \in Chain : DocumentOK(x, chain'[x].at, chain'[x].doc)
  BY <1>1, <1>2 DEF ChainInv, Doc
<1>. QED BY <1>4, <1>5 DEF ChainInv, Doc

LEMMA ProcessKeepsInv ==
  ASSUME ChainInv, NEW c \in Chain, Process(c)
  PROVE  ChainInv'
<1>1. PICK n \in 3..10, d \in Document : n = chain[c].at /\ d = Doc(c)
  BY DEF Process, ChainInv, Journey, Doc
<1>2. DocumentOK(c, n, d)
  BY <1>1 DEF ChainInv
<1>3. UNCHANGED <<progress, viewer, deaths>>
  BY DEF Process
<1>4. ASSUME NEW doc \in Document, HandOn(c, doc), DocumentOK(c, n + 1, doc)
      PROVE  ChainInv'
  BY <1>1, <1>3, <1>4, HandOnKeepsInv
<1>5. CASE d.skipped
  <2>1. HandOn(c, d)
    BY <1>1, <1>5 DEF Process, Passes
  <2>2. DocumentOK(c, n + 1, d)
    BY <1>2, <1>5 DEF DocumentOK
  <2>. QED BY <1>4, <2>1, <2>2
<1>6. CASE ~d.skipped
  <2>0. ~Passes(c)
    BY <1>1, <1>6 DEF Passes
  <2>1. CASE n = 3
    <3>1. PICK doc \in Extracted(c) : HandOn(c, doc)
      BY <1>1, <2>0, <2>1, TasksAre DEF Process, TaskIs
    <3>2. doc = [d EXCEPT !.text = c \notin Blank] \/ doc = [d EXCEPT !.error = TRUE]
      BY <1>1, <3>1 DEF Extracted
    <3>3. CASE doc = [d EXCEPT !.text = c \notin Blank]
      <4>1. PICK b \in BOOLEAN : b = (c \notin Blank)
        OBVIOUS
      <4>2. doc = [d EXCEPT !.text = b]
        BY <3>3, <4>1
      <4>3. /\ doc \in Document /\ doc.text = b /\ doc.skipped = d.skipped /\ doc.error = d.error
            /\ doc.chunks = d.chunks /\ doc.vectors = d.vectors /\ doc.stored = d.stored
        BY <4>2, TextIsSet, Zenon
      <4>4. DocumentOK(c, n + 1, doc)
        <5>1. CASE c \in Blank
          BY <1>2, <1>6, <2>1, <4>3, <5>1 DEF DocumentOK
        <5>2. CASE b = TRUE
          BY <1>2, <1>6, <2>1, <4>3, <5>2 DEF DocumentOK
        <5>. QED BY <4>1, <5>1, <5>2
      <4>. QED BY <1>4, <3>1, <4>3, <4>4
    <3>4. CASE doc = [d EXCEPT !.error = TRUE]
      BY <1>2, <1>4, <1>6, <2>1, <3>1, <3>4, ErrorExcuses
    <3>. QED BY <3>2, <3>3, <3>4
  <2>2. CASE n = 6
    <3>1. PICK doc \in Chunked(c) : HandOn(c, doc)
      BY <1>1, <2>0, <2>2, TasksAre DEF Process, TaskIs
    <3>2. doc = [d EXCEPT !.chunks = d.chunks \/ d.text] \/ doc = [d EXCEPT !.error = TRUE]
      BY <1>1, <3>1 DEF Chunked, Document
    <3>3. CASE doc = [d EXCEPT !.chunks = d.chunks \/ d.text]
      <4>1. PICK b \in BOOLEAN : b = (d.chunks \/ d.text)
        OBVIOUS
      <4>2. doc = [d EXCEPT !.chunks = b]
        BY <3>3, <4>1
      <4>3. /\ doc \in Document /\ doc.chunks = b /\ doc.skipped = d.skipped /\ doc.error = d.error
            /\ doc.text = d.text /\ doc.vectors = d.vectors /\ doc.stored = d.stored
        BY <4>2, ChunksIsSet, Zenon
      <4>4. DocumentOK(c, n + 1, doc)
        <5>1. CASE d.chunks \/ d.text
          <6>1. doc.chunks = TRUE
            BY <4>1, <4>3, <5>1
          <6>. QED BY <1>2, <1>6, <2>2, <4>3, <5>1, <6>1 DEF DocumentOK
        <5>2. CASE ~(d.chunks \/ d.text)
          <6>1. doc.chunks = FALSE
            BY <4>1, <4>3, <5>2
          <6>. QED BY <1>2, <1>6, <2>2, <4>3, <5>2, <6>1 DEF DocumentOK
        <5>. QED BY <5>1, <5>2
      <4>. QED BY <1>4, <3>1, <4>3, <4>4
    <3>4. CASE doc = [d EXCEPT !.error = TRUE]
      BY <1>2, <1>4, <1>6, <2>2, <3>1, <3>4, ErrorExcuses
    <3>. QED BY <3>2, <3>3, <3>4
  <2>3. CASE n = 8
    <3>1. HandOn(c, [d EXCEPT !.vectors = d.chunks])
      BY <1>1, <2>0, <2>3, TasksAre DEF Process, TaskIs
    <3>2. PICK doc : doc = [d EXCEPT !.vectors = d.chunks]
      OBVIOUS
    <3>3. /\ doc \in Document /\ doc.vectors = d.chunks /\ doc.skipped = d.skipped
          /\ doc.error = d.error /\ doc.text = d.text /\ doc.chunks = d.chunks
          /\ doc.stored = d.stored
      BY <3>2, VectorsIsSet DEF Document
    <3>4. DocumentOK(c, n + 1, doc)
      BY <1>2, <1>6, <2>3, <3>3 DEF DocumentOK
    <3>. QED BY <1>4, <3>1, <3>2, <3>3, <3>4
  <2>4. CASE n \in {4, 5, 7, 9, 10}
    <3>1. ~TaskIs(c, "text") /\ ~TaskIs(c, "chunk") /\ ~TaskIs(c, "vectors")
      BY <1>1, <2>4, TasksAre DEF TaskIs
    <3>2. TaskIs(c, "tables") => n = 4
      BY <1>1, TasksAre DEF TaskIs
    <3>3. TaskIs(c, "metadata") => n = 9
      BY <1>1, TasksAre DEF TaskIs
    <3>4. \/ HandOn(c, d)
          \/ HandOn(c, [d EXCEPT !.error = TRUE])
          \/ n = 9 /\ HandOn(c, [d EXCEPT !.stored = TRUE])
      BY <1>1, <2>0, <3>1, <3>3 DEF Process, WithTables
    <3>5. DocumentOK(c, n + 1, d)
      BY <1>2, <2>4 DEF DocumentOK
    <3>6. CASE HandOn(c, [d EXCEPT !.error = TRUE])
      BY <1>2, <1>4, <1>6, <2>4, <3>6, ErrorExcuses
    <3>7. CASE n = 9 /\ HandOn(c, [d EXCEPT !.stored = TRUE])
      <4>1. PICK doc : doc = [d EXCEPT !.stored = TRUE]
        OBVIOUS
      <4>2. /\ doc \in Document /\ doc.stored = TRUE /\ doc.skipped = d.skipped
            /\ doc.error = d.error /\ doc.text = d.text /\ doc.chunks = d.chunks
            /\ doc.vectors = d.vectors
        BY <4>1, StoredIsSet, TRUE \in BOOLEAN, Zenon
      <4>3. DocumentOK(c, n + 1, doc)
        BY <1>2, <1>6, <3>7, <4>2 DEF DocumentOK
      <4>. QED BY <1>4, <3>7, <4>1, <4>2, <4>3
    <3>. QED BY <1>4, <3>4, <3>5, <3>6, <3>7
  <2>. QED BY <2>1, <2>2, <2>3, <2>4
<1>. QED BY <1>1, <1>5, <1>6

LEMMA EarlyTasksKeepInv ==
  ASSUME ChainInv, NEW c \in Chain, Download(c) \/ Dedup(c) \/ WorkerDies(c)
  PROVE  ChainInv'
<1>1. PICK n \in 1..11, d \in Document, tr \in 0..MaxRetries :
        n = chain[c].at /\ d = Doc(c) /\ tr = chain[c].tries
  BY DEF ChainInv, Journey, Doc
<1>2. DocumentOK(c, n, d)
  BY <1>1 DEF ChainInv
<1>3. ASSUME NEW doc \in Document, HandOn(c, doc), DocumentOK(c, n + 1, doc), n \in 1..10,
             UNCHANGED <<progress, viewer, deaths>>
      PROVE  ChainInv'
  BY <1>1, <1>3, HandOnKeepsInv
<1>4. CASE Download(c)
  <2>1. n = 1 /\ UNCHANGED <<progress, viewer, deaths>>
    BY <1>1, <1>4, TasksAre DEF Download, TaskIs
  <2>2. CASE HandOn(c, Doc(c))
    <3>1. DocumentOK(c, n + 1, d)
      BY <1>2, <2>1 DEF DocumentOK
    <3>. QED BY <1>1, <1>3, <2>1, <2>2, <3>1
  <2>3. CASE chain[c].tries < MaxRetries
             /\ chain' = [chain EXCEPT ![c].state = "queued", ![c].tries = @ + 1]
    <3>1. tr + 1 \in 0..MaxRetries
          /\ chain' = [chain EXCEPT ![c].state = "queued", ![c].tries = tr + 1]
      BY <1>1, <2>3, ChainAssumption DEF ChainInv
    <3>. QED BY <2>1, <3>1, PlaceKeepsInv DEF ChainInv, Doc
  <2>4. CASE chain' = [chain EXCEPT ![c].state = "failed"]
    BY <2>1, <2>4, PlaceKeepsInv, <1>1 DEF ChainInv, Doc
  <2>. QED BY <1>4, <2>2, <2>3, <2>4 DEF Download
<1>5. CASE Dedup(c)
  <2>1. n = 2 /\ UNCHANGED <<progress, viewer, deaths>>
    BY <1>1, <1>5, TasksAre DEF Dedup, TaskIs
  <2>2. HandOn(c, d) \/ HandOn(c, [d EXCEPT !.error = TRUE, !.skipped = TRUE])
    BY <1>1, <1>5 DEF Dedup
  <2>3. DocumentOK(c, n + 1, d)
    BY <1>2, <2>1 DEF DocumentOK
  <2>4. ASSUME NEW b \in BOOLEAN, NEW doc, doc = [d EXCEPT !.error = b, !.skipped = b]
        PROVE  /\ doc \in Document /\ doc.skipped = b /\ doc.error = b /\ doc.text = d.text
               /\ doc.chunks = d.chunks /\ doc.vectors = d.vectors /\ doc.stored = d.stored
    BY <2>4 DEF Document
  <2>5. PICK doc : doc = [d EXCEPT !.error = TRUE, !.skipped = TRUE]
    OBVIOUS
  <2>6. /\ doc \in Document /\ doc.skipped = TRUE /\ doc.error = TRUE /\ doc.text = d.text
        /\ doc.chunks = d.chunks /\ doc.vectors = d.vectors /\ doc.stored = d.stored
    BY <2>4, <2>5, TRUE \in BOOLEAN, Zenon
  <2>7. DocumentOK(c, n + 1, doc)
    BY <1>2, <2>1, <2>6 DEF DocumentOK
  <2>. QED BY <1>3, <2>1, <2>2, <2>3, <2>5, <2>6, <2>7
<1>6. CASE WorkerDies(c)
  <2>1. /\ UNCHANGED <<progress, viewer>> /\ deaths' \in 0..MaxDeaths
        /\ \E st \in {"failed", "queued"} : chain' = [chain EXCEPT ![c].state = st]
    BY <1>6, ChainAssumption DEF WorkerDies, ChainInv
  <2>. QED BY <2>1, PlaceKeepsInv, <1>1 DEF ChainInv, Doc
<1>. QED BY <1>4, <1>5, <1>6

LEMMA ReportsKeepInv ==
  ASSUME ChainInv, NEW c \in Chain, StartTask(c) \/ Notify(c)
  PROVE  ChainInv'
<1>. DEFINE Report == [status : {"none", "running", "completed"}, expires : BOOLEAN]
<1>1. PICK tr \in 0..MaxRetries : tr = chain[c].tries
  BY DEF ChainInv, Journey
<1>2. CASE StartTask(c)
  <2>1. chain' = [chain EXCEPT ![c].state = "running"] /\ UNCHANGED <<viewer, deaths>>
    BY <1>2 DEF StartTask
  <2>2. progress' \in [ProgressKey -> Report]
    <3>. DEFINE key == <<c, chain[c].at>>
    <3>1. CASE UNCHANGED progress
      BY <3>1 DEF ChainInv
    <3>2. CASE key \in Followed
               /\ progress' = [progress EXCEPT ![key] = [status |-> "running", expires |-> TRUE]]
      BY <3>2 DEF ChainInv, ProgressKey
    <3>3. CASE key \in Followed
               /\ progress' = [progress EXCEPT ![key] = [@ EXCEPT !.status = "running"]]
      BY <3>3 DEF ChainInv, ProgressKey
    <3>. QED BY <1>2, <3>1, <3>2, <3>3 DEF StartTask
  <2>. QED BY <1>1, <2>1, <2>2, PlaceKeepsInv DEF ChainInv, Doc
<1>3. CASE Notify(c)
  <2>1. chain' = [chain EXCEPT ![c].state = "completed"] /\ UNCHANGED <<viewer, deaths>>
    BY <1>3 DEF Notify
  <2>2. progress' \in [ProgressKey -> Report]
    <3>1. progress \in [ProgressKey -> Report] /\ NoTask \in ProgressKey
      BY DEF ChainInv, ProgressKey
    <3>2. ASSUME NEW b \in BOOLEAN
          PROVE  [progress EXCEPT ![NoTask] = [status |-> "completed", expires |-> b]]
                   \in [ProgressKey -> Report]
      BY <3>1
    <3>. QED BY <1>3, <3>1, <3>2, FALSE \in BOOLEAN, Zenon DEF Notify
  <2>. QED BY <1>1, <2>1, <2>2, PlaceKeepsInv DEF ChainInv, Doc
<1>. QED BY <1>2, <1>3

LEMMA WatchingKeepsInv ==
  ASSUME ChainInv,
         (\E v \in Viewer : PollProgress(v)) \/ (\E k \in ProgressKey : ProgressExpires(k))
  PROVE  ChainInv'
<1>1. ASSUME NEW v \in Viewer, PollProgress(v) PROVE ChainInv'
  <2>1. progress[viewer[v].of].status \in {"none", "running", "completed"}
    BY DEF ChainInv, ProgressKey
  <2>2. \/ viewer' = [viewer EXCEPT ![v].state = "notFound"]
        \/ viewer' = [viewer EXCEPT ![v].saw = TRUE]
        \/ viewer' = [viewer EXCEPT ![v].state = "told"]
    BY <1>1, <2>1 DEF PollProgress
  <2>3. viewer' \in [Viewer -> [of : Followed, state : {"open", "notFound", "told"}, saw : BOOLEAN]]
    BY <2>2 DEF ChainInv
  <2>. QED BY <1>1, <2>3 DEF PollProgress, ChainInv, Doc
<1>2. ASSUME NEW k \in ProgressKey, ProgressExpires(k) PROVE ChainInv'
  BY <1>2 DEF ProgressExpires, Absent, ChainInv, Doc
<1>. QED BY <1>1, <1>2

LEMMA ChainStepKeepsInv == ChainInv /\ [ChainNext]_chainVars => ChainInv'
<1>. SUFFICES ASSUME ChainInv, [ChainNext]_chainVars PROVE ChainInv'
  OBVIOUS
<1>1. CASE UNCHANGED chainVars
  BY <1>1 DEF chainVars, ChainInv, Doc
<1>. QED BY <1>1, ProcessKeepsInv, EarlyTasksKeepInv, ReportsKeepInv, WatchingKeepsInv
         DEF ChainNext, ChainStep

LEMMA ChainInvSuffices == ChainInv => StoredIsExplained
<1>. SUFFICES ASSUME ChainInv PROVE StoredIsExplained
  OBVIOUS
<1>1. ChainTypeOK
  BY TasksAre DEF ChainInv, ChainTypeOK, Journey
<1>2. ASSUME NEW c \in Chain
      PROVE  /\ Doc(c).stored /\ ~Doc(c).vectors => Doc(c).error \/ c \in Blank
             /\ Doc(c).skipped => ~(Doc(c).text \/ Doc(c).chunks \/ Doc(c).stored)
             /\ Doc(c).vectors => Doc(c).text /\ Doc(c).chunks
  <2>1. PICK n \in 1..11, d \in Document : n = chain[c].at /\ d = Doc(c) /\ DocumentOK(c, n, d)
    BY DEF ChainInv, Journey, Doc
  <2>. QED BY <2>1 DEF DocumentOK
<1>. QED BY <1>1, <1>2 DEF StoredIsExplained, EmptyIsExplained, SkippedLeavesNothing

\* Whatever fails in the middle of the chain, and however often a worker dies and
\* its task is run again: a document without vectors says why, and one that was
\* skipped leaves nothing.
THEOREM ChainsExplainThemselves == ChainSpec => []StoredIsExplained
<1>. QED BY ChainInitInv, ChainStepKeepsInv, ChainInvSuffices, PTL DEF ChainSpec

-----------------------------------------------------------------------------
(* The records of the evaluations: a record is what its judges said, and     *)
(* what they said does not change after the last of them answered.          *)

\* A record is what its judges said, and there is none before.
RecordInv ==
  /\ sample \in [Evaluation -> Samples] /\ judge \in {"unresolved", "ready", "none"}
  /\ exits \in 0..MaxExits
  /\ DOMAIN said = Evaluation /\ DOMAIN stored = Evaluation
  /\ \A e \in Evaluation :
       /\ DOMAIN said[e] \subseteq Judges
       /\ \A j \in DOMAIN said[e] : said[e][j] \in Replies
  /\ \A e \in Evaluation :
       /\ stage[e] = "stored" => stored[e] = Merged(e) /\ Unanswered(e) = {}
       /\ stage[e] # "stored" => stored[e] = <<>>

OnScale(f) == 0 <= f[1] /\ f[1] <= f[2] /\ f[2] > 0

\* A score is a fraction of the scale, or there is none.
LEMMA ScoresAreOnScale ==
  ASSUME NEW j, NEW r \in Replies
  PROVE  /\ Score(j, r) = {} \/ \E f : Score(j, r) = {f} /\ OnScale(f)
         /\ r = Silence => Score(j, r) = {}
<1>1. CASE r.score # {}
  <2>1. Pick(r.score) \in r.score
    BY <1>1 DEF Pick
  <2>2. PICK n \in Int : n = Pick(r.score)
    BY <2>1, SamplingAssumption
  <2>3. Clamp(n) \in 0..4
    BY <2>2 DEF Clamp
  <2>4. Score(j, r) = {<<Clamp(n), 4>>}
    BY <1>1, <2>2 DEF Score
  <2>5. OnScale(<<Clamp(n), 4>>)
    BY <2>3 DEF OnScale
  <2>. QED BY <1>1, <2>4, <2>5 DEF Silence
<1>2. CASE r.score = {} /\ r.counts # {}
  <2>1. PICK a \in Nat, b \in Nat : Pick(r.counts) = <<a, b>>
    <3>1. Pick(r.counts) \in r.counts
      BY <1>2 DEF Pick
    <3>. QED BY <3>1, SamplingAssumption
  <2>2. r # Silence
    BY <1>2 DEF Silence
  <2>3. CASE j = "answer_relevancy"
    <3>1. Score(j, r) = {<<Clamp(a - 1), 4>>}
      BY <1>2, <2>1, <2>3 DEF Score, Rating
    <3>2. Clamp(a - 1) \in 0..4
      BY DEF Clamp
    <3>3. OnScale(<<Clamp(a - 1), 4>>)
      BY <3>2 DEF OnScale
    <3>. QED BY <2>2, <3>1, <3>3
  <2>4. CASE j # "answer_relevancy"
    <3>1. Score(j, r) = IF a + b > 0 THEN {<<a, a + b>>} ELSE {}
      BY <1>2, <2>1, <2>4 DEF Score, Share
    <3>2. a + b > 0 => OnScale(<<a, a + b>>)
      BY DEF OnScale
    <3>. QED BY <2>2, <3>1, <3>2
  <2>. QED BY <2>3, <2>4
<1>3. CASE r.score = {} /\ r.counts = {}
  BY <1>3 DEF Score
<1>. QED BY <1>1, <1>2, <1>3

\* A set of what a list holds has no more elements than the list.
LEMMA ToSetIsBounded ==
  ASSUME NEW T, NEW s \in Seq(T)
  PROVE  Cardinality(ToSet(s)) \in 0..Len(s)
<1>1. PICK n \in Nat : n = Len(s)
  OBVIOUS
<1>2. s \in Surjection(1..n, ToSet(s))
  BY <1>1 DEF Surjection, ToSet
<1>3. IsFiniteSet(1..n) /\ Cardinality(1..n) = n
  BY FS_Interval
<1>4. IsFiniteSet(ToSet(s)) /\ Cardinality(ToSet(s)) <= n
  BY <1>2, <1>3, FS_Surjection
<1>. QED BY <1>1, <1>4, FS_CardinalityType

LEMMA CustomsAreOnScale ==
  ASSUME NEW x \in Customs, NEW s \in Samples
  PROVE  \E f : Custom(x, s) = {f} /\ OnScale(f)
<1>1. /\ s.contexts \in Seq(BOOLEAN) /\ s.citations \in Seq(STRING) /\ s.iterations \in Nat
      /\ MaxK \in Nat \ {0} /\ MaxIterations \in Nat \ {0, 1}
  BY SamplingAssumption
<1>2. CASE x = "citation_coverage"
  <2>1. Custom(x, s) = {Coverage(s)}
    BY <1>2 DEF Custom
  <2>2. CASE s.contexts = <<>> \/ ~s.answer
    <3>1. Coverage(s) = <<0, 1>>
      BY <2>2 DEF Coverage
    <3>2. OnScale(Coverage(s))
      BY <3>1 DEF OnScale
    <3>. QED BY <2>1, <3>2
  <2>3. CASE ~(s.contexts = <<>> \/ ~s.answer)
    <3>. DEFINE n == LeastNat(Len(s.contexts), MaxK)
                used == {i \in 1..n : s.contexts[i]}
    <3>0. Len(s.contexts) \in Nat \ {0}
      BY <1>1, <2>3
    <3>1. n \in Nat \ {0}
      BY <1>1, <3>0 DEF LeastNat
    <3>. HIDE DEF n
    <3>2. IsFiniteSet(1..n) /\ Cardinality(1..n) = n
      BY <3>1, FS_Interval
    <3>3. used \in SUBSET (1..n)
      OBVIOUS
    <3>4. IsFiniteSet(used) /\ Cardinality(used) <= n
      BY <3>2, <3>3, FS_Subset
    <3>5. Cardinality(used) \in Nat
      BY <3>4, FS_CardinalityType
    <3>6. Coverage(s) = <<Cardinality(used), n>>
      BY <2>3 DEF Coverage, n
    <3>7. OnScale(Coverage(s))
      BY <3>1, <3>4, <3>5, <3>6 DEF OnScale
    <3>. QED BY <2>1, <3>7
  <2>. QED BY <2>2, <2>3
<1>3. CASE x = "citation_diversity"
  <2>1. Custom(x, s) = {Diversity(s)}
    BY <1>3 DEF Custom
  <2>2. CASE s.citations = <<>>
    <3>1. Diversity(s) = <<0, 1>>
      BY <2>2 DEF Diversity
    <3>2. OnScale(Diversity(s))
      BY <3>1 DEF OnScale
    <3>. QED BY <2>1, <3>2
  <2>3. CASE s.citations # <<>>
    <3>1. Diversity(s) = <<Cardinality(ToSet(s.citations)), Len(s.citations)>>
      BY <2>3 DEF Diversity
    <3>2. Cardinality(ToSet(s.citations)) \in 0..Len(s.citations)
      BY <1>1, ToSetIsBounded
    <3>3. Len(s.citations) \in Nat \ {0}
      BY <1>1, <2>3
    <3>4. OnScale(Diversity(s))
      BY <3>1, <3>2, <3>3 DEF OnScale
    <3>. QED BY <2>1, <3>4
  <2>. QED BY <2>2, <2>3
<1>4. CASE x = "agent_efficiency"
  <2>1. Custom(x, s) = {Efficiency(s)}
    BY <1>4 DEF Custom
  <2>2. PICK used \in Nat \ {0} : used = IF s.iterations = 0 THEN 1 ELSE s.iterations
    BY <1>1
  <2>3. Efficiency(s) =
          <<MaxIterations - 1 - LeastNat(used - 1, MaxIterations - 1), MaxIterations - 1>>
    BY <2>2 DEF Efficiency
  <2>4. LeastNat(used - 1, MaxIterations - 1) \in 0..(MaxIterations - 1)
    BY <1>1, <2>2 DEF LeastNat
  <2>5. PICK least \in 0..(MaxIterations - 1) :
          Efficiency(s) = <<MaxIterations - 1 - least, MaxIterations - 1>>
    BY <2>3, <2>4
  <2>6. /\ 0 <= MaxIterations - 1 - least
        /\ MaxIterations - 1 - least <= MaxIterations - 1
        /\ MaxIterations - 1 > 0
    BY <1>1, <2>5
  <2>7. OnScale(Efficiency(s))
    <3>. DEFINE rest == MaxIterations - 1 - least
                 whole == MaxIterations - 1
    <3>1. Efficiency(s) = <<rest, whole>> /\ 0 <= rest /\ rest <= whole /\ whole > 0
      BY <2>5, <2>6
    <3>. HIDE DEF rest, whole
    <3>. QED BY <3>1 DEF OnScale
  <2>. QED BY <2>1, <2>7
<1>. QED BY <1>2, <1>3, <1>4 DEF Customs

\* What the record of an evaluation whose judges are done can hold.
LEMMA RecordsAreEarned ==
  ASSUME PermitInv, RecordInv, NEW e \in Evaluation, Unanswered(e) = {}
  PROVE  /\ DOMAIN Merged(e) = Judged(e) \cup (Wanted[e] \cap Customs)
         /\ \A x \in DOMAIN Merged(e) :
              /\ Merged(e)[x] = {} \/ \E f : Merged(e)[x] = {f} /\ OnScale(f)
              /\ x \in Judges /\ Merged(e)[x] # {} => x \in DOMAIN said[e] /\ said[e][x] # Silence
<1>1. DOMAIN Merged(e) = Judged(e) \cup (Wanted[e] \cap Customs)
  BY DEF Merged
<1>2. ASSUME NEW x \in DOMAIN Merged(e), x \in Customs
      PROVE  /\ \E f : Merged(e)[x] = {f} /\ OnScale(f)
             /\ x \notin Judges
  <2>1. Merged(e)[x] = Custom(x, sample[e])
    BY <1>1, <1>2 DEF Merged
  <2>2. sample[e] \in Samples
    BY DEF RecordInv
  <2>. QED BY <1>2, <2>1, <2>2, CustomsAreOnScale DEF Judges, Customs
<1>3. ASSUME NEW x \in DOMAIN Merged(e), x \notin Customs
      PROVE  /\ Merged(e)[x] = {} \/ \E f : Merged(e)[x] = {f} /\ OnScale(f)
             /\ Merged(e)[x] # {} => x \in DOMAIN said[e] /\ said[e][x] # Silence
  <2>1. Merged(e)[x] = IF x \in AskedJudges(e) THEN Score(x, said[e][x]) ELSE {}
    BY <1>1, <1>3 DEF Merged
  <2>2. CASE x \in AskedJudges(e)
    <3>1. x \in DOMAIN said[e]
      BY <2>2 DEF Unanswered
    <3>2. said[e][x] \in Replies
      BY <3>1 DEF RecordInv
    <3>. QED BY <2>1, <2>2, <3>1, <3>2, ScoresAreOnScale
  <2>. QED BY <2>1, <2>2
<1>. QED BY <1>1, <1>2, <1>3

LEMMA RecordInitInv == SamplingInit => RecordInv
<1>. SUFFICES ASSUME SamplingInit PROVE RecordInv
  OBVIOUS
<1>1. \A e \in Evaluation : said[e] = <<>> /\ DOMAIN said[e] = {}
  BY DEF SamplingInit
<1>. QED BY <1>1, SamplingAssumption DEF SamplingInit, RecordInv

\* What a record would hold depends on the sample and on what was said.
LEMMA MergedIsKept ==
  ASSUME NEW e, sample' = sample, said'[e] = said[e]
  PROVE  Merged(e)' = Merged(e) /\ Unanswered(e)' = Unanswered(e)
<1>1. Judged(e)' = Judged(e)
  BY DEF Judged
<1>2. AskedJudges(e)' = AskedJudges(e)
  BY <1>1 DEF AskedJudges
<1>3. Unanswered(e)' = Unanswered(e)
  BY <1>2 DEF Unanswered
<1>. QED BY <1>1, <1>2, <1>3 DEF Merged

\* A step that makes no record and hears no judge.
LEMMA OthersKeepRecords ==
  ASSUME RecordInv, UNCHANGED <<sample, said, stored>>,
         judge' \in {"unresolved", "ready", "none"}, exits' \in 0..MaxExits,
         \A e \in Evaluation : stage'[e] = "stored" <=> stage[e] = "stored"
  PROVE  RecordInv'
BY MergedIsKept DEF RecordInv

LEMMA AnswerKeepsRecords ==
  ASSUME PermitInv, RecordInv, NEW e \in Evaluation, JudgeAnswers(e)
  PROVE  RecordInv'
<1>1. PICK j \in Unanswered(e), r \in Replies :
        said' = [said EXCEPT ![e] = [k \in DOMAIN said[e] \cup {j} |->
                                       IF k = j THEN r ELSE said[e][k]]]
  BY DEF JudgeAnswers
<1>2. UNCHANGED <<stage, sample, judge, permits, stored, exits>> /\ stage[e] = "judging"
  BY DEF JudgeAnswers
<1>3. j \in Judges
  BY DEF Unanswered, AskedJudges, Judged
<1>4. DOMAIN said' = Evaluation
  BY <1>1 DEF RecordInv
<1>5. \A x \in Evaluation : x # e => said'[x] = said[x]
  BY <1>1 DEF RecordInv
<1>6. said'[e] = [k \in DOMAIN said[e] \cup {j} |-> IF k = j THEN r ELSE said[e][k]]
  BY <1>1 DEF RecordInv
<1>7. ASSUME NEW x \in Evaluation
      PROVE  /\ DOMAIN said'[x] \subseteq Judges
             /\ \A k \in DOMAIN said'[x] : said'[x][k] \in Replies
  BY <1>3, <1>5, <1>6 DEF RecordInv
<1>8. ASSUME NEW x \in Evaluation
      PROVE  /\ stage'[x] = "stored" => stored'[x] = Merged(x)' /\ Unanswered(x)' = {}
             /\ stage'[x] # "stored" => stored'[x] = <<>>
  <2>1. CASE x = e
    BY <1>2, <2>1 DEF RecordInv
  <2>2. CASE x # e
    BY <1>2, <1>5, <2>2, MergedIsKept DEF RecordInv
  <2>. QED BY <2>1, <2>2
<1>. QED BY <1>2, <1>4, <1>7, <1>8 DEF RecordInv

LEMMA EndKeepsRecords ==
  ASSUME PermitInv, RecordInv, NEW e \in Evaluation, EndEvaluation(e)
  PROVE  RecordInv'
<1>1. /\ UNCHANGED <<sample, judge, said, exits>> /\ stage[e] = "judging" /\ Unanswered(e) = {}
      /\ DOMAIN stage = Evaluation
  BY DEF EndEvaluation, PermitInv
<1>2. \/ stage' = [stage EXCEPT ![e] = "stored"] /\ stored' = [stored EXCEPT ![e] = Merged(e)]
      \/ stage' = [stage EXCEPT ![e] = "failed"] /\ stored' = stored
  BY DEF EndEvaluation
<1>3. DOMAIN stored' = Evaluation /\ \A x \in Evaluation : x # e => stored'[x] = stored[x]
  BY <1>2 DEF RecordInv
<1>4. \A x \in Evaluation : Merged(x)' = Merged(x) /\ Unanswered(x)' = Unanswered(x)
  BY <1>1, MergedIsKept
<1>5. ASSUME NEW x \in Evaluation
      PROVE  /\ stage'[x] = "stored" => stored'[x] = Merged(x) /\ Unanswered(x) = {}
             /\ stage'[x] # "stored" => stored'[x] = <<>>
  BY <1>1, <1>2, <1>3 DEF RecordInv
<1>. QED BY <1>1, <1>3, <1>4, <1>5 DEF RecordInv

LEMMA StepKeepsRecords == PermitInv /\ RecordInv /\ [SamplingNext]_evalsVars => RecordInv'
<1>. SUFFICES ASSUME PermitInv, RecordInv, [SamplingNext]_evalsVars PROVE RecordInv'
  OBVIOUS
<1>1. CASE Exit
  <2>1. /\ UNCHANGED <<sample, said, stored>> /\ judge' = "unresolved"
        /\ exits' \in 0..MaxExits
    BY <1>1, SamplingAssumption DEF Exit, RecordInv
  <2>2. \A e \in Evaluation : stage'[e] = "stored" <=> stage[e] = "stored"
    BY <1>1 DEF Exit
  <2>. QED BY <2>1, <2>2, OthersKeepRecords
<1>2. ASSUME NEW e \in Evaluation, Schedule(e) \/ Enter(e) \/ StartItem(e) PROVE RecordInv'
  <2>1. UNCHANGED <<sample, said, stored, exits>>
    BY <1>2 DEF Schedule, Enter, StartItem
  <2>2. judge' \in {"unresolved", "ready", "none"}
    BY <1>2 DEF Schedule, Enter, StartItem, Resolved, RecordInv
  <2>3. /\ stage[e] \in {"idle", "waiting"}
        /\ \E s \in {"waiting", "skipped", "judging"} : stage' = [stage EXCEPT ![e] = s]
    BY <1>2 DEF Schedule, Enter, MayEnter, StartItem
  <2>4. \A x \in Evaluation : stage'[x] = "stored" <=> stage[x] = "stored"
    BY <2>3 DEF PermitInv
  <2>. QED BY <2>1, <2>2, <2>4, OthersKeepRecords DEF RecordInv
<1>3. CASE UNCHANGED evalsVars
  BY <1>3, OthersKeepRecords DEF evalsVars, RecordInv
<1>. QED BY <1>1, <1>2, <1>3, AnswerKeepsRecords, EndKeepsRecords DEF SamplingNext, StepOf

LEMMA RecordsSuffice == PermitInv /\ RecordInv => ScoresAreEarned
<1>. SUFFICES ASSUME PermitInv, RecordInv PROVE ScoresAreEarned
  OBVIOUS
<1>1. permits \in 0..MaxParallel
  BY JudgingIsFinite, SamplingAssumption DEF PermitInv, OnlineIsLimited, Judging
<1>2. ASSUME NEW e \in Evaluation
      PROVE  /\ DOMAIN stored[e] \subseteq Judges \cup Customs
             /\ \A x \in DOMAIN stored[e] :
                  stored[e][x] = {} \/ \E f : stored[e][x] = {f} /\ OnScale(f)
  <2>1. CASE stage[e] = "stored"
    BY <2>1, RecordsAreEarned DEF RecordInv, Judged
  <2>2. CASE stage[e] # "stored"
    BY <2>2 DEF RecordInv
  <2>. QED BY <2>1, <2>2
<1>3. SamplingTypeOK
  <2>1. \A e \in Evaluation : \A x \in DOMAIN stored[e] : Cardinality(stored[e][x]) <= 1
    <3>1. Cardinality({}) = 0 /\ \A f : Cardinality({f}) = 1
      BY FS_EmptySet, FS_Singleton
    <3>2. ASSUME NEW e \in Evaluation, NEW x \in DOMAIN stored[e]
          PROVE  Cardinality(stored[e][x]) <= 1
      <4>1. CASE stored[e][x] = {}
        BY <3>1, <4>1
      <4>2. CASE \E f : stored[e][x] = {f}
        <5>1. PICK f : stored[e][x] = {f}
          BY <4>2
        <5>2. Cardinality(stored[e][x]) = Cardinality({f})
          BY <5>1
        <5>. QED BY <3>1, <5>2
      <4>. QED BY <1>2, <4>1, <4>2
    <3>. QED BY <3>2
  <2>. QED BY <1>1, <1>2, <2>1 DEF SamplingTypeOK, PermitInv, RecordInv
<1>4. FailedJudgesAreNotZeros
  <2>. SUFFICES ASSUME NEW e \in Evaluation, stage[e] = "stored"
                PROVE  /\ DOMAIN stored[e] \cup {"context_recall"} = Wanted[e] \cup {"context_recall"}
                       /\ \A j \in DOMAIN stored[e] \cap Judges : stored[e][j] # {} =>
                            j \in DOMAIN said[e] /\ said[e][j] # Silence
    BY DEF FailedJudgesAreNotZeros
  <2>1. stored[e] = Merged(e) /\ Unanswered(e) = {}
    BY DEF RecordInv
  <2>2. DOMAIN stored[e] = Judged(e) \cup (Wanted[e] \cap Customs)
    BY <2>1, RecordsAreEarned
  <2>3. Wanted[e] \subseteq Judges \cup Customs
    BY SamplingAssumption
  <2>4. DOMAIN stored[e] \cup {"context_recall"} = Wanted[e] \cup {"context_recall"}
    BY <2>2, <2>3 DEF Judged
  <2>. QED BY <2>1, <2>4, RecordsAreEarned
<1>5. ScoresAreFractions
  BY <1>2 DEF ScoresAreFractions, OnScale
<1>. QED BY <1>3, <1>4, <1>5 DEF ScoresAreEarned

\* Whatever the judges say or fail to say: every score of a record was earned and
\* lies on the scale, and what could not be judged has none (judge.py,
\* custom_metrics.py).
THEOREM RecordsTellTheTruth == SamplingSpec => []ScoresAreEarned
<1>. QED BY SamplingInitInv, StepKeepsBalance, RecordInitInv, StepKeepsRecords, RecordsSuffice, PTL
         DEF SamplingSpec

-----------------------------------------------------------------------------
(***************************************************************************)
(* Batches.  What keeps the lines of one process apart is that nobody of   *)
(* that process runs between the read of update_batch and its rename: so   *)
(* what a rewriter has read is still what the file says of everybody who   *)
(* did not overlap with another process, but for its own line, and the     *)
(* file about to be renamed is what its writer has read.  EvalInv says so, *)
(* with what a run's counters and the lines it wrote have in common.       *)
(***************************************************************************)

RunType == [pc : EvalPC, n : Nat, done : Nat, failed : Nat, final : BOOLEAN, rows : Seq(Line)]

\* A run that has tried to append its line.
Begun(b) == batchRun[b].pc \notin {"idle", "append"}

\* A run that has its line, unless others lost it.
Recorded == {"replay", "collect", "read", "write", "rename", "ended"}

CountsOK(b) ==
  LET r == batchRun[b] IN
    /\ r.failed <= r.done /\ r.done <= r.n /\ r.n <= Sample[b]
    /\ evalFile[b] <= r.done - r.failed
    /\ r.final => r.done = r.n
    /\ r.pc = "collect" => r.done < r.n
    /\ r.pc \in {"idle", "append", "replay"} => r.n = 0 /\ ~r.final
    /\ r.pc = "ended" => r.final
    /\ r.pc = "collect" => ~r.final

\* What a line says adds up.
LineOK(line) ==
  /\ line.total = Sample[line.id]
  /\ Final(line) =>
       /\ line.done <= line.total /\ line.scored <= line.done - line.failed
       /\ line.status = "succeeded" <=> line.failed < line.done

\* Lines are of runs that have begun, and outcomes of runs that came to theirs.
Sound(X) ==
  \A i \in DOMAIN X :
    Begun(X[i].id) /\ LineOK(X[i]) /\ (Final(X[i]) => batchRun[X[i].id].final)

BatchTypes ==
  /\ batchFile \in Seq(Line)
  /\ batchTmp = {} \/ \E X \in Seq(Line) : batchTmp = {X}
  /\ evalFile \in [Batch -> Nat]
  /\ batchRun \in [Batch -> RunType]
  /\ answer \in [Batch -> Batch \cup {Unknown, "none"}]
  /\ overlapped \subseteq Batch

LinesOK ==
  /\ Sound(batchFile)
  /\ \A X \in batchTmp : Sound(X)
  /\ \A c \in Batch : Sound(batchRun[c].rows)

Has(X, i, b) == i \in DOMAIN X /\ X[i].id = b

\* X and Y say the same of b.
Same(X, Y, b) == \A i \in Nat : (Has(X, i, b) <=> Has(Y, i, b)) /\ (Has(X, i, b) => X[i] = Y[i])

\* Two processes that rewrite the file overlap, one process rewrites it once.
RewritersOverlap ==
  \A a, c \in Batch : Rewriting(a) /\ Rewriting(c) /\ a # c => {a, c} \subseteq overlapped

\* What a rewriter has read is still what the file says of everybody who did
\* not overlap, but for its own line, which is updated.
RowsAreCurrent(c) ==
  Rewriting(c) =>
    /\ \A b \in Batch \ overlapped : b # c => Same(batchRun[c].rows, batchFile, b)
    /\ c \notin overlapped => \A i \in Nat :
         /\ Has(batchRun[c].rows, i, c) <=> Has(batchFile, i, c)
         /\ Has(batchRun[c].rows, i, c) =>
              /\ Final(batchRun[c].rows[i]) <=> batchRun[c].final
              /\ batchRun[c].final => batchRun[c].rows[i].done = batchRun[c].n

\* So is what is about to be renamed.
TmpIsCurrent(c) ==
  BatchAt(c, "rename") =>
    /\ c \notin overlapped => batchTmp = {batchRun[c].rows}
    /\ \A X \in batchTmp : \A b \in Batch \ overlapped : b # c => Same(X, batchFile, b)

\* The line of a run that did not overlap.
LineIsKept(b) ==
  b \notin overlapped =>
    /\ batchRun[b].pc \in Recorded => \E i \in Nat : Has(batchFile, i, b)
    /\ batchRun[b].pc = "raised" => \A i \in Nat : ~Has(batchFile, i, b)
    /\ \A i, j \in Nat : Has(batchFile, i, b) /\ Has(batchFile, j, b) => i = j
    /\ \A i \in Nat : Has(batchFile, i, b) =>
         /\ Final(batchFile[i]) <=> batchRun[b].pc = "ended"
         /\ batchRun[b].pc = "ended" => batchFile[i].done = batchRun[b].n

AnswersAreOfLaterLines ==
  \A a, b \in Batch : answer[b] = a =>
    /\ Begun(a) /\ Begun(b)
    /\ a # b /\ {a, b} \cap overlapped = {} =>
         \A i, j \in Nat : Has(batchFile, i, a) /\ Has(batchFile, j, b) => i > j

EvalInv ==
  /\ BatchTypes /\ LinesOK /\ RewritersOverlap /\ AnswersAreOfLaterLines
  /\ \A b \in Batch : CountsOK(b) /\ RowsAreCurrent(b) /\ TmpIsCurrent(b) /\ LineIsKept(b)

LEMMA EvalInitInv == EvalInit => EvalInv
<1>. SUFFICES ASSUME EvalInit PROVE EvalInv
  OBVIOUS
<1>1. BatchTypes
  <2>1. Start \in RunType /\ [Start EXCEPT !.pc = "dead"] \in RunType
    <3>1. <<>> \in Seq(Line) /\ FALSE \in BOOLEAN
      OBVIOUS
    <3>2. Start \in RunType
      BY <3>1 DEF Start, RunType, EvalPC
    <3>3. "dead" \in EvalPC
      BY DEF EvalPC
    <3>. QED BY <3>2, <3>3 DEF RunType
  <2>2. batchRun \in [Batch -> RunType]
    BY <2>1 DEF EvalInit
  <2>. QED BY <2>2 DEF BatchTypes, EvalInit
<1>2. \A b \in Batch : /\ batchRun[b].pc \in {"idle", "dead"} /\ batchRun[b].rows = <<>>
                       /\ batchRun[b].n = 0 /\ batchRun[b].done = 0 /\ batchRun[b].failed = 0
                       /\ batchRun[b].final = FALSE
  BY DEF EvalInit, Start
<1>3. \A b \in Batch : CountsOK(b)
  BY <1>2, EvalAssumption DEF CountsOK, EvalInit
<1>4. DOMAIN batchFile = {} /\ batchTmp = {} /\ \A b \in Batch : DOMAIN batchRun[b].rows = {}
  BY <1>2 DEF EvalInit
<1>5. LinesOK
  BY <1>4 DEF LinesOK, Sound
<1>6. \A b \in Batch : LineIsKept(b)
  BY <1>2, <1>4 DEF LineIsKept, Has, Recorded
<1>7. AnswersAreOfLaterLines
  BY EvalAssumption DEF AnswersAreOfLaterLines, EvalInit
<1>. QED BY <1>1, <1>2, <1>3, <1>5, <1>6, <1>7
         DEF EvalInv, RewritersOverlap, RowsAreCurrent, TmpIsCurrent, Rewriting, BatchAt

\* What stays so of a run, whatever it does.
Forth(b) == (Begun(b) => Begun(b)') /\ (batchRun[b].final => batchRun'[b].final)

\* How a run may go on while the files stay as they are.
MovesOn(b) ==
  /\ batchRun'[b].rows \in {batchRun[b].rows, <<>>}
  /\ batchRun'[b].pc \in {"write", "rename", "ended"} => batchRun'[b] = batchRun[b]
  /\ batchRun[b].pc = "ended" => batchRun'[b] = batchRun[b]
  /\ Begun(b) => batchRun'[b].pc \notin {"idle", "append"}
  /\ batchRun[b].final => batchRun'[b].final
  /\ batchRun'[b].pc \in Recorded => batchRun[b].pc \in Recorded
  /\ batchRun'[b].pc = "raised" => batchRun[b].pc \in {"append", "raised"}

LEMMA NobodyHasALineBefore ==
  ASSUME EvalInv, NEW b \in Batch, ~Begun(b), NEW i
  PROVE  ~Has(batchFile, i, b)
BY DEF EvalInv, LinesOK, Sound, Has

\* What is sound stays so when runs go on.
LEMMA SoundStays ==
  ASSUME NEW X \in Seq(Line), Sound(X), \A x \in Batch : Forth(x)
  PROVE  Sound(X)'
<1>. SUFFICES ASSUME NEW i \in DOMAIN X
              PROVE  /\ Begun(X[i].id)' /\ LineOK(X[i])
                     /\ Final(X[i]) => batchRun'[X[i].id].final
  BY DEF Sound
<1>1. X[i] \in Line
  OBVIOUS
<1>2. X[i].id \in Batch
  BY <1>1 DEF Line
<1>. QED BY <1>2 DEF Sound, Forth

LEMMA MovesKeepInv ==
  ASSUME EvalInv, UNCHANGED <<batchFile, batchTmp, answer, overlapped>>,
         batchRun' \in [Batch -> RunType], evalFile' \in [Batch -> Nat],
         \A b \in Batch : MovesOn(b) /\ CountsOK(b)'
  PROVE  EvalInv'
<1>1. BatchTypes'
  BY DEF EvalInv, BatchTypes
<1>2. \A b \in Batch : Rewriting(b)' => Rewriting(b) /\ batchRun'[b] = batchRun[b]
  BY DEF MovesOn, Rewriting
<1>3. \A b \in Batch : Forth(b)
  BY DEF MovesOn, Begun, Forth
<1>4. \A X \in Seq(Line) : Sound(X) => Sound(X)'
  BY <1>3, SoundStays
<1>5. LinesOK'
  <2>1. Sound(batchFile)'
    BY <1>4 DEF EvalInv, BatchTypes, LinesOK, Sound
  <2>2. \A X \in batchTmp : Sound(X)'
    BY <1>4 DEF EvalInv, BatchTypes, LinesOK
  <2>3. ASSUME NEW c \in Batch PROVE Sound(batchRun[c].rows)'
    <3>1. PICK X \in Seq(Line) : X = batchRun'[c].rows
      BY DEF RunType
    <3>2. X = batchRun[c].rows \/ X = <<>>
      BY <3>1 DEF MovesOn
    <3>3. Sound(X)
      BY <3>2 DEF EvalInv, LinesOK, Sound
    <3>4. Sound(X)'
      BY <1>4, <3>3
    <3>. QED BY <3>1, <3>4 DEF Sound
  <2>. QED BY <2>1, <2>2, <2>3 DEF LinesOK, Sound
<1>6. RewritersOverlap'
  BY <1>2 DEF EvalInv, RewritersOverlap
<1>7. AnswersAreOfLaterLines'
  BY <1>3 DEF EvalInv, AnswersAreOfLaterLines, Forth
<1>8. ASSUME NEW b \in Batch PROVE RowsAreCurrent(b)' /\ TmpIsCurrent(b)'
  <2>1. BatchAt(b, "rename")' => BatchAt(b, "rename") /\ batchRun'[b] = batchRun[b]
    BY DEF MovesOn, BatchAt
  <2>2. RowsAreCurrent(b) /\ TmpIsCurrent(b)
    BY DEF EvalInv
  <2>. QED BY <1>2, <2>1, <2>2 DEF RowsAreCurrent, TmpIsCurrent
<1>9. ASSUME NEW b \in Batch PROVE LineIsKept(b)'
  <2>1. LineIsKept(b) /\ MovesOn(b)
    BY DEF EvalInv
  <2>2. ~Begun(b) => \A i \in Nat : ~Has(batchFile, i, b)
    BY NobodyHasALineBefore
  <2>. QED BY <2>1, <2>2 DEF LineIsKept, MovesOn, Begun
<1>. QED BY <1>1, <1>5, <1>6, <1>7, <1>8, <1>9 DEF EvalInv

LEMMA RunsAre ==
  ASSUME EvalInv, NEW b \in Batch
  PROVE  /\ batchRun \in [Batch -> RunType] /\ batchRun[b] \in RunType
         /\ batchRun[b].pc \in EvalPC /\ batchRun[b].n \in Nat /\ batchRun[b].done \in Nat
         /\ batchRun[b].failed \in Nat /\ batchRun[b].final \in BOOLEAN
         /\ batchRun[b].rows \in Seq(Line)
         /\ evalFile \in [Batch -> Nat] /\ evalFile[b] \in Nat /\ Sample[b] \in Nat
BY EvalAssumption DEF EvalInv, BatchTypes, RunType

\* One run takes a step, the others do not.
LEMMA OneMoves ==
  ASSUME EvalInv, NEW b \in Batch, NEW r \in RunType, batchRun' = [batchRun EXCEPT ![b] = r]
  PROVE  /\ batchRun' \in [Batch -> RunType] /\ batchRun'[b] = r
         /\ \A x \in Batch : x # b => batchRun'[x] = batchRun[x]
BY DEF EvalInv, BatchTypes

LEMMA UnmovedAreOK ==
  ASSUME EvalInv, NEW x \in Batch, batchRun'[x] = batchRun[x]
  PROVE  MovesOn(x) /\ (evalFile'[x] = evalFile[x] => CountsOK(x)')
BY DEF EvalInv, MovesOn, CountsOK, Begun

\* A run that only goes to another place.
LEMMA GoingKeepsInv ==
  ASSUME EvalInv, NEW b \in Batch, NEW pc \in {"append", "raised"}, GoBatch(b, pc),
         UNCHANGED <<batchFile, batchTmp, evalFile, answer, overlapped>>,
         \/ BatchAt(b, "idle") /\ pc = "append"
         \/ BatchAt(b, "append") /\ pc = "raised"
  PROVE  EvalInv'
<1>1. PICK r \in RunType : r = [batchRun[b] EXCEPT !.pc = pc]
  BY RunsAre DEF RunType, EvalPC
<1>2. /\ r.pc = pc /\ r.rows = batchRun[b].rows /\ r.n = batchRun[b].n
      /\ r.done = batchRun[b].done /\ r.failed = batchRun[b].failed
      /\ r.final = batchRun[b].final
  BY <1>1, RunsAre DEF RunType
<1>3. batchRun' = [batchRun EXCEPT ![b] = r]
  BY <1>1, RunsAre DEF GoBatch
<1>4. MovesOn(b) /\ CountsOK(b)'
  <2>1. batchRun'[b] = r /\ CountsOK(b)
    BY <1>3, OneMoves DEF EvalInv
  <2>2. MovesOn(b)
    BY <1>2, <2>1 DEF MovesOn, Begun, BatchAt, Recorded
  <2>3. CountsOK(b)'
    BY <1>2, <2>1 DEF CountsOK, BatchAt
  <2>. QED BY <2>2, <2>3
<1>5. \A x \in Batch : x # b => MovesOn(x) /\ CountsOK(x)'
  BY <1>3, OneMoves, UnmovedAreOK
<1>. QED BY <1>3, <1>4, <1>5, OneMoves, MovesKeepInv, RunsAre

LEMMA ReplayKeepsInv ==
  ASSUME EvalInv, NEW b \in Batch, Replay(b)
  PROVE  EvalInv'
<1>1. PICK n \in 0..Sample[b] :
        batchRun' = [batchRun EXCEPT ![b].pc = IF n = 0 THEN "read" ELSE "collect",
                                     ![b].n = n, ![b].final = (n = 0)]
  BY DEF Replay
<1>2. UNCHANGED <<batchFile, batchTmp, evalFile, answer, overlapped>> /\ BatchAt(b, "replay")
  BY DEF Replay
<1>3. PICK pc \in {"read", "collect"}, fi \in BOOLEAN :
        /\ batchRun' = [batchRun EXCEPT ![b].pc = pc, ![b].n = n, ![b].final = fi]
        /\ pc = "collect" => n > 0
        /\ fi => n = 0
        /\ pc = "collect" => ~fi
  <2>1. CASE n = 0
    <3>1. (n = 0) = TRUE
      BY <2>1
    <3>2. batchRun' = [batchRun EXCEPT ![b].pc = "read", ![b].n = n, ![b].final = TRUE]
      BY <1>1, <2>1, <3>1, Zenon
    <3>. QED BY <2>1, <3>2, TRUE \in BOOLEAN
  <2>2. CASE n # 0
    <3>1. (n = 0) = FALSE
      BY <2>2
    <3>2. batchRun' = [batchRun EXCEPT ![b].pc = "collect", ![b].n = n, ![b].final = FALSE]
      BY <1>1, <2>2, <3>1, Zenon
    <3>3. n > 0
      BY <2>2, RunsAre
    <3>. QED BY <3>2, <3>3, FALSE \in BOOLEAN
  <2>. QED BY <2>1, <2>2
<1>4. PICK r \in RunType : r = [batchRun[b] EXCEPT !.pc = pc, !.n = n, !.final = fi]
  <2>1. n \in Nat /\ pc \in EvalPC
    BY RunsAre DEF EvalPC
  <2>. QED BY <2>1, RunsAre DEF RunType
<1>5. /\ r.pc = pc /\ r.rows = batchRun[b].rows /\ r.n = n /\ r.done = batchRun[b].done
      /\ r.failed = batchRun[b].failed /\ r.final = fi
  BY <1>4, RunsAre DEF RunType
<1>6. batchRun' = [batchRun EXCEPT ![b] = r]
  BY <1>3, <1>4, RunsAre
<1>7. MovesOn(b) /\ CountsOK(b)'
  <2>1. batchRun'[b] = r /\ CountsOK(b)
    BY <1>6, OneMoves DEF EvalInv
  <2>2. MovesOn(b)
    BY <1>2, <1>5, <2>1 DEF MovesOn, Begun, BatchAt, Recorded, CountsOK
  <2>3. batchRun[b].n = 0 /\ batchRun[b].done = 0 /\ batchRun[b].failed = 0 /\ evalFile[b] = 0
    BY <1>2, <2>1, RunsAre DEF CountsOK, BatchAt
  <2>4. CountsOK(b)'
    BY <1>2, <1>3, <1>5, <2>1, <2>3, RunsAre DEF CountsOK
  <2>. QED BY <2>2, <2>4
<1>8. \A x \in Batch : x # b => MovesOn(x) /\ CountsOK(x)'
  BY <1>2, <1>6, OneMoves, UnmovedAreOK
<1>. QED BY <1>2, <1>6, <1>7, <1>8, OneMoves, MovesKeepInv, RunsAre

\* A run that takes a result, or whose result nobody takes.
LEMMA CountingKeepsInv ==
  ASSUME EvalInv, NEW b \in Batch, NEW r \in RunType, batchRun' = [batchRun EXCEPT ![b] = r],
         UNCHANGED <<batchFile, batchTmp, answer, overlapped>>,
         \/ BatchAt(b, "collect") /\ r.pc \in {"collect", "read"}
         \/ BatchAt(b, "raised") /\ r.pc = "raised",
         r.rows = batchRun[b].rows, r.n = batchRun[b].n, r.final = batchRun[b].final,
         batchRun[b].done < batchRun[b].n, r.done = batchRun[b].done + 1,
         r.pc = "collect" => r.done < r.n,
         \/ evalFile' = [evalFile EXCEPT ![b] = @ + 1] /\ r.failed = batchRun[b].failed
         \/ evalFile' = evalFile /\ r.failed \in {batchRun[b].failed, batchRun[b].failed + 1}
  PROVE  EvalInv'
<1>1. /\ batchRun'[b] = r /\ batchRun' \in [Batch -> RunType]
      /\ \A x \in Batch : x # b => batchRun'[x] = batchRun[x]
  BY OneMoves
<1>2. /\ evalFile' \in [Batch -> Nat]
      /\ \A x \in Batch : x # b => evalFile'[x] = evalFile[x]
      /\ \/ evalFile'[b] = evalFile[b] + 1 /\ r.failed = batchRun[b].failed
         \/ evalFile'[b] = evalFile[b] /\ r.failed \in {batchRun[b].failed, batchRun[b].failed + 1}
  BY RunsAre
<1>3. CountsOK(b)
  BY DEF EvalInv
<1>4. MovesOn(b)
  BY <1>1 DEF MovesOn, Begun, BatchAt, Recorded
<1>5. CountsOK(b)'
  BY <1>1, <1>2, <1>3, RunsAre DEF CountsOK, BatchAt
<1>6. \A x \in Batch : x # b => MovesOn(x) /\ CountsOK(x)'
  BY <1>1, <1>2, UnmovedAreOK
<1>. QED BY <1>1, <1>2, <1>4, <1>5, <1>6, MovesKeepInv

LEMMA JudgingKeepsInv ==
  ASSUME EvalInv, NEW b \in Batch, Judge(b) \/ JudgeForNobody(b)
  PROVE  EvalInv'
<1>1. CASE Judge(b)
  <2>1. UNCHANGED <<batchFile, batchTmp, answer, overlapped>> /\ BatchAt(b, "collect")
    BY <1>1 DEF Judge
  <2>2. batchRun[b].done < batchRun[b].n /\ CountsOK(b)
    BY <2>1 DEF EvalInv, CountsOK, BatchAt
  <2>3. ASSUME NEW f \in {batchRun[b].failed, batchRun[b].failed + 1}, NEW q,
               q = [batchRun[b] EXCEPT !.done = @ + 1, !.failed = f],
               batchRun' = [batchRun EXCEPT ![b] = Progressed(q)],
               \/ evalFile' = [evalFile EXCEPT ![b] = @ + 1] /\ f = batchRun[b].failed
               \/ evalFile' = evalFile
        PROVE  EvalInv'
    <3>0. PICK d \in Nat : d = batchRun[b].done + 1
      BY RunsAre
    <3>1. /\ q \in RunType /\ q.done = batchRun[b].done + 1 /\ q.n = batchRun[b].n
          /\ q.failed = f /\ q.rows = batchRun[b].rows /\ q.final = batchRun[b].final
      <4>1. q = [batchRun[b] EXCEPT !.done = d, !.failed = f] /\ f \in Nat
        BY <2>3, <3>0, RunsAre
      <4>. QED BY <3>0, <4>1, RunsAre DEF RunType
    <3>2. PICK pc \in {"read", "collect"} :
            /\ pc = IF q.done % ProgressEvery = 0 \/ q.done = q.n THEN "read" ELSE "collect"
            /\ pc = "collect" => q.done # q.n
      OBVIOUS
    <3>3. PICK r \in RunType : r = [q EXCEPT !.pc = pc]
      BY <3>1 DEF RunType, EvalPC
    <3>4. /\ r.pc = pc /\ r.rows = batchRun[b].rows /\ r.n = batchRun[b].n
          /\ r.done = batchRun[b].done + 1 /\ r.failed = f /\ r.final = batchRun[b].final
      BY <3>1, <3>3 DEF RunType
    <3>5. batchRun' = [batchRun EXCEPT ![b] = r]
      BY <2>3, <3>2, <3>3 DEF Progressed
    <3>6. r.pc = "collect" => r.done < r.n
      BY <2>2, <3>1, <3>2, <3>4, RunsAre
    <3>. QED BY <2>1, <2>2, <2>3, <3>4, <3>5, <3>6, CountingKeepsInv
  <2>4. CASE /\ batchRun' = [batchRun EXCEPT ![b] = Passed(@)]
             /\ evalFile' = [evalFile EXCEPT ![b] = @ + 1]
    <3>1. [batchRun[b] EXCEPT !.done = @ + 1] =
            [batchRun[b] EXCEPT !.done = @ + 1, !.failed = batchRun[b].failed]
      BY RunsAre DEF RunType
    <3>2. batchRun' = [batchRun EXCEPT ![b] = Progressed([batchRun[b] EXCEPT !.done = @ + 1])]
      BY <2>4, RunsAre DEF Passed
    <3>. QED BY <2>3, <2>4, <3>1, <3>2
  <2>5. CASE batchRun' = [batchRun EXCEPT ![b] = Failed(@)] /\ UNCHANGED evalFile
    <3>1. batchRun' = [batchRun EXCEPT ![b] =
            Progressed([batchRun[b] EXCEPT !.done = @ + 1, !.failed = batchRun[b].failed + 1])]
      BY <2>5, RunsAre DEF Failed
    <3>. QED BY <2>3, <2>5, <3>1
  <2>. QED BY <1>1, <2>4, <2>5 DEF Judge
<1>2. CASE JudgeForNobody(b)
  <2>1. /\ UNCHANGED <<batchFile, batchTmp, answer, overlapped>> /\ BatchAt(b, "raised")
        /\ batchRun[b].done < batchRun[b].n
        /\ evalFile' = [evalFile EXCEPT ![b] = @ + 1] \/ UNCHANGED evalFile
        /\ batchRun' = [batchRun EXCEPT ![b].done = @ + 1]
    BY <1>2 DEF JudgeForNobody
  <2>2. PICK r \in RunType : r = [batchRun[b] EXCEPT !.done = @ + 1]
    <3>1. batchRun[b].done + 1 \in Nat
      BY RunsAre
    <3>. QED BY <3>1, RunsAre DEF RunType
  <2>3. /\ r.pc = "raised" /\ r.rows = batchRun[b].rows /\ r.n = batchRun[b].n
        /\ r.done = batchRun[b].done + 1 /\ r.failed = batchRun[b].failed
        /\ r.final = batchRun[b].final
    BY <2>1, <2>2, RunsAre DEF RunType, BatchAt
  <2>4. batchRun' = [batchRun EXCEPT ![b] = r]
    BY <2>1, <2>2, RunsAre
  <2>. QED BY <2>1, <2>3, <2>4, CountingKeepsInv
<1>. QED BY <1>1, <1>2

LEMMA CleanupKeepsInv ==
  ASSUME EvalInv, Cleanup
  PROVE  EvalInv'
<1>1. /\ UNCHANGED <<batchFile, batchTmp, batchRun, answer, overlapped>>
      /\ evalFile' \in [Batch -> Nat] /\ \A x \in Batch : evalFile'[x] = 0
  BY DEF Cleanup
<1>2. ASSUME NEW x \in Batch PROVE MovesOn(x) /\ CountsOK(x)'
  <2>1. CountsOK(x)
    BY DEF EvalInv
  <2>2. CountsOK(x)'
    BY <1>1, <2>1, RunsAre DEF CountsOK
  <2>. QED BY <1>1, <2>2, UnmovedAreOK
<1>. QED BY <1>1, <1>2, MovesKeepInv DEF EvalInv, BatchTypes

LEMMA KillKeepsInv ==
  ASSUME EvalInv, NEW b \in Batch, KillProcess(b)
  PROVE  EvalInv'
<1>1. UNCHANGED <<batchFile, batchTmp, evalFile, answer, overlapped>>
  BY DEF KillProcess
<1>2. ASSUME NEW x \in Batch
      PROVE  /\ batchRun'[x] \in RunType
             /\ MovesOn(x) /\ CountsOK(x)'
  <2>1. CASE SameProcess(x, b) /\ batchRun[x].pc \notin {"idle", "ended"}
    <3>1. batchRun'[x] = [batchRun[x] EXCEPT !.pc = "dead", !.rows = <<>>]
      BY <2>1 DEF KillProcess
    <3>2. "dead" \in EvalPC /\ <<>> \in Seq(Line)
      BY DEF EvalPC
    <3>3. /\ batchRun'[x] \in RunType /\ batchRun'[x].pc = "dead" /\ batchRun'[x].rows = <<>>
          /\ batchRun'[x].n = batchRun[x].n /\ batchRun'[x].done = batchRun[x].done
          /\ batchRun'[x].failed = batchRun[x].failed /\ batchRun'[x].final = batchRun[x].final
      BY <3>1, <3>2, RunsAre DEF RunType
    <3>4. MovesOn(x)
      BY <2>1, <3>3 DEF MovesOn, Recorded
    <3>5. CountsOK(x)
      BY DEF EvalInv
    <3>6. CountsOK(x)'
      BY <1>1, <3>3, <3>5 DEF CountsOK
    <3>. QED BY <3>3, <3>4, <3>6
  <2>2. CASE ~(SameProcess(x, b) /\ batchRun[x].pc \notin {"idle", "ended"})
    <3>1. batchRun'[x] = batchRun[x]
      BY <2>2 DEF KillProcess
    <3>. QED BY <1>1, <3>1, UnmovedAreOK, RunsAre
  <2>. QED BY <2>1, <2>2
<1>3. batchRun' \in [Batch -> RunType]
  <2>1. batchRun' = [x \in Batch |-> batchRun'[x]]
    BY DEF KillProcess
  <2>. QED BY <1>2, <2>1
<1>. QED BY <1>1, <1>2, <1>3, MovesKeepInv DEF EvalInv, BatchTypes

LEMMA PeekKeepsInv ==
  ASSUME EvalInv, NEW b \in Batch, Peek(b)
  PROVE  EvalInv'
<1>1. /\ UNCHANGED <<batchFile, batchTmp, evalFile, batchRun, overlapped>>
      /\ batchRun[b].pc \notin {"idle", "append", "dead"}
      /\ answer' = [answer EXCEPT ![b] =
           IF batchFile = <<>> THEN "none" ELSE Last(batchFile).id]
  BY DEF Peek
<1>2. /\ answer \in [Batch -> Batch \cup {Unknown, "none"}] /\ batchFile \in Seq(Line)
      /\ Len(batchFile) \in Nat
  BY DEF EvalInv, BatchTypes
<1>3. PICK last : last = IF batchFile = <<>> THEN "none" ELSE Last(batchFile).id
  OBVIOUS
<1>4. last = "none" \/ (/\ Len(batchFile) > 0 /\ last \in Batch
                        /\ Has(batchFile, Len(batchFile), last))
  <2>1. CASE batchFile = <<>>
    BY <1>3, <2>1
  <2>2. CASE batchFile # <<>>
    <3>1. Len(batchFile) > 0 /\ last = batchFile[Len(batchFile)].id
      BY <1>2, <1>3, <2>2 DEF Last
    <3>2. batchFile[Len(batchFile)] \in Line
      BY <1>2, <3>1
    <3>. QED BY <1>2, <3>1, <3>2 DEF Line, Has
  <2>. QED BY <2>1, <2>2
<1>5. /\ answer'[b] = last /\ \A x \in Batch : x # b => answer'[x] = answer[x]
      /\ answer' \in [Batch -> Batch \cup {Unknown, "none"}]
  BY <1>1, <1>2, <1>3, <1>4
<1>6. AnswersAreOfLaterLines'
  <2>. SUFFICES ASSUME NEW a \in Batch, NEW x \in Batch, answer'[x] = a
                PROVE  /\ Begun(a) /\ Begun(x)
                       /\ a # x /\ {a, x} \cap overlapped = {} =>
                            \A i, j \in Nat :
                              Has(batchFile, i, a) /\ Has(batchFile, j, x) => i > j
    BY <1>1 DEF AnswersAreOfLaterLines, Begun, Has
  <2>1. CASE x # b
    BY <1>5, <2>1 DEF EvalInv, AnswersAreOfLaterLines
  <2>2. CASE x = b
    <3>1. a = last /\ a # "none"
      BY <1>5, <2>2, EvalAssumption
    <3>2. Begun(x) /\ Begun(a)
      BY <1>1, <1>4, <2>2, <3>1 DEF Begun, Has, EvalInv, LinesOK, Sound
    <3>3. ASSUME a # x, {a, x} \cap overlapped = {}, NEW i \in Nat, NEW j \in Nat,
                 Has(batchFile, i, a), Has(batchFile, j, x)
          PROVE  i > j
      <4>1. i = Len(batchFile)
        BY <1>2, <1>4, <3>1, <3>3 DEF EvalInv, LineIsKept
      <4>2. j \in 1..Len(batchFile) /\ i # j
        BY <1>2, <3>3 DEF Has
      <4>. QED BY <4>1, <4>2
    <3>. QED BY <3>2, <3>3
  <2>. QED BY <2>1, <2>2
<1>. QED BY <1>1, <1>5, <1>6
         DEF EvalInv, BatchTypes, LinesOK, Sound, Begun, RewritersOverlap, Rewriting, CountsOK,
             RowsAreCurrent, TmpIsCurrent, LineIsKept, BatchAt, Has, Same

\* What does not depend on the files: the place a run goes to.
LEMMA GoIs ==
  ASSUME EvalInv, NEW b \in Batch, NEW pc \in {"replay", "write", "rename", "raised"},
         NEW rows \in Seq(Line),
         batchRun[b].pc \in {"append", "read", "write", "rename"},
         evalFile' = evalFile,
         batchRun' = [batchRun EXCEPT ![b].pc = pc, ![b].rows = rows],
         pc = "replay" => batchRun[b].pc = "append"
  PROVE  /\ batchRun' \in [Batch -> RunType]
         /\ \A x \in Batch : x # b => batchRun'[x] = batchRun[x]
         /\ batchRun'[b].pc = pc /\ batchRun'[b].rows = rows
         /\ batchRun'[b].n = batchRun[b].n /\ batchRun'[b].final = batchRun[b].final
         /\ \A x \in Batch : CountsOK(x)' /\ Forth(x)
<1>1. pc \in EvalPC
  BY DEF EvalPC
<1>2. /\ batchRun' \in [Batch -> RunType]
      /\ \A x \in Batch : x # b => batchRun'[x] = batchRun[x]
      /\ batchRun'[b].pc = pc /\ batchRun'[b].rows = rows
      /\ batchRun'[b].n = batchRun[b].n /\ batchRun'[b].final = batchRun[b].final
      /\ batchRun'[b].done = batchRun[b].done /\ batchRun'[b].failed = batchRun[b].failed
  BY <1>1, RunsAre DEF RunType
<1>3. ASSUME NEW x \in Batch PROVE CountsOK(x)' /\ Forth(x)
  <2>1. CountsOK(x)
    BY DEF EvalInv
  <2>2. CASE x = b
    BY <1>2, <2>1, <2>2 DEF CountsOK, Begun, Forth
  <2>3. CASE x # b
    BY <1>2, <2>1, <2>3 DEF CountsOK, Begun, Forth
  <2>. QED BY <2>2, <2>3
<1>. QED BY <1>2, <1>3

LEMMA AppendKeepsInv ==
  ASSUME EvalInv, NEW b \in Batch, AppendBatch(b)
  PROVE  EvalInv'
<1>1. /\ UNCHANGED <<batchTmp, evalFile, answer>> /\ batchRun[b].pc = "append" /\ HasLoop(b)
      /\ batchFile' = Append(batchFile, NewLine(b))
      /\ overlapped' = overlapped \cup Overlaps(b)
      /\ batchRun' = [batchRun EXCEPT ![b].pc = "replay"]
  BY DEF AppendBatch, BatchAt
<1>2. batchRun' = [batchRun EXCEPT ![b].pc = "replay", ![b].rows = batchRun[b].rows]
  BY <1>1, RunsAre DEF RunType
<1>3. /\ batchRun' \in [Batch -> RunType]
      /\ \A x \in Batch : x # b => batchRun'[x] = batchRun[x]
      /\ batchRun'[b].pc = "replay" /\ batchRun'[b].rows = batchRun[b].rows
      /\ batchRun'[b].n = batchRun[b].n /\ batchRun'[b].final = batchRun[b].final
      /\ \A x \in Batch : CountsOK(x)' /\ Forth(x)
  BY <1>1, <1>2, GoIs, RunsAre
<1>4. NewLine(b) \in Line /\ LineOK(NewLine(b)) /\ ~Final(NewLine(b)) /\ NewLine(b).id = b
  BY RunsAre DEF NewLine, Line, LineOK, Final
<1>5. PICK n \in Nat :
        /\ n = Len(batchFile) /\ batchFile \in Seq(Line) /\ batchFile' \in Seq(Line)
        /\ DOMAIN batchFile = 1..n /\ DOMAIN batchFile' = 1..(n + 1)
        /\ \A i \in 1..n : batchFile'[i] = batchFile[i]
        /\ batchFile'[n + 1] = NewLine(b)
  <2>1. PICK l \in Line : l = NewLine(b)
    BY <1>4
  <2>2. batchFile \in Seq(Line) /\ Len(batchFile) \in Nat /\ batchFile' = Append(batchFile, l)
    BY <1>1, <2>1 DEF EvalInv, BatchTypes
  <2>3. batchFile' \in Seq(Line) /\ Len(batchFile') = Len(batchFile) + 1
    BY <2>2
  <2>4. /\ \A i \in 1..Len(batchFile) : batchFile'[i] = batchFile[i]
        /\ batchFile'[Len(batchFile) + 1] = l
    BY <2>2
  <2>. QED BY <2>1, <2>2, <2>3, <2>4
<1>6. \A x \in Batch, i \in Nat :
        x # b => /\ Has(batchFile', i, x) <=> Has(batchFile, i, x)
                 /\ Has(batchFile, i, x) => batchFile'[i] = batchFile[i]
  BY <1>4, <1>5 DEF Has
<1>7. \A i \in Nat : Has(batchFile', i, b) <=> i = n + 1
  <2>1. \A i \in Nat : ~Has(batchFile, i, b)
    BY <1>1, NobodyHasALineBefore DEF Begun
  <2>. QED BY <1>4, <1>5, <2>1 DEF Has
<1>8. overlapped \subseteq overlapped' /\ overlapped' \subseteq Batch
  BY <1>1 DEF Overlaps, EvalInv, BatchTypes
<1>9. \A c \in Batch : (Rewriting(c)' <=> Rewriting(c))
                       /\ (Rewriting(c) => c # b /\ b \in overlapped')
  <2>1. ASSUME NEW c \in Batch, Rewriting(c) PROVE c # b /\ b \in overlapped'
    <3>1. c # b
      BY <1>1, <2>1 DEF Rewriting
    <3>2. ~SameProcess(c, b)
      BY <1>1, <2>1, <3>1 DEF HasLoop
    <3>. QED BY <1>1, <2>1, <3>1, <3>2 DEF Overlaps
  <2>2. \A c \in Batch : Rewriting(c)' <=> Rewriting(c)
    BY <1>1, <1>3 DEF Rewriting
  <2>. QED BY <2>1, <2>2
<1>10. BatchTypes'
  BY <1>1, <1>3, <1>5, <1>8 DEF EvalInv, BatchTypes
<1>11. LinesOK'
  <2>1. Sound(batchFile)'
    <3>0. PICK X \in Seq(Line) : X = batchFile /\ Sound(X)
      BY <1>5 DEF EvalInv, LinesOK
    <3>1. Sound(X)'
      BY <1>3, <3>0, SoundStays
    <3>2. Begun(b)'
      BY <1>3 DEF Begun
    <3>3. PICK Y : Y = batchFile'
      OBVIOUS
    <3>4. ASSUME NEW i \in 1..(n + 1)
          PROVE  /\ Begun(Y[i].id)' /\ LineOK(Y[i])
                 /\ Final(Y[i]) => batchRun'[Y[i].id].final
      <4>1. CASE i \in 1..n
        <5>1. Y[i] = X[i] /\ i \in DOMAIN X
          BY <1>5, <3>0, <3>3, <4>1
        <5>. QED BY <3>1, <5>1 DEF Sound
      <4>2. CASE i = n + 1
        <5>1. Y[i] = NewLine(b)
          BY <1>5, <3>3, <4>2
        <5>. QED BY <1>4, <3>2, <5>1 DEF Begun
      <4>. QED BY <4>1, <4>2
    <3>. QED BY <1>5, <3>3, <3>4 DEF Sound, LineOK, Final, Begun
  <2>2. \A X \in batchTmp' : Sound(X)'
    BY <1>1, <1>3, SoundStays DEF EvalInv, LinesOK, BatchTypes
  <2>3. ASSUME NEW c \in Batch PROVE Sound(batchRun[c].rows)'
    <3>1. PICK X \in Seq(Line) : X = batchRun[c].rows /\ X = batchRun'[c].rows
      BY <1>3, RunsAre
    <3>2. Sound(X)'
      BY <1>3, <3>1, SoundStays DEF EvalInv, LinesOK
    <3>. QED BY <3>1, <3>2 DEF Sound, LineOK, Final, Begun
  <2>. QED BY <2>1, <2>2, <2>3 DEF LinesOK
<1>12. RewritersOverlap'
  BY <1>8, <1>9 DEF EvalInv, RewritersOverlap
<1>13. AnswersAreOfLaterLines'
  <2>. SUFFICES ASSUME NEW a \in Batch, NEW x \in Batch, answer'[x] = a
                PROVE  /\ Begun(a)' /\ Begun(x)'
                       /\ a # x /\ {a, x} \cap overlapped' = {} =>
                            \A i, j \in Nat :
                              Has(batchFile', i, a) /\ Has(batchFile', j, x) => i > j
    BY DEF AnswersAreOfLaterLines, Has
  <2>1. Begun(a) /\ Begun(x) /\ a # b /\ x # b
    BY <1>1 DEF EvalInv, AnswersAreOfLaterLines, Begun
  <2>. QED BY <1>1, <1>3, <1>6, <1>8, <2>1 DEF EvalInv, AnswersAreOfLaterLines, Forth
<1>14. ASSUME NEW c \in Batch PROVE RowsAreCurrent(c)'
  <2>. SUFFICES ASSUME Rewriting(c)
                PROVE  /\ \A x \in Batch \ overlapped' :
                             x # c => Same(batchRun'[c].rows, batchFile', x)
                       /\ c \notin overlapped' => \A i \in Nat :
                            /\ Has(batchRun'[c].rows, i, c) <=> Has(batchFile', i, c)
                            /\ Has(batchRun'[c].rows, i, c) =>
                                 /\ Final(batchRun'[c].rows[i]) <=> batchRun'[c].final
                                 /\ batchRun'[c].final =>
                                      batchRun'[c].rows[i].done = batchRun'[c].n
    BY <1>9 DEF RowsAreCurrent, Same, Has, Final
  <2>1. c # b /\ b \in overlapped' /\ batchRun'[c] = batchRun[c]
    BY <1>3, <1>9
  <2>2. RowsAreCurrent(c)
    BY DEF EvalInv
  <2>3. \A x \in Batch \ overlapped' : x # c => Same(batchRun'[c].rows, batchFile', x)
    BY <1>6, <1>8, <2>1, <2>2 DEF RowsAreCurrent, Same
  <2>. QED BY <1>6, <1>8, <2>1, <2>2, <2>3 DEF RowsAreCurrent
<1>15. ASSUME NEW c \in Batch PROVE TmpIsCurrent(c)'
  <2>. SUFFICES ASSUME batchRun'[c].pc = "rename"
                PROVE  /\ c \notin overlapped' => batchTmp' = {batchRun'[c].rows}
                       /\ \A X \in batchTmp' : \A x \in Batch \ overlapped' :
                            x # c => Same(X, batchFile', x)
    BY DEF TmpIsCurrent, Same, Has, BatchAt
  <2>1. c # b /\ batchRun'[c] = batchRun[c] /\ BatchAt(c, "rename") /\ b \in overlapped'
    BY <1>3, <1>9 DEF BatchAt, Rewriting
  <2>2. TmpIsCurrent(c)
    BY DEF EvalInv
  <2>. QED BY <1>1, <1>6, <1>8, <2>1, <2>2 DEF TmpIsCurrent, Same
<1>16. ASSUME NEW x \in Batch PROVE LineIsKept(x)'
  <2>1. LineIsKept(x)
    BY DEF EvalInv
  <2>2. CASE x # b
    BY <1>3, <1>6, <1>8, <2>1, <2>2 DEF LineIsKept, Has
  <2>3. CASE x = b
    BY <1>3, <1>4, <1>5, <1>7, <2>3 DEF LineIsKept, Has, Final
  <2>. QED BY <2>2, <2>3
<1>. QED BY <1>3, <1>10, <1>11, <1>12, <1>13, <1>14, <1>15, <1>16 DEF EvalInv

LEMMA LineUpdated ==
  ASSUME EvalInv, NEW b \in Batch, NEW line \in Line, line.id = b, batchRun[b].pc = "read",
         LineOK(line), Final(line) => batchRun[b].final
  PROVE  /\ Updated(b, line) \in Line /\ Updated(b, line).id = b /\ LineOK(Updated(b, line))
         /\ Final(Updated(b, line)) <=> batchRun[b].final
         /\ batchRun[b].final => Updated(b, line).done = batchRun[b].n
<1>1. PICK n \in Nat, d \in Nat, f \in Nat, s \in Nat, total \in Nat :
        /\ n = batchRun[b].n /\ d = batchRun[b].done /\ f = batchRun[b].failed
        /\ s = evalFile[b] /\ total = line.total
  BY RunsAre DEF Line
<1>2. /\ f <= d /\ d <= n /\ n <= total /\ s <= d - f
      /\ batchRun[b].final => d = n
  BY <1>1 DEF EvalInv, CountsOK, LineOK
<1>3. CASE batchRun[b].final
  <2>1. PICK v \in {"succeeded", "failed"} : v = Verdict(batchRun[b])
    BY DEF Verdict
  <2>2. Updated(b, line) =
          [line EXCEPT !.done = d, !.failed = f, !.scored = s, !.status = v]
    BY <1>1, <1>3, <2>1 DEF Updated, Line
  <2>3. v = "succeeded" <=> f < n
    BY <1>1, <2>1 DEF Verdict
  <2>. QED BY <1>1, <1>2, <1>3, <2>2, <2>3 DEF Line, LineOK, Final
<1>4. CASE ~batchRun[b].final
  <2>1. Updated(b, line) = [line EXCEPT !.done = d, !.failed = f]
    BY <1>1, <1>4 DEF Updated
  <2>. QED BY <1>1, <1>2, <1>4, <2>1 DEF Line, LineOK, Final
<1>. QED BY <1>3, <1>4

LEMMA ReadKeepsInv ==
  ASSUME EvalInv, NEW b \in Batch, ReadRows(b)
  PROVE  EvalInv'
<1>1. /\ UNCHANGED <<batchFile, batchTmp, evalFile, answer>> /\ batchRun[b].pc = "read"
      /\ HasLoop(b) /\ overlapped' = overlapped \cup Overlaps(b)
  BY DEF ReadRows, BatchAt
<1>2. PICK X \in Seq(Line) : X = batchFile /\ Sound(X)
  BY DEF EvalInv, BatchTypes, LinesOK
<1>3. PICK Y : Y = [i \in DOMAIN X |-> IF X[i].id = b THEN Updated(b, X[i]) ELSE X[i]]
  OBVIOUS
<1>4. /\ Len(X) \in Nat /\ DOMAIN X = 1..Len(X) /\ DOMAIN Y = 1..Len(X)
      /\ \A i \in 1..Len(X) : X[i] \in Line
  BY <1>3
<1>5. \A i \in 1..Len(X) :
        /\ Y[i] \in Line /\ Y[i].id = X[i].id /\ LineOK(Y[i])
        /\ X[i].id # b => Y[i] = X[i]
        /\ X[i].id = b => /\ Final(Y[i]) <=> batchRun[b].final
                          /\ batchRun[b].final => Y[i].done = batchRun[b].n
  <2>. SUFFICES ASSUME NEW i \in 1..Len(X)
                PROVE  /\ Y[i] \in Line /\ Y[i].id = X[i].id /\ LineOK(Y[i])
                       /\ X[i].id # b => Y[i] = X[i]
                       /\ X[i].id = b => /\ Final(Y[i]) <=> batchRun[b].final
                                         /\ batchRun[b].final => Y[i].done = batchRun[b].n
    OBVIOUS
  <2>1. X[i] \in Line /\ LineOK(X[i]) /\ (Final(X[i]) => batchRun[X[i].id].final)
    BY <1>2, <1>4 DEF Sound
  <2>2. Y[i] = IF X[i].id = b THEN Updated(b, X[i]) ELSE X[i]
    BY <1>3, <1>4
  <2>3. CASE X[i].id = b
    BY <1>1, <2>1, <2>2, <2>3, LineUpdated
  <2>4. CASE X[i].id # b
    BY <2>1, <2>2, <2>4
  <2>. QED BY <2>3, <2>4
<1>6. Y \in Seq(Line)
  <2>1. Y \in [1..Len(X) -> Line]
    BY <1>3, <1>4, <1>5
  <2>. QED BY <1>4, <2>1
<1>7. batchRun' = [batchRun EXCEPT ![b].pc = "write", ![b].rows = Y]
  <2>1. batchRun' = [batchRun EXCEPT ![b].rows = Y, ![b].pc = "write"]
    BY <1>2, <1>3 DEF ReadRows
  <2>. QED BY <2>1, RunsAre DEF RunType
<1>8. /\ batchRun' \in [Batch -> RunType]
      /\ \A x \in Batch : x # b => batchRun'[x] = batchRun[x]
      /\ batchRun'[b].pc = "write" /\ batchRun'[b].rows = Y
      /\ batchRun'[b].n = batchRun[b].n /\ batchRun'[b].final = batchRun[b].final
      /\ \A x \in Batch : CountsOK(x)' /\ Forth(x)
  BY <1>1, <1>6, <1>7, GoIs, RunsAre
<1>9. overlapped \subseteq overlapped' /\ overlapped' \subseteq Batch
  BY <1>1 DEF Overlaps, EvalInv, BatchTypes
<1>10. \A c \in Batch : (Rewriting(c)' <=> c = b \/ Rewriting(c))
                        /\ (Rewriting(c) => c # b /\ {b, c} \subseteq overlapped')
  <2>1. ASSUME NEW c \in Batch, Rewriting(c) PROVE c # b /\ {b, c} \subseteq overlapped'
    <3>1. c # b
      BY <1>1, <2>1 DEF Rewriting
    <3>2. ~SameProcess(c, b)
      BY <1>1, <2>1, <3>1 DEF HasLoop
    <3>. QED BY <1>1, <2>1, <3>1, <3>2 DEF Overlaps
  <2>2. \A c \in Batch : Rewriting(c)' <=> c = b \/ Rewriting(c)
    BY <1>8 DEF Rewriting
  <2>. QED BY <2>1, <2>2
<1>11. BatchTypes'
  BY <1>1, <1>8, <1>9 DEF EvalInv, BatchTypes
<1>12. LinesOK'
  <2>1. Sound(batchFile)'
    <3>1. Sound(X)'
      BY <1>2, <1>8, SoundStays
    <3>. QED BY <1>1, <1>2, <3>1 DEF Sound
  <2>2. \A Z \in batchTmp' : Sound(Z)'
    BY <1>1, <1>8, SoundStays DEF EvalInv, LinesOK, BatchTypes
  <2>3. Sound(Y)'
    <3>1. Sound(X)'
      BY <1>2, <1>8, SoundStays
    <3>2. ASSUME NEW i \in 1..Len(X)
          PROVE  /\ Begun(Y[i].id)' /\ LineOK(Y[i])
                 /\ Final(Y[i]) => batchRun'[Y[i].id].final
      <4>1. Begun(X[i].id)' /\ (Final(X[i]) => batchRun'[X[i].id].final)
        BY <1>4, <3>1 DEF Sound
      <4>2. CASE X[i].id = b
        BY <1>5, <1>8, <4>1, <4>2
      <4>3. CASE X[i].id # b
        BY <1>5, <4>1, <4>3
      <4>. QED BY <4>2, <4>3
    <3>. QED BY <1>4, <3>2 DEF Sound
  <2>4. ASSUME NEW c \in Batch PROVE Sound(batchRun[c].rows)'
    <3>1. CASE c = b
      BY <1>8, <2>3, <3>1 DEF Sound
    <3>2. CASE c # b
      <4>1. PICK Z \in Seq(Line) : Z = batchRun[c].rows /\ Z = batchRun'[c].rows
        BY <1>8, <3>2, RunsAre
      <4>2. Sound(Z)'
        BY <1>8, <4>1, SoundStays DEF EvalInv, LinesOK
      <4>. QED BY <4>1, <4>2 DEF Sound, LineOK, Final, Begun
    <3>. QED BY <3>1, <3>2
  <2>. QED BY <2>1, <2>2, <2>4 DEF LinesOK
<1>13. RewritersOverlap'
  BY <1>9, <1>10 DEF EvalInv, RewritersOverlap
<1>14. AnswersAreOfLaterLines'
  BY <1>1, <1>8, <1>9 DEF EvalInv, AnswersAreOfLaterLines, Forth
<1>15. ASSUME NEW c \in Batch PROVE RowsAreCurrent(c)'
  <2>1. CASE c = b
    <3>1. \A x \in Batch : x # b => Same(Y, X, x)
      BY <1>4, <1>5 DEF Same, Has
    <3>2. \A i \in Nat : /\ Has(Y, i, b) <=> Has(X, i, b)
                         /\ Has(Y, i, b) => /\ Final(Y[i]) <=> batchRun[b].final
                                            /\ batchRun[b].final => Y[i].done = batchRun[b].n
      BY <1>4, <1>5 DEF Has
    <3>. QED BY <1>1, <1>2, <1>8, <2>1, <3>1, <3>2 DEF RowsAreCurrent, Same, Has, Final
  <2>2. CASE c # b /\ Rewriting(c)
    <3>1. c \in overlapped' /\ batchRun'[c] = batchRun[c]
      BY <1>8, <1>10, <2>2
    <3>2. RowsAreCurrent(c)
      BY DEF EvalInv
    <3>. QED BY <1>1, <1>9, <2>2, <3>1, <3>2 DEF RowsAreCurrent
  <2>3. CASE c # b /\ ~Rewriting(c)
    BY <1>10, <2>3 DEF RowsAreCurrent
  <2>. QED BY <2>1, <2>2, <2>3
<1>16. ASSUME NEW c \in Batch PROVE TmpIsCurrent(c)'
  <2>1. CASE c = b
    BY <1>8, <2>1 DEF TmpIsCurrent, BatchAt
  <2>2. CASE c # b
    <3>1. batchRun'[c] = batchRun[c] /\ TmpIsCurrent(c)
      BY <1>8, <2>2 DEF EvalInv
    <3>. QED BY <1>1, <1>9, <3>1 DEF TmpIsCurrent, BatchAt
  <2>. QED BY <2>1, <2>2
<1>17. ASSUME NEW x \in Batch PROVE LineIsKept(x)'
  <2>1. LineIsKept(x)
    BY DEF EvalInv
  <2>2. CASE x # b
    BY <1>1, <1>8, <1>9, <2>1, <2>2 DEF LineIsKept, Has
  <2>3. CASE x = b
    BY <1>1, <1>8, <1>9, <2>1, <2>3 DEF LineIsKept, Has, Recorded
  <2>. QED BY <2>2, <2>3
<1>. QED BY <1>8, <1>11, <1>12, <1>13, <1>14, <1>15, <1>16, <1>17 DEF EvalInv

LEMMA WriteKeepsInv ==
  ASSUME EvalInv, NEW b \in Batch, WriteTmp(b)
  PROVE  EvalInv'
<1>1. /\ UNCHANGED <<batchFile, evalFile, answer>> /\ batchRun[b].pc = "write"
      /\ batchTmp' = {batchRun[b].rows}
      /\ overlapped \subseteq overlapped' /\ overlapped' \subseteq Batch
  BY DEF WriteTmp, BatchAt, Overlaps, EvalInv, BatchTypes
<1>2. PICK Y \in Seq(Line) : Y = batchRun[b].rows /\ Sound(Y)
  BY RunsAre DEF EvalInv, LinesOK
<1>3. batchRun' = [batchRun EXCEPT ![b].pc = "rename", ![b].rows = Y]
  <2>1. batchRun' = [batchRun EXCEPT ![b].pc = "rename"]
    BY DEF WriteTmp, GoBatch
  <2>. QED BY <1>2, <2>1, RunsAre DEF RunType
<1>4. /\ batchRun' \in [Batch -> RunType]
      /\ \A x \in Batch : x # b => batchRun'[x] = batchRun[x]
      /\ batchRun'[b].pc = "rename" /\ batchRun'[b].rows = Y
      /\ batchRun'[b].n = batchRun[b].n /\ batchRun'[b].final = batchRun[b].final
      /\ \A x \in Batch : CountsOK(x)' /\ Forth(x)
  BY <1>1, <1>2, <1>3, GoIs, RunsAre
<1>5. \A c \in Batch : (Rewriting(c)' <=> Rewriting(c))
                       /\ (c # b /\ Rewriting(c) => {b, c} \subseteq overlapped)
  BY <1>1, <1>4 DEF Rewriting, EvalInv, RewritersOverlap
<1>6. BatchTypes'
  BY <1>1, <1>2, <1>4 DEF EvalInv, BatchTypes
<1>7. LinesOK'
  <2>1. PICK X \in Seq(Line) : X = batchFile /\ X = batchFile' /\ Sound(X)
    BY <1>1 DEF EvalInv, BatchTypes, LinesOK
  <2>2. Sound(X)' /\ Sound(Y)'
    BY <1>2, <1>4, <2>1, SoundStays
  <2>3. ASSUME NEW c \in Batch PROVE Sound(batchRun[c].rows)'
    <3>1. PICK Z \in Seq(Line) : Z = batchRun[c].rows /\ Z = batchRun'[c].rows
      BY <1>2, <1>4, RunsAre
    <3>2. Sound(Z)'
      BY <1>4, <3>1, SoundStays DEF EvalInv, LinesOK
    <3>. QED BY <3>1, <3>2 DEF Sound, LineOK, Final, Begun
  <2>4. Sound(batchFile)'
    BY <2>1, <2>2 DEF Sound
  <2>. QED BY <1>1, <1>2, <2>2, <2>3, <2>4 DEF LinesOK
<1>8. RewritersOverlap'
  BY <1>1, <1>5 DEF EvalInv, RewritersOverlap
<1>9. AnswersAreOfLaterLines'
  BY <1>1, <1>4 DEF EvalInv, AnswersAreOfLaterLines, Forth
<1>10. ASSUME NEW c \in Batch PROVE RowsAreCurrent(c)'
  <2>1. RowsAreCurrent(c) /\ (Rewriting(c)' <=> Rewriting(c))
    BY <1>5 DEF EvalInv
  <2>2. /\ batchRun'[c].rows = batchRun[c].rows /\ batchRun'[c].n = batchRun[c].n
        /\ batchRun'[c].final = batchRun[c].final
    BY <1>2, <1>4
  <2>. QED BY <1>1, <2>1, <2>2 DEF RowsAreCurrent, Final
<1>11. ASSUME NEW c \in Batch PROVE TmpIsCurrent(c)'
  <2>. SUFFICES ASSUME batchRun'[c].pc = "rename"
                PROVE  /\ c \notin overlapped' => batchTmp' = {batchRun'[c].rows}
                       /\ \A x \in Batch \ overlapped' : x # c => Same(Y, batchFile, x)
    BY <1>1, <1>2 DEF TmpIsCurrent, BatchAt
  <2>1. CASE c = b
    <3>1. RowsAreCurrent(b) /\ Rewriting(b)
      BY <1>1 DEF EvalInv, Rewriting
    <3>. QED BY <1>1, <1>2, <1>4, <2>1, <3>1 DEF RowsAreCurrent
  <2>2. CASE c # b
    <3>1. {b, c} \subseteq overlapped
      BY <1>4, <1>5, <2>2 DEF Rewriting
    <3>2. RowsAreCurrent(b) /\ Rewriting(b)
      BY <1>1 DEF EvalInv, Rewriting
    <3>. QED BY <1>1, <1>2, <3>1, <3>2 DEF RowsAreCurrent
  <2>. QED BY <2>1, <2>2
<1>12. ASSUME NEW x \in Batch PROVE LineIsKept(x)'
  <2>1. LineIsKept(x)
    BY DEF EvalInv
  <2>2. CASE x # b
    BY <1>1, <1>4, <2>1, <2>2 DEF LineIsKept, Has
  <2>3. CASE x = b
    BY <1>1, <1>4, <2>1, <2>3 DEF LineIsKept, Has, Recorded
  <2>. QED BY <2>2, <2>3
<1>. QED BY <1>4, <1>6, <1>7, <1>8, <1>9, <1>10, <1>11, <1>12 DEF EvalInv

\* The rename of a run that another process has overtaken.
LEMMA RaisingKeepsInv ==
  ASSUME EvalInv, NEW b \in Batch, batchRun[b].pc = "rename", batchTmp = {},
         batchRun' = [batchRun EXCEPT ![b].pc = "raised", ![b].rows = <<>>],
         UNCHANGED <<batchFile, batchTmp, evalFile, answer>>,
         overlapped \subseteq overlapped', overlapped' \subseteq Batch
  PROVE  EvalInv'
<1>1. b \in overlapped
  <2>1. TmpIsCurrent(b) /\ BatchAt(b, "rename")
    BY DEF EvalInv, BatchAt
  <2>. QED BY <2>1 DEF TmpIsCurrent
<1>2. PICK Y \in Seq(Line) : Y = <<>>
  <2>1. <<>> \in Seq(Line)
    OBVIOUS
  <2>. QED BY <2>1
<1>3. /\ batchRun' \in [Batch -> RunType]
      /\ \A x \in Batch : x # b => batchRun'[x] = batchRun[x]
      /\ batchRun'[b].pc = "raised" /\ batchRun'[b].rows = Y
      /\ \A x \in Batch : CountsOK(x)' /\ Forth(x)
  BY <1>2, GoIs, RunsAre
<1>4. \A c \in Batch : Rewriting(c)' <=> Rewriting(c) /\ c # b
  BY <1>3 DEF Rewriting
<1>5. BatchTypes'
  BY <1>3 DEF EvalInv, BatchTypes
<1>6. LinesOK'
  <2>1. PICK X \in Seq(Line) : X = batchFile /\ X = batchFile' /\ Sound(X)
    BY DEF EvalInv, BatchTypes, LinesOK
  <2>2. Sound(X)' /\ Sound(Y)'
    <3>1. DOMAIN Y = {}
      BY <1>2
    <3>2. Sound(Y)'
      BY <3>1 DEF Sound
    <3>3. Sound(X)'
      BY <1>3, <2>1, SoundStays
    <3>. QED BY <3>2, <3>3
  <2>3. ASSUME NEW c \in Batch PROVE Sound(batchRun[c].rows)'
    <3>1. CASE c = b
      BY <1>3, <2>2, <3>1 DEF Sound
    <3>2. CASE c # b
      <4>1. PICK Z \in Seq(Line) : Z = batchRun[c].rows /\ Z = batchRun'[c].rows
        BY <1>3, <3>2, RunsAre
      <4>2. Sound(Z)'
        BY <1>3, <4>1, SoundStays DEF EvalInv, LinesOK
      <4>. QED BY <4>1, <4>2 DEF Sound, LineOK, Final, Begun
    <3>. QED BY <3>1, <3>2
  <2>4. Sound(batchFile)'
    BY <2>1, <2>2 DEF Sound
  <2>. QED BY <2>3, <2>4 DEF LinesOK
<1>7. RewritersOverlap'
  BY <1>4 DEF EvalInv, RewritersOverlap
<1>8. AnswersAreOfLaterLines'
  BY <1>3 DEF EvalInv, AnswersAreOfLaterLines, Forth
<1>9. ASSUME NEW c \in Batch PROVE RowsAreCurrent(c)'
  <2>1. RowsAreCurrent(c)
    BY DEF EvalInv
  <2>2. CASE c # b
    BY <1>3, <1>4, <2>1, <2>2 DEF RowsAreCurrent, Final
  <2>3. CASE c = b
    BY <1>4, <2>3 DEF RowsAreCurrent
  <2>. QED BY <2>2, <2>3
<1>10. ASSUME NEW c \in Batch PROVE TmpIsCurrent(c)'
  <2>1. TmpIsCurrent(c)
    BY DEF EvalInv
  <2>2. CASE c # b
    BY <1>3, <2>1, <2>2 DEF TmpIsCurrent, BatchAt
  <2>3. CASE c = b
    BY <1>3, <2>3 DEF TmpIsCurrent, BatchAt
  <2>. QED BY <2>2, <2>3
<1>11. ASSUME NEW x \in Batch PROVE LineIsKept(x)'
  <2>1. LineIsKept(x)
    BY DEF EvalInv
  <2>2. CASE x # b
    BY <1>3, <2>1, <2>2 DEF LineIsKept, Has
  <2>3. CASE x = b
    BY <1>1, <2>3 DEF LineIsKept
  <2>. QED BY <2>2, <2>3
<1>. QED BY <1>3, <1>5, <1>6, <1>7, <1>8, <1>9, <1>10, <1>11 DEF EvalInv

\* What the renamed file says of those who did not overlap: the same as before,
\* but for the line of the run that renamed it.
LEMMA RenamedFileIs ==
  ASSUME EvalInv, NEW b \in Batch, batchRun[b].pc = "rename", NEW X \in batchTmp
  PROVE  /\ \A x \in Batch \ overlapped : x # b => Same(X, batchFile, x)
         /\ b \notin overlapped => \A i \in Nat :
              /\ Has(X, i, b) <=> Has(batchFile, i, b)
              /\ Has(X, i, b) =>
                   /\ Final(X[i]) <=> batchRun[b].final
                   /\ batchRun[b].final => X[i].done = batchRun[b].n
<1>1. RowsAreCurrent(b) /\ TmpIsCurrent(b) /\ Rewriting(b) /\ BatchAt(b, "rename")
  BY DEF EvalInv, Rewriting, BatchAt
<1>2. b \notin overlapped => X = batchRun[b].rows
  BY <1>1 DEF TmpIsCurrent
<1>. QED BY <1>1, <1>2 DEF RowsAreCurrent, TmpIsCurrent

\* r is how b goes on after its update: at pc, with fi as the kind of its next one.
GoesOn(b, r, pc, fi) ==
  /\ r = [batchRun[b] EXCEPT !.pc = pc, !.rows = <<>>, !.final = fi]
  /\ r = AfterUpdate(batchRun[b])
  /\ batchRun[b].final => pc = "ended" /\ fi
  /\ ~batchRun[b].final => pc # "ended"
  /\ pc = "collect" => batchRun[b].done < batchRun[b].n /\ ~fi
  /\ pc = "read" => batchRun[b].done = batchRun[b].n

LEMMA RenamingKeepsInv ==
  ASSUME EvalInv, NEW b \in Batch, batchRun[b].pc = "rename", NEW X \in batchTmp,
         batchFile' = X, batchTmp' = {}, batchRun' = [batchRun EXCEPT ![b] = AfterUpdate(@)],
         UNCHANGED <<evalFile, answer>>,
         overlapped \subseteq overlapped', overlapped' \subseteq Batch
  PROVE  EvalInv'
<1>1. PICK pc \in {"ended", "collect", "read"}, fi \in BOOLEAN, r \in RunType : GoesOn(b, r, pc, fi)
  <2>1. batchRun[b].done <= batchRun[b].n
    BY DEF EvalInv, CountsOK
  <2>2. \A pc \in {"ended", "collect", "read"}, fi \in BOOLEAN :
          [batchRun[b] EXCEPT !.pc = pc, !.rows = <<>>, !.final = fi] \in RunType
    <3>1. \A pc \in {"ended", "collect", "read"} : pc \in EvalPC
      BY DEF EvalPC
    <3>2. <<>> \in Seq(Line)
      OBVIOUS
    <3>. QED BY <3>1, <3>2, RunsAre DEF RunType
  <2>3. CASE batchRun[b].final
    <3>1. AfterUpdate(batchRun[b]) = [batchRun[b] EXCEPT !.pc = "ended", !.rows = <<>>]
      BY <2>3 DEF AfterUpdate
    <3>2. AfterUpdate(batchRun[b]) =
            [batchRun[b] EXCEPT !.pc = "ended", !.rows = <<>>, !.final = batchRun[b].final]
      BY <3>1, RunsAre DEF RunType
    <3>. QED BY <2>2, <2>3, <3>2, RunsAre DEF GoesOn
  <2>4. CASE ~batchRun[b].final /\ batchRun[b].done < batchRun[b].n
    <3>1. AfterUpdate(batchRun[b]) = [batchRun[b] EXCEPT !.pc = "collect", !.rows = <<>>]
      BY <2>4, RunsAre DEF AfterUpdate
    <3>2. AfterUpdate(batchRun[b]) =
            [batchRun[b] EXCEPT !.pc = "collect", !.rows = <<>>, !.final = batchRun[b].final]
      BY <3>1, RunsAre DEF RunType
    <3>. QED BY <2>2, <2>4, <3>2, RunsAre DEF GoesOn
  <2>5. CASE ~batchRun[b].final /\ batchRun[b].done = batchRun[b].n
    <3>1. AfterUpdate(batchRun[b]) =
            [batchRun[b] EXCEPT !.pc = "read", !.rows = <<>>, !.final = TRUE]
      BY <2>5, RunsAre DEF AfterUpdate
    <3>2. PICK fi \in BOOLEAN :
            fi /\ AfterUpdate(batchRun[b]) =
                    [batchRun[b] EXCEPT !.pc = "read", !.rows = <<>>, !.final = fi]
      BY <3>1, TRUE \in BOOLEAN, Zenon
    <3>3. [batchRun[b] EXCEPT !.pc = "read", !.rows = <<>>, !.final = fi] \in RunType
      BY <2>2
    <3>4. PICK pc \in {"ended", "collect", "read"} : pc = "read"
      OBVIOUS
    <3>5. PICK r \in RunType : r = [batchRun[b] EXCEPT !.pc = pc, !.rows = <<>>, !.final = fi]
      BY <3>3, <3>4
    <3>6. r = AfterUpdate(batchRun[b])
      BY <3>2, <3>4, <3>5
    <3>7. /\ pc # "ended" /\ pc # "collect"
          /\ ~batchRun[b].final /\ batchRun[b].done = batchRun[b].n
      BY <2>5, <3>4
    <3>8. GoesOn(b, r, pc, fi)
      BY <3>5, <3>6, <3>7 DEF GoesOn
    <3>. QED BY <3>8, Zenon
  <2>. QED BY <2>1, <2>3, <2>4, <2>5, RunsAre
<1>2. /\ r.pc = pc /\ r.rows = <<>> /\ r.final = fi /\ r.n = batchRun[b].n
      /\ r.done = batchRun[b].done /\ r.failed = batchRun[b].failed
  BY <1>1, RunsAre DEF RunType, GoesOn
<1>3. /\ batchRun' \in [Batch -> RunType] /\ batchRun'[b] = r
      /\ \A x \in Batch : x # b => batchRun'[x] = batchRun[x]
  <2>1. batchRun' = [batchRun EXCEPT ![b] = r]
    BY <1>1 DEF GoesOn
  <2>. QED BY <2>1, OneMoves
<1>4. ASSUME NEW x \in Batch PROVE CountsOK(x)' /\ Forth(x)
  <2>1. CountsOK(x)
    BY DEF EvalInv
  <2>2. CASE x = b
    <3>1. Forth(x)
      BY <1>1, <1>2, <1>3, <2>2 DEF Begun, Forth, GoesOn
    <3>2. CountsOK(x)'
      BY <1>1, <1>2, <1>3, <2>1, <2>2, RunsAre DEF CountsOK, GoesOn
    <3>. QED BY <3>1, <3>2
  <2>3. CASE x # b
    BY <1>3, <2>1, <2>3 DEF CountsOK, Begun, Forth
  <2>. QED BY <2>2, <2>3
<1>5. \A c \in Batch : Rewriting(c)' => c # b /\ Rewriting(c) /\ {b, c} \subseteq overlapped
  <2>1. Rewriting(b) /\ ~Rewriting(b)'
    BY <1>1, <1>2, <1>3 DEF Rewriting, GoesOn
  <2>2. \A c \in Batch : c # b => (Rewriting(c)' <=> Rewriting(c))
    BY <1>3 DEF Rewriting
  <2>. QED BY <2>1, <2>2 DEF EvalInv, RewritersOverlap
<1>6. X \in Seq(Line) /\ Sound(X)
  BY DEF EvalInv, BatchTypes, LinesOK
<1>7. BatchTypes'
  BY <1>3, <1>6 DEF EvalInv, BatchTypes
<1>8. LinesOK'
  <2>1. Sound(X)'
    BY <1>4, <1>6, SoundStays
  <2>2. ASSUME NEW c \in Batch PROVE Sound(batchRun[c].rows)'
    <3>1. CASE c = b
      BY <1>2, <1>3, <3>1 DEF Sound
    <3>2. CASE c # b
      <4>1. PICK Z \in Seq(Line) : Z = batchRun[c].rows /\ Z = batchRun'[c].rows
        BY <1>3, <3>2, RunsAre
      <4>2. Sound(Z)'
        BY <1>4, <4>1, SoundStays DEF EvalInv, LinesOK
      <4>. QED BY <4>1, <4>2 DEF Sound, LineOK, Final, Begun
    <3>. QED BY <3>1, <3>2
  <2>. QED BY <2>1, <2>2 DEF LinesOK, Sound
<1>9. RewritersOverlap'
  BY <1>5 DEF EvalInv, RewritersOverlap
<1>10. \A x \in Batch \ overlapped : \A i \in Nat : Has(X, i, x) <=> Has(batchFile, i, x)
  BY RenamedFileIs DEF Same
<1>11. AnswersAreOfLaterLines'
  <2>. SUFFICES ASSUME NEW a \in Batch, NEW x \in Batch, answer[x] = a
                PROVE  /\ Begun(a)' /\ Begun(x)'
                       /\ a # x /\ {a, x} \cap overlapped' = {} =>
                            \A i, j \in Nat : Has(X, i, a) /\ Has(X, j, x) => i > j
    BY DEF AnswersAreOfLaterLines
  <2>1. /\ Begun(a) /\ Begun(x)
        /\ a # x /\ {a, x} \cap overlapped = {} =>
             \A i, j \in Nat : Has(batchFile, i, a) /\ Has(batchFile, j, x) => i > j
    BY DEF EvalInv, AnswersAreOfLaterLines
  <2>. QED BY <1>4, <1>10, <2>1 DEF Forth
<1>12. ASSUME NEW c \in Batch PROVE RowsAreCurrent(c)'
  <2>. SUFFICES ASSUME Rewriting(c)'
                PROVE  /\ c \in overlapped'
                       /\ \A x \in Batch \ overlapped' :
                            x # c => Same(batchRun'[c].rows, X, x)
    BY DEF RowsAreCurrent
  <2>1. c # b /\ Rewriting(c) /\ {b, c} \subseteq overlapped /\ batchRun'[c] = batchRun[c]
    BY <1>3, <1>5
  <2>2. RowsAreCurrent(c)
    BY DEF EvalInv
  <2>3. ASSUME NEW x \in Batch \ overlapped', x # c
        PROVE  Same(batchRun'[c].rows, X, x)
    <3>1. x \notin overlapped /\ x # b
      BY <2>1, <2>3
    <3>2. Same(X, batchFile, x)
      BY <3>1, RenamedFileIs
    <3>3. Same(batchRun[c].rows, batchFile, x)
      BY <2>1, <2>2, <2>3, <3>1 DEF RowsAreCurrent
    <3>. QED BY <2>1, <3>2, <3>3 DEF Same
  <2>. QED BY <2>1, <2>3
<1>13. ASSUME NEW c \in Batch PROVE TmpIsCurrent(c)'
  <2>1. BatchAt(c, "rename")' => Rewriting(c)'
    BY DEF BatchAt, Rewriting
  <2>. QED BY <1>5, <2>1 DEF TmpIsCurrent
<1>14. ASSUME NEW x \in Batch PROVE LineIsKept(x)'
  <2>. SUFFICES ASSUME x \notin overlapped
                PROVE  /\ batchRun'[x].pc \in Recorded => \E i \in Nat : Has(X, i, x)
                       /\ batchRun'[x].pc = "raised" => \A i \in Nat : ~Has(X, i, x)
                       /\ \A i, j \in Nat : Has(X, i, x) /\ Has(X, j, x) => i = j
                       /\ \A i \in Nat : Has(X, i, x) =>
                            /\ Final(X[i]) <=> batchRun'[x].pc = "ended"
                            /\ batchRun'[x].pc = "ended" => X[i].done = batchRun'[x].n
    BY DEF LineIsKept, Final
  <2>1. LineIsKept(x) /\ \A i \in Nat : Has(X, i, x) <=> Has(batchFile, i, x)
    BY <1>10 DEF EvalInv
  <2>2. CASE x # b
    <3>1. \A i \in Nat : Has(X, i, x) => X[i] = batchFile[i]
      BY <2>2, RenamedFileIs DEF Same
    <3>. QED BY <1>3, <2>1, <2>2, <3>1 DEF LineIsKept
  <2>3. CASE x = b
    <3>1. /\ \E i \in Nat : Has(X, i, x)
          /\ \A i, j \in Nat : Has(X, i, x) /\ Has(X, j, x) => i = j
      BY <2>1, <2>3 DEF LineIsKept, Recorded
    <3>2. batchRun'[x].pc = "ended" <=> batchRun[x].final
      BY <1>1, <1>2, <1>3, <2>3 DEF GoesOn
    <3>3. \A i \in Nat : Has(X, i, x) =>
            /\ Final(X[i]) <=> batchRun[x].final
            /\ batchRun[x].final => X[i].done = batchRun[x].n
      BY <2>3, RenamedFileIs
    <3>. QED BY <1>2, <1>3, <2>3, <3>1, <3>2, <3>3, <1>1 DEF GoesOn
  <2>. QED BY <2>2, <2>3
<1>. QED BY <1>3, <1>4, <1>7, <1>8, <1>9, <1>11, <1>12, <1>13, <1>14 DEF EvalInv

LEMMA EvalStepKeepsInv == EvalInv /\ [EvalNext]_evalVars => EvalInv'
<1>. SUFFICES ASSUME EvalInv, [EvalNext]_evalVars PROVE EvalInv'
  OBVIOUS
<1>1. ASSUME NEW b \in Batch, Rename(b) PROVE EvalInv'
  <2>1. /\ batchRun[b].pc = "rename" /\ UNCHANGED <<evalFile, answer>>
        /\ overlapped \subseteq overlapped' /\ overlapped' \subseteq Batch
    BY <1>1 DEF Rename, BatchAt, Overlaps, EvalInv, BatchTypes
  <2>2. CASE /\ batchFile' \in batchTmp /\ batchTmp' = {}
             /\ batchRun' = [batchRun EXCEPT ![b] = AfterUpdate(@)]
    <3>1. PICK X \in batchTmp : batchFile' = X
      BY <2>2
    <3>. QED BY <2>1, <2>2, <3>1, RenamingKeepsInv
  <2>3. CASE /\ batchTmp = {} /\ UNCHANGED <<batchFile, batchTmp>>
             /\ batchRun' = [batchRun EXCEPT ![b].pc = "raised", ![b].rows = <<>>]
    BY <2>1, <2>3, RaisingKeepsInv
  <2>. QED BY <1>1, <2>2, <2>3 DEF Rename
<1>2. ASSUME NEW b \in Batch, StartBatch(b) \/ NoOrchestrator(b) PROVE EvalInv'
  BY <1>2, GoingKeepsInv DEF StartBatch, NoOrchestrator
<1>3. CASE UNCHANGED evalVars
  <2>1. \A x \in Batch : MovesOn(x) /\ CountsOK(x)'
    BY <1>3, UnmovedAreOK DEF evalVars
  <2>. QED BY <1>3, <2>1, MovesKeepInv DEF evalVars, EvalInv, BatchTypes
<1>. QED BY <1>1, <1>2, <1>3, AppendKeepsInv, PeekKeepsInv, ReplayKeepsInv, JudgingKeepsInv,
            ReadKeepsInv, WriteKeepsInv, CleanupKeepsInv, KillKeepsInv
         DEF EvalNext, BatchStep

LEMMA EvalInvSuffices ==
  ASSUME EvalInv
  PROVE  EvalTypeOK /\ OnlyOverlapForgetsBatches /\ VerdictsAddUp /\ OnlyRacesMisname
<1>1. EvalTypeOK
  <2>1. batchTmp \subseteq Seq(Line) /\ Cardinality(batchTmp) <= 1
    <3>1. CASE batchTmp = {}
      BY <3>1, FS_EmptySet
    <3>2. CASE \E X \in Seq(Line) : batchTmp = {X}
      <4>1. PICK X \in Seq(Line) : batchTmp = {X}
        BY <3>2
      <4>2. Cardinality({X}) = 1
        BY FS_Singleton
      <4>. QED BY <4>1, <4>2
    <3>. QED BY <3>1, <3>2 DEF EvalInv, BatchTypes
  <2>. QED BY <2>1 DEF EvalTypeOK, EvalInv, BatchTypes, RunType
<1>2. OnlyOverlapForgetsBatches
  <2>. SUFFICES ASSUME NEW b \in Batch, BatchAt(b, "ended"), b \notin overlapped
                PROVE  \E i \in DOMAIN batchFile :
                         /\ batchFile[i].id = b /\ Final(batchFile[i])
                         /\ batchFile[i].done = batchRun[b].n
                         /\ \A j \in DOMAIN batchFile : batchFile[j].id = b => j = i
    BY DEF OnlyOverlapForgetsBatches
  <2>1. LineIsKept(b) /\ batchRun[b].pc = "ended"
    BY DEF EvalInv, BatchAt
  <2>2. PICK i \in Nat : Has(batchFile, i, b)
    BY <2>1 DEF LineIsKept, Recorded
  <2>3. Final(batchFile[i]) /\ batchFile[i].done = batchRun[b].n
    BY <2>1, <2>2 DEF LineIsKept
  <2>4. DOMAIN batchFile \subseteq Nat
    BY DEF EvalInv, BatchTypes
  <2>5. \A j \in DOMAIN batchFile : batchFile[j].id = b => j = i
    BY <2>1, <2>2, <2>4 DEF LineIsKept, Has
  <2>. QED BY <2>2, <2>3, <2>5 DEF Has
<1>3. VerdictsAddUp
  BY DEF EvalInv, LinesOK, Sound, LineOK, VerdictsAddUp
<1>4. OnlyRacesMisname
  <2>1. DOMAIN batchFile \subseteq Nat
    BY DEF EvalInv, BatchTypes
  <2>. QED BY <2>1 DEF EvalInv, AnswersAreOfLaterLines, OnlyRacesMisname, Lines, Has
<1>. QED BY <1>1, <1>2, <1>3, <1>4

\* No step changes the outcome of a run that did not overlap.
LEMMA StepKeepsOutcomes ==
  ASSUME EvalInv, [EvalNext]_evalVars, NEW i \in DOMAIN batchFile, Final(batchFile[i])
  PROVE  \/ \E j \in DOMAIN batchFile' : batchFile'[j] = batchFile[i]
         \/ batchFile[i].id \in overlapped'
<1>1. batchFile \in Seq(Line) /\ i \in 1..Len(batchFile) /\ batchFile[i].id \in Batch
  <2>1. batchFile \in Seq(Line)
    BY DEF EvalInv, BatchTypes
  <2>2. batchFile[i] \in Line
    BY <2>1
  <2>. QED BY <2>1, <2>2 DEF Line
<1>2. CASE batchFile' = batchFile
  BY <1>2
<1>3. ASSUME NEW b \in Batch, AppendBatch(b)
      PROVE  \E j \in DOMAIN batchFile' : batchFile'[j] = batchFile[i]
  <2>1. PICK l : batchFile' = Append(batchFile, l)
    BY <1>3 DEF AppendBatch
  <2>2. i \in DOMAIN batchFile' /\ batchFile'[i] = batchFile[i]
    BY <1>1, <2>1
  <2>. QED BY <2>2
<1>4. ASSUME NEW b \in Batch, Rename(b), batchFile' # batchFile
      PROVE  \/ \E j \in DOMAIN batchFile' : batchFile'[j] = batchFile[i]
             \/ batchFile[i].id \in overlapped'
  <2>1. PICK X \in batchTmp : batchFile' = X
    BY <1>4 DEF Rename
  <2>2. batchRun[b].pc = "rename" /\ overlapped \subseteq overlapped'
    BY <1>4 DEF Rename, BatchAt
  <2>3. PICK x \in Batch : x = batchFile[i].id /\ Has(batchFile, i, x)
    BY <1>1 DEF Has
  <2>4. CASE x \in overlapped
    BY <2>2, <2>3, <2>4
  <2>5. CASE x \notin overlapped /\ x = b
    <3>1. LineIsKept(b) /\ i \in Nat
      BY <1>1 DEF EvalInv
    <3>. QED BY <2>2, <2>3, <2>5, <3>1 DEF LineIsKept
  <2>6. CASE x \notin overlapped /\ x # b
    <3>1. Same(X, batchFile, x) /\ i \in Nat
      BY <1>1, <2>2, <2>6, RenamedFileIs
    <3>2. i \in DOMAIN X /\ X[i] = batchFile[i]
      BY <2>3, <3>1 DEF Same, Has
    <3>. QED BY <2>1, <3>2
  <2>. QED BY <2>4, <2>5, <2>6
<1>5. \/ batchFile' = batchFile
      \/ \E b \in Batch : AppendBatch(b)
      \/ \E b \in Batch : Rename(b)
  BY DEF EvalNext, BatchStep, evalVars, StartBatch, KillProcess, Cleanup, NoOrchestrator, Peek,
         Replay, Judge, JudgeForNobody, ReadRows, WriteTmp
<1>. QED BY <1>2, <1>3, <1>4, <1>5

\* The file of batches loses or changes the line of a batch only when two
\* processes rewrite it at once, although every update reads it outside the lock
\* (storage.py): otherwise every batch that ended has its line and its outcome,
\* the outcome adds up and stays, and clients are told the id of their own run.
THEOREM OnlyTwoProcessesHurtBatches == EvalSpec => OnlyRacesHurtBatches
<1>1. EvalInv => EvalTypeOK /\ OnlyOverlapForgetsBatches /\ VerdictsAddUp /\ OnlyRacesMisname
  BY EvalInvSuffices
<1>2. EvalInv /\ [EvalNext]_evalVars =>
        [\A i \in DOMAIN batchFile :
           Final(batchFile[i]) =>
             \/ \E j \in DOMAIN batchFile' : batchFile'[j] = batchFile[i]
             \/ batchFile[i].id \in overlapped']_evalVars
  BY StepKeepsOutcomes
<1>. QED BY <1>1, <1>2, EvalInitInv, EvalStepKeepsInv, PTL
         DEF EvalSpec, OnlyRacesHurtBatches, OutcomesStay

-----------------------------------------------------------------------------
(* The statistics: the dashboards account for the log, whatever is in it.   *)
(* Nothing has to be known of the log but its type: what is proved is what *)
(* the functions return.  The buckets, the bins and the windows of a trend *)
(* part the scores; a sorted list is a permutation in the order of its     *)
(* keys, of which the percentiles and the outliers are places.             *)

\* Scores are numbers.
LEMMA ScoresAreNumbers == \A r \in EvalRecord : r.score \in Int
<1>1. Scores \subseteq Int
  BY StatisticsAssumption DEF NotScored
<1>2. \A r \in EvalRecord : r.score \in Scores
  BY DEF EvalRecord
<1> QED BY <1>1, <1>2

\* The scores of a list of records are those of its scored records, in order.
LEMMA ValuesAreScores ==
  ASSUME NEW rs \in Seq(EvalRecord)
  PROVE  /\ WithScore(rs) \in Seq(EvalRecord)
         /\ ToSet(WithScore(rs)) = {r \in ToSet(rs) : r.score # NotScored}
         /\ ValuesFor(rs) \in Seq(Scores) /\ ValuesFor(rs) \in Seq(0..(2 * Top))
         /\ ValuesFor(rs) \in Seq(Int)
         /\ Len(ValuesFor(rs)) = Len(WithScore(rs))
         /\ \A i \in 1..Len(WithScore(rs)) : ValuesFor(rs)[i] = WithScore(rs)[i].score
         /\ ToSet(ValuesFor(rs)) = {r.score : r \in ToSet(WithScore(rs))}
<1> DEFINE w == WithScore(rs)
           scored == {r \in EvalRecord : r.score # NotScored}
<1>1. w \in Seq(EvalRecord) /\ ToSet(w) = ToSet(rs) \cap scored
  BY ThoseHold DEF WithScore
<1>2. ToSet(rs) \subseteq EvalRecord
  BY DEF ToSet
<1>3. ToSet(w) = {r \in ToSet(rs) : r.score # NotScored}
  BY <1>1, <1>2
<1>4. \A r \in scored : r.score \in Scores /\ r.score \in 0..(2 * Top) /\ r.score \in Int
  <2>1. \A r \in scored : r.score \in Scores /\ r.score \in 0..(2 * Top)
    BY StatisticsAssumption DEF EvalRecord, NotScored
  <2>2. \A r \in scored : r.score \in Int
    BY ScoresAreNumbers
  <2> QED BY <2>1, <2>2
<1>5. ValuesFor(rs) = [i \in DOMAIN w |-> w[i].score]
  BY DEF ValuesFor, ScoresOf
<1> HIDE DEF w
<1>6. PICK n \in Nat : n = Len(w) /\ DOMAIN w = 1..n
  BY <1>1
<1>7. \A i \in 1..n : w[i] \in scored
  BY <1>1, <1>6 DEF ToSet
<1>8. \A i \in 1..n :
        w[i].score \in Scores /\ w[i].score \in 0..(2 * Top) /\ w[i].score \in Int
  BY <1>4, <1>7
<1>9. ValuesFor(rs) = [i \in 1..n |-> w[i].score]
  BY <1>5, <1>6
<1>10. /\ ValuesFor(rs) \in Seq(Scores) /\ ValuesFor(rs) \in Seq(0..(2 * Top))
       /\ ValuesFor(rs) \in Seq(Int) /\ Len(ValuesFor(rs)) = n
  BY <1>6, <1>8, <1>9
<1>11. ToSet(ValuesFor(rs)) = {r.score : r \in ToSet(w)}
  BY <1>6, <1>9 DEF ToSet
<1> QED BY <1>1, <1>3, <1>6, <1>9, <1>10, <1>11 DEF w

\* The scores of a part of a list.
LEMMA ValuesOfThose ==
  ASSUME NEW rs \in Seq(EvalRecord), NEW T
  PROVE  /\ Those(rs, T) \in Seq(EvalRecord)
         /\ Len(ValuesFor(Those(rs, T))) = Len(Those(WithScore(rs), T))
         /\ ToSet(ValuesFor(Those(rs, T))) \subseteq ToSet(ValuesFor(rs))
<1> DEFINE scored == {r \in EvalRecord : r.score # NotScored}
<1>1. Those(rs, T) \in Seq(EvalRecord) /\ ToSet(Those(rs, T)) \subseteq ToSet(rs)
  BY ThoseHold
<1>2. WithScore(Those(rs, T)) = Those(rs, T \cap scored)
  BY ThoseTwice DEF WithScore
<1>3. Those(WithScore(rs), T) = Those(rs, scored \cap T)
  BY ThoseTwice DEF WithScore
<1>4. T \cap scored = scored \cap T
  OBVIOUS
<1>5. Len(ValuesFor(Those(rs, T))) = Len(Those(WithScore(rs), T))
  BY <1>1, <1>2, <1>3, <1>4, ValuesAreScores
<1>6. /\ ToSet(ValuesFor(Those(rs, T))) = {r.score : r \in ToSet(WithScore(Those(rs, T)))}
      /\ ToSet(WithScore(Those(rs, T))) = {r \in ToSet(Those(rs, T)) : r.score # NotScored}
  BY <1>1, ValuesAreScores
<1>7. /\ ToSet(ValuesFor(rs)) = {r.score : r \in ToSet(WithScore(rs))}
      /\ ToSet(WithScore(rs)) = {r \in ToSet(rs) : r.score # NotScored}
  BY ValuesAreScores
<1>8. ToSet(ValuesFor(Those(rs, T))) \subseteq ToSet(ValuesFor(rs))
  BY <1>1, <1>6, <1>7
<1> QED BY <1>1, <1>5, <1>8

\* A bucket starts no later than its times and ends after them.
LEMMA BucketsHold ==
  ASSUME NEW t \in Nat
  PROVE  BucketOf(t) \in Int /\ BucketOf(t) <= t /\ t < BucketOf(t) + Bucket
<1>1. PICK b \in Nat \ {0} : b = Bucket
  BY StatisticsAssumption
<1>2. (t \div b) * b <= t /\ t < (t \div b) * b + b /\ t \div b \in Nat
  OBVIOUS
<1> QED BY <1>1, <1>2 DEF BucketOf

\* Every score has a bin.
LEMMA BinsHold ==
  ASSUME NEW v \in 0..(2 * Top)
  PROVE  BinOf(v) \in 0..(Bins - 1)
<1>1. PICK top \in Nat \ {0}, bins \in Nat \ {0} : top = Top /\ bins = Bins
  BY StatisticsAssumption
<1>2. PICK u \in Nat : u = LeastOf(v, Top)
  BY <1>1 DEF LeastOf
<1>3. u * bins \in Nat
  BY <1>1, <1>2
<1>4. PICK q \in Nat : q = (u * bins) \div top
  BY <1>1, <1>3
<1>5. BinOf(v) = LeastOf(q, bins - 1)
  BY <1>1, <1>2, <1>4 DEF BinOf
<1> QED BY <1>1, <1>5 DEF LeastOf

\* The series and the histogram count every score once: buckets are the values
\* of a function of the time, bins of a function of the score.
LEMMA SeriesCountScores ==
  ASSUME evalLog \in Seq(EvalRecord)
  PROVE  EveryScoreIsCountedOnce
<1> DEFINE w == WithScore(evalLog)
           v == ValuesFor(evalLog)
           series == TimeSeries(evalLog)
           D == {BucketOf(r.at) : r \in ToSet(w)}
           points == SetToSeq(D)
           At(b) == {r \in EvalRecord : BucketOf(r.at) = b}
<1>1. /\ w \in Seq(EvalRecord) /\ v \in Seq(Scores) /\ v \in Seq(0..(2 * Top))
      /\ Len(v) = Len(w) /\ Len(w) \in Nat /\ ToSet(w) \subseteq EvalRecord
  <2>1. w \in Seq(EvalRecord) /\ v \in Seq(Scores) /\ v \in Seq(0..(2 * Top)) /\ Len(v) = Len(w)
    BY ValuesAreScores
  <2> HIDE DEF w, v
  <2> QED BY <2>1 DEF ToSet
<1>2. DOMAIN series = D
  BY DEF TimeSeries
<1>3. \A b \in D : series[b].n = Len(Those(w, At(b)))
  <2>1. \A b \in D : series[b].n = Len(InBucket(evalLog, b))
    BY DEF TimeSeries
  <2>2. \A b : Len(InBucket(evalLog, b)) = Len(Those(w, At(b)))
    BY ValuesOfThose DEF InBucket
  <2> QED BY <2>1, <2>2
<1>4. IsFiniteSet(D)
  <2>1. PICK n \in Nat : n = Len(w) /\ w \in [1..n -> EvalRecord]
    BY <1>1
  <2> HIDE DEF w
  <2> DEFINE f == [i \in 1..n |-> BucketOf(w[i].at)]
  <2>2. D = {f[i] : i \in 1..n}
    BY <2>1 DEF ToSet
  <2>3. f \in Surjection(1..n, D)
    BY <2>2 DEF Surjection
  <2>4. IsFiniteSet(1..n)
    BY FS_Interval
  <2> QED BY <2>3, <2>4, FS_Surjection
<1>5. PICK N \in Nat : /\ N = Cardinality(D) /\ DOMAIN points = 1..N
                       /\ points \in Seq(D)
                       /\ \A i, j \in 1..N : points[i] = points[j] => i = j
                       /\ \A d \in D : \E i \in 1..N : points[i] = d
  <2> HIDE DEF D
  <2> QED BY <1>4, SetToSeqLists
<1>6. Added([i \in DOMAIN points |-> series[points[i]].n]) = Len(v)
  <2> DEFINE B == [i \in 1..N |-> At(points[i])]
  <2>1. \A i \in 1..N : points[i] \in D
    <3> HIDE DEF points, D
    <3> QED BY <1>5
  <2>2. [i \in DOMAIN points |-> series[points[i]].n] = [i \in 1..N |-> Len(Those(w, B[i]))]
    <3> HIDE DEF series, points, w, D, At
    <3> QED BY <1>3, <1>5, <2>1
  <2>3. \A i, j \in 1..N : i # j => B[i] \cap B[j] = {}
    <3> HIDE DEF points, D
    <3> QED BY <1>5
  <2>4. ToSet(w) \subseteq UNION {B[i] : i \in 1..N}
    <3> SUFFICES ASSUME NEW r \in ToSet(w) PROVE \E i \in 1..N : r \in B[i]
      OBVIOUS
    <3>1. r \in EvalRecord /\ BucketOf(r.at) \in D
      BY <1>1
    <3> HIDE DEF points, D
    <3>2. PICK i \in 1..N : points[i] = BucketOf(r.at)
      BY <1>5, <3>1
    <3> QED BY <3>1, <3>2
  <2> HIDE DEF B, w
  <2>5. Added([i \in 1..N |-> Len(Those(w, B[i]))]) = Len(w)
    BY <1>1, <2>3, <2>4, ThosePartition
  <2> QED BY <1>1, <2>2, <2>5
<1>7. Added(Histogram(evalLog)) = Len(v)
  <2>1. PICK bins \in Nat : bins = Bins
    BY StatisticsAssumption
  <2> DEFINE B == [k \in 1..bins |-> {x \in Scores : BinOf(x) = k - 1}]
  <2>2. Histogram(evalLog) = [k \in 1..bins |-> Len(Those(v, B[k]))]
    BY <2>1 DEF Histogram
  <2>3. \A i, j \in 1..bins : i # j => B[i] \cap B[j] = {}
    OBVIOUS
  <2> HIDE DEF v
  <2>4. ToSet(v) \subseteq UNION {B[k] : k \in 1..bins}
    <3> SUFFICES ASSUME NEW x \in ToSet(v) PROVE \E k \in 1..bins : x \in B[k]
      OBVIOUS
    <3>1. x \in Scores /\ x \in 0..(2 * Top)
      <4>1. PICK k \in DOMAIN v : x = v[k]
        BY DEF ToSet
      <4>2. v[k] \in Scores
        BY <1>1, <4>1
      <4>3. v[k] \in 0..(2 * Top)
        <5> DEFINE scale == 0..(2 * Top)
        <5>1. v \in Seq(scale)
          BY <1>1
        <5> HIDE DEF scale
        <5>2. v[k] \in scale
          BY <4>1, <5>1
        <5> QED BY <5>2 DEF scale
      <4> QED BY <4>1, <4>2, <4>3
    <3>2. BinOf(x) \in 0..(bins - 1)
      BY <2>1, <3>1, BinsHold
    <3>3. BinOf(x) + 1 \in 1..bins /\ (BinOf(x) + 1) - 1 = BinOf(x)
      BY <2>1, <3>2
    <3> QED BY <3>1, <3>3
  <2> HIDE DEF B
  <2>5. Added([k \in 1..bins |-> Len(Those(v, B[k]))]) = Len(v)
    BY <1>1, <2>3, <2>4, ThosePartition
  <2> QED BY <2>2, <2>5
<1>8. ASSUME NEW r \in ToSet(w)
      PROVE  \E b \in DOMAIN series : b <= r.at /\ r.at < b + Bucket
  <2>1. r.at \in Nat
    BY <1>1, StatisticsAssumption DEF EvalRecord
  <2>2. BucketOf(r.at) \in DOMAIN series
    BY <1>2
  <2> QED BY <2>1, <2>2, BucketsHold
<1> HIDE DEF w, v, series
<1>9. points = SetToSeq(DOMAIN series)
  BY <1>2
<1> QED BY <1>6, <1>7, <1>8, <1>9 DEF EveryScoreIsCountedOnce, w, v, series

\* The windows part the recent records; if these all have one score, so do
\* both windows, and the means are equal.
LEMMA TrendsCompare ==
  ASSUME evalLog \in Seq(EvalRecord)
  PROVE  TrendsCompareTwoWindows
<1>1. PICK now \in Nat, width \in Nat \ {0} : now = Today /\ width = Window
  BY StatisticsAssumption
<1> DEFINE new == Since(Today - Window)
           both == Since(Today - 2 * Window)
           recent == Those(evalLog, both)
           c == ValuesFor(CurrentWindow(evalLog))
           p == ValuesFor(PreviousWindow(evalLog))
<1>2. new \subseteq both
  <2>1. \A r \in EvalRecord : r.at \in Nat
    BY StatisticsAssumption DEF EvalRecord
  <2> QED BY <1>1, <2>1 DEF Since
<1>3. CurrentWindow(evalLog) = Those(evalLog, new) /\ PreviousWindow(evalLog) = Those(evalLog, both \ new)
  BY DEF CurrentWindow, PreviousWindow
<1>4. new \cap (both \ new) = {} /\ new \cup (both \ new) = both
  BY <1>2
<1> HIDE DEF new, both
<1>5. Len(CurrentWindow(evalLog)) + Len(PreviousWindow(evalLog)) = Len(recent)
  BY <1>3, <1>4, ThoseSplit
<1>6. recent \in Seq(EvalRecord)
  BY ThoseHold
<1>7. CurrentWindow(evalLog) = Those(recent, new) /\ PreviousWindow(evalLog) = Those(recent, both \ new)
  <2>1. both \cap new = new /\ both \cap (both \ new) = both \ new
    BY <1>2
  <2> QED BY <1>3, <2>1, ThoseTwice
<1> HIDE DEF recent
<1>8. /\ ToSet(c) \subseteq ToSet(ValuesFor(recent)) /\ ToSet(p) \subseteq ToSet(ValuesFor(recent))
      /\ c \in Seq(0..(2 * Top)) /\ p \in Seq(0..(2 * Top))
      /\ ValuesFor(recent) \in Seq(0..(2 * Top))
  BY <1>6, <1>7, ValuesOfThose, ValuesAreScores
<1> HIDE DEF c, p
<1>9. ASSUME Cardinality(ToSet(ValuesFor(recent))) = 1 PROVE TrendDelta(evalLog).num = 0
  <2>1. PICK x : ToSet(ValuesFor(recent)) = {x}
    <3>1. PICK n \in Nat : n = Len(ValuesFor(recent)) /\ ValuesFor(recent) \in [1..n -> 0..(2 * Top)]
      <4> DEFINE q == ValuesFor(recent)
      <4>1. q \in Seq(0..(2 * Top))
        BY <1>8
      <4> DEFINE scale == 0..(2 * Top)
      <4> HIDE DEF q, scale
      <4>2. \E n \in Nat : n = Len(q) /\ q \in [1..n -> scale]
        <5>1. q \in Seq(scale)
          BY <4>1 DEF scale
        <5> QED BY <5>1
      <4> QED BY <4>2 DEF q, scale
    <3>2. ValuesFor(recent) \in Surjection(1..n, ToSet(ValuesFor(recent)))
      BY <3>1 DEF Surjection, ToSet
    <3>3. IsFiniteSet(1..n)
      BY FS_Interval
    <3>4. IsFiniteSet(ToSet(ValuesFor(recent)))
      BY <3>2, <3>3, FS_Surjection
    <3> QED BY <1>9, <3>4, FS_Singleton
  <2>2. x \in Nat
    <3>1. x \in ToSet(ValuesFor(recent))
      BY <2>1
    <3> QED BY <1>8, <3>1, StatisticsAssumption DEF ToSet
  <2>3. \A s \in Seq(0..(2 * Top)) : ToSet(s) \subseteq {x} =>
           Added(s) = x * Len(s)
    <3> SUFFICES ASSUME NEW s \in Seq(0..(2 * Top)), ToSet(s) \subseteq {x}
                 PROVE  Added(s) = x * Len(s)
      OBVIOUS
    <3>1. \A i \in 1..Len(s) : s[i] = x
      BY DEF ToSet
    <3>2. s \in Seq(Nat)
      BY <2>2, <3>1
    <3> QED BY <2>2, <3>1, <3>2, AddedConstant
  <2>4. Added(c) = x * Len(c) /\ Added(p) = x * Len(p)
    BY <1>8, <2>1, <2>3
  <2>5. PICK k \in Nat, m \in Nat : k = Len(c) /\ m = Len(p)
    BY <1>8
  <2>6. Added(c) * Len(p) - Added(p) * Len(c) = 0
    <3>1. (x * k) * m = (x * m) * k /\ (x * k) * m \in Nat
      BY <2>2, <2>5
    <3> QED BY <2>4, <2>5, <3>1
  <2> QED BY <2>6 DEF TrendDelta, c, p
<1> QED BY <1>5, <1>9 DEF TrendsCompareTwoWindows, recent, both

\* The percentiles of any list of records.
LEMMA SummaryIsOrdered ==
  ASSUME NEW rs \in Seq(EvalRecord)
  PROVE  /\ Summary(rs).p10 <= Summary(rs).median /\ Summary(rs).median <= Summary(rs).p90
         /\ Summary(rs).count > 0 =>
              {Summary(rs).p10, Summary(rs).median, Summary(rs).p90} \subseteq ToSet(ValuesFor(rs))
<1> DEFINE v == ValuesFor(rs)
           s == SortedBy(v, v)
<1>1. v \in Seq(0..(2 * Top)) /\ v \in Seq(Int)
  BY ValuesAreScores
<1>2. PICK n \in Nat : n = Len(v)
  BY <1>1
<1> HIDE DEF v
<1>3. CASE n = 0
  BY <1>2, <1>3 DEF Summary, v
<1>4. CASE n # 0
  <2>1. PICK p : Sorts(p, n, v) /\ \A i \in 1..n : s[i] = v[p[i]]
    <3>1. \E p : Sorts(p, Len(v), v) /\ \A i \in 1..Len(v) : s[i] = v[p[i]]
      BY <1>1, SortedByHolds
    <3> HIDE DEF s
    <3> QED BY <1>2, <3>1
  <2> HIDE DEF s
  <2>2. \A i \in 1..n : s[i] \in ToSet(v) /\ s[i] \in Int
    <3>1. \A i \in 1..n : p[i] \in 1..n
      BY <2>1 DEF Sorts
    <3> QED BY <1>1, <1>2, <2>1, <3>1 DEF ToSet
  <2>3. ASSUME NEW i \in 1..n, NEW j \in 1..n, i <= j PROVE s[i] <= s[j]
    <3>1. CASE i = j
      BY <2>2, <3>1
    <3>2. CASE i # j
      <4>1. ComesBefore(v, p[i], p[j])
        BY <2>1, <2>3, <3>2 DEF Sorts
      <4> QED BY <2>1, <2>2, <4>1 DEF ComesBefore
    <3> QED BY <3>1, <3>2
  <2>4. PICK a \in 1..n, b \in 1..n, z \in 1..n :
          /\ a = n \div 10 + 1 /\ b = n \div 2 + 1
          /\ z = LeastOf(n - 1, (9 * n) \div 10) + 1
          /\ a <= b /\ b <= z
    <3>1. /\ n \div 10 \in Nat /\ n \div 2 \in Nat /\ (9 * n) \div 10 \in Nat
          /\ n \div 10 <= n \div 2 /\ n \div 2 <= (9 * n) \div 10 /\ n \div 2 <= n - 1
      BY <1>4
    <3> QED BY <1>4, <3>1 DEF LeastOf
  <2>5. Summary(rs) = [count |-> n, sum |-> Added(v), median |-> s[b], p10 |-> s[a], p90 |-> s[z]]
    BY <1>2, <1>4, <2>4 DEF Summary, v, s
  <2>6. s[a] <= s[b] /\ s[b] <= s[z]
    BY <2>3, <2>4
  <2> QED BY <2>2, <2>5, <2>6 DEF v
<1> QED BY <1>3, <1>4

\* The percentiles of a window are those of a list of records.
LEMMA PercentilesOrdered ==
  ASSUME evalLog \in Seq(EvalRecord)
  PROVE  PercentilesAreOrdered
<1> SUFFICES ASSUME NEW w \in {Window, 2 * Window, Today}
             PROVE  LET s == WindowedSummary(evalLog, w)
                        values == ValuesFor(Those(evalLog, Since(Today - w)))
                    IN  /\ s.p10 <= s.median /\ s.median <= s.p90
                        /\ s.count > 0 => {s.p10, s.median, s.p90} \subseteq ToSet(values)
  BY DEF PercentilesAreOrdered
<1>1. Those(evalLog, Since(Today - w)) \in Seq(EvalRecord)
  BY ThoseHold
<1> QED BY <1>1, SummaryIsOrdered DEF WindowedSummary

\* What is left out of the outliers comes later in the sorted list.
LEMMA OutliersWorst ==
  ASSUME evalLog \in Seq(EvalRecord)
  PROVE  OutliersAreTheWorst
<1> DEFINE low == {r \in EvalRecord : r.score # NotScored /\ r.score < Top}
           rs == Those(evalLog, low)
           keys == ScoresOf(rs)
           s == SortedBy(rs, keys)
           out == Outliers(evalLog, Top)
<1> SUFFICES ASSUME NEW i \in DOMAIN evalLog,
                    evalLog[i].score \notin {NotScored} \cup Top..(2 * Top),
                    evalLog[i] \notin ToSet(out),
                    NEW j \in DOMAIN out
             PROVE  out[j].score <= evalLog[i].score
  BY DEF OutliersAreTheWorst
<1>1. rs \in Seq(EvalRecord) /\ ToSet(rs) = ToSet(evalLog) \cap low
  BY ThoseHold
<1>2. \A r \in EvalRecord : r.score \in Int
  BY ScoresAreNumbers
<1>3. evalLog[i] \in ToSet(rs)
  <2>1. evalLog[i] \in EvalRecord /\ evalLog[i] \in ToSet(evalLog)
    BY DEF ToSet
  <2>2. evalLog[i].score < Top
    <3>1. evalLog[i].score \in {NotScored} \cup 0..(2 * Top) /\ Top \in Nat
      BY <2>1, StatisticsAssumption DEF EvalRecord
    <3> QED BY <3>1
  <2>3. evalLog[i].score # NotScored
    OBVIOUS
  <2> QED BY <1>1, <2>1, <2>2, <2>3
<1>4. out = SubSeq(s, 1, LeastOf(OutlierLimit, Len(s)))
  BY DEF Outliers
<1> HIDE DEF rs, out
<1>5. PICK n \in Nat : n = Len(rs) /\ DOMAIN rs = 1..n
  BY <1>1
<1>6. keys \in Seq(Int) /\ Len(keys) = n /\ \A k \in 1..n : keys[k] = rs[k].score
  <2>1. keys = [k \in 1..n |-> rs[k].score]
    BY <1>5 DEF ScoresOf
  <2>2. \A k \in 1..n : rs[k].score \in Int
    BY <1>1, <1>2, <1>5
  <2> HIDE DEF keys
  <2> QED BY <2>1, <2>2
<1> HIDE DEF keys
<1>7. /\ s \in Seq(EvalRecord) /\ Len(s) = n
      /\ \E p : Sorts(p, n, keys) /\ \A k \in 1..n : s[k] = rs[p[k]]
  <2>1. /\ s \in Seq(EvalRecord) /\ Len(s) = Len(rs)
        /\ \E p : Sorts(p, Len(rs), keys) /\ \A k \in 1..Len(rs) : s[k] = rs[p[k]]
    <3>1. \A r \in Seq(EvalRecord), k \in Seq(Int) : Len(k) = Len(r) =>
            /\ SortedBy(r, k) \in Seq(EvalRecord) /\ Len(SortedBy(r, k)) = Len(r)
            /\ \E p : /\ Sorts(p, Len(r), k)
                      /\ \A x \in 1..Len(r) : SortedBy(r, k)[x] = r[p[x]]
      BY SortedByHolds
    <3>2. Len(keys) = Len(rs)
      BY <1>5, <1>6
    <3> QED BY <1>1, <1>6, <3>1, <3>2
  <2> HIDE DEF s
  <2> QED BY <1>5, <2>1
<1>8. PICK p : Sorts(p, n, keys) /\ \A k \in 1..n : s[k] = rs[p[k]]
  BY <1>7
<1> HIDE DEF s
<1>9. PICK m \in 1..n : s[m] = evalLog[i]
  <2>1. PICK k \in 1..n : rs[k] = evalLog[i]
    BY <1>3, <1>5 DEF ToSet
  <2>2. PICK m \in 1..n : p[m] = k
    BY <1>8 DEF Sorts
  <2> QED BY <1>8, <2>1, <2>2
<1>10. PICK L \in 0..n : L = LeastOf(OutlierLimit, n)
  BY StatisticsAssumption DEF LeastOf
<1>11. DOMAIN out = 1..L /\ \A k \in 1..L : out[k] = s[k]
  BY <1>4, <1>7, <1>10, SubSeqProperties
<1>12. j \in 1..n /\ j < m /\ out[j] = s[j]
  <2>1. m \notin 1..L
    BY <1>9, <1>11 DEF ToSet
  <2> QED BY <1>9, <1>10, <1>11, <2>1
<1>13. ComesBefore(keys, p[j], p[m]) /\ p[j] \in 1..n /\ p[m] \in 1..n
  BY <1>8, <1>9, <1>12 DEF Sorts
<1>14. keys[p[j]] <= keys[p[m]]
  <2>1. keys[p[j]] \in Int /\ keys[p[m]] \in Int
    BY <1>6, <1>13
  <2> QED BY <1>13, <2>1 DEF ComesBefore
<1>15. out[j] = rs[p[j]] /\ evalLog[i] = rs[p[m]]
  BY <1>8, <1>9, <1>12
<1>16. keys[p[j]] = rs[p[j]].score /\ keys[p[m]] = rs[p[m]].score
  BY <1>6, <1>13
<1> QED BY <1>14, <1>15, <1>16

\* The dashboards account for the log: for any scores, times, windows, buckets
\* and bins, each score counts once in a series, a histogram and the windows of
\* a trend, and percentiles and outliers are those of the scores
\* (src/evaluation/aggregator.py).
THEOREM DashboardsAccount == StatisticsSpec => []DashboardsAccountForTheLog
<1>1. StatisticsInit => StatisticsTypeOK
  BY StatisticsAssumption DEF StatisticsInit, StatisticsTypeOK
<1>2. StatisticsTypeOK /\ [StatisticsNext]_evalLog => StatisticsTypeOK'
  <2> SUFFICES ASSUME StatisticsTypeOK, [StatisticsNext]_evalLog PROVE StatisticsTypeOK'
    OBVIOUS
  <2>1. CASE AppendRecord
    <3>1. PICK s \in Scores, t \in Times : evalLog' = Append(evalLog, [score |-> s, at |-> t])
      BY <2>1 DEF AppendRecord
    <3>2. [score |-> s, at |-> t] \in EvalRecord
      BY DEF EvalRecord
    <3>3. evalLog \in Seq(EvalRecord) /\ Len(evalLog) < MaxRecords /\ MaxRecords \in Nat
      BY <2>1, StatisticsAssumption DEF AppendRecord, StatisticsTypeOK
    <3>4. evalLog' \in Seq(EvalRecord) /\ Len(evalLog') = Len(evalLog) + 1
      BY <3>1, <3>2, <3>3, AppendProperties
    <3> QED BY <3>3, <3>4 DEF StatisticsTypeOK
  <2>2. CASE UNCHANGED evalLog
    BY <2>2 DEF StatisticsTypeOK
  <2> QED BY <2>1, <2>2 DEF StatisticsNext
<1>3. StatisticsTypeOK => DashboardsAccountForTheLog
  BY SeriesCountScores, TrendsCompare, PercentilesOrdered, OutliersWorst
     DEF StatisticsTypeOK, DashboardsAccountForTheLog
<1> QED BY <1>1, <1>2, <1>3, PTL DEF StatisticsSpec
===============================================================================
