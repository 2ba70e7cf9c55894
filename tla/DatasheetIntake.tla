---------------------------- MODULE DatasheetIntake ----------------------------
(***************************************************************************)
(* How datasheets arrive: the crawler of src/ingestion/crawler.py writes   *)
(* what it downloads into a directory, and the watchdog of                 *)
(* src/ingestion/watchdog_monitor.py submits the files created there for   *)
(* ingestion once they are DEBOUNCE_SECONDS old.                           *)
(*                                                                         *)
(* The observer's thread notes creations while process_pending works on    *)
(* the copy it took of them.  Files appear by being written, which takes   *)
(* time, or by being moved into place, which is no creation.               *)
(***************************************************************************)
EXTENDS Integers, FiniteSets

CONSTANTS
  File,         \* paths the watchdog looks at
  Scrap,        \* paths with another extension, or with a temporary file's name
  Link,         \* those the manufacturer's site links to
  Debounce,     \* DEBOUNCE_SECONDS, in steps of the clock
  IntakeFaults, \* what may fail: "download", "write", "submit", "watcher"
  MaxCreations  \* bound: creations of one path

ASSUME IntakeAssumption ==
  /\ File \cap Scrap = {} /\ Link \subseteq File \cup Scrap
  /\ IntakeFaults \subseteq {"download", "write", "submit", "watcher"}
  /\ Debounce \in Nat \ {0} /\ MaxCreations \in Nat \ {0}

Path == File \cup Scrap
NotPending == -1

VARIABLES
  disk,       \* what is at each path
  copying,    \* paths that others are writing
  crawl,      \* the crawler: links still to visit, the one it is at, what it does, the
              \* paths it has downloaded
  watching,   \* whether the observer runs
  pending,    \* the age of the entry of _pending, or NotPending
  ready,      \* the due paths of the copy process_pending works on
  submitted,  \* how often each path was submitted
  created,    \* ghost: how often the observer saw each path created
  dropped,    \* ghost: how often the entry of a path was lost: the path recreated
              \* meanwhile, its submission failed, or the process ended
  raced       \* ghost: paths that came from elsewhere while the crawler was fetching them

intakeVars == <<disk, copying, crawl, watching, pending, ready, submitted, created, dropped,
                raced>>

Nowhere == "nowhere"

CrawlStarts == [todo |-> Link, at |-> Nowhere, does |-> "visits", downloaded |-> {}]

IntakeTypeOK ==
  /\ disk \in [Path -> {"absent", "partial", "whole"}]
  /\ copying \subseteq Path
  /\ crawl \in [todo : SUBSET Link, at : Link \cup {Nowhere}, downloaded : SUBSET Link,
               does : {"visits", "fetches", "writes"}]
  /\ watching \in BOOLEAN
  /\ pending \in [Path -> NotPending..Debounce]
  /\ ready \subseteq Path
  /\ submitted \in [Path -> [whole : 0..MaxCreations, early : 0..MaxCreations]]
  /\ created \in [Path -> 0..MaxCreations]
  /\ dropped \in [Path -> 0..MaxCreations]
  /\ raced \subseteq Path

IntakeInit ==
  /\ disk = [p \in Path |-> "absent"]
  /\ copying = {}
  /\ crawl = CrawlStarts
  /\ watching = FALSE
  /\ pending = [p \in Path |-> NotPending]
  /\ ready = {}
  /\ submitted = [p \in Path |-> [whole |-> 0, early |-> 0]]
  /\ created = [p \in Path |-> 0]
  /\ dropped = [p \in Path |-> 0]
  /\ raced = {}

-----------------------------------------------------------------------------
(* The observer *)

\* on_file_created looks at the extension and at the name.
Noted(p) == p \in File

\* A path comes into being: dispatch passes the creation on, and its entry of
\* _pending starts anew.
FileCreated(p) ==
  IF watching /\ Noted(p)
    THEN /\ pending' = [pending EXCEPT ![p] = 0]
         /\ created' = [created EXCEPT ![p] = @ + 1]
         /\ dropped' = IF pending[p] = NotPending THEN dropped ELSE [dropped EXCEPT ![p] = @ + 1]
    ELSE UNCHANGED <<pending, created, dropped>>

\* start and stop; the entries live in the process.
StartWatching ==
  /\ ~watching /\ watching' = TRUE
  /\ UNCHANGED <<disk, copying, crawl, pending, ready, submitted, created, dropped, raced>>

\* The process of the watchdog ends, with all it had noted.
WatcherDies ==
  /\ "watcher" \in IntakeFaults /\ watching
  /\ watching' = FALSE
  /\ dropped' = [p \in Path |->
       dropped[p] + (IF pending[p] = NotPending THEN 0 ELSE 1)]
  /\ pending' = [p \in Path |-> NotPending]
  /\ ready' = {}
  /\ UNCHANGED <<disk, copying, crawl, submitted, created, raced>>

\* Time passes, up to the moment when an entry is due.
IntakeTick ==
  /\ \E p \in Path : pending[p] \in 0..(Debounce - 1)
  /\ pending' = [p \in Path |->
       IF pending[p] \in 0..(Debounce - 1) THEN pending[p] + 1 ELSE pending[p]]
  /\ UNCHANGED <<disk, copying, crawl, watching, ready, submitted, created, dropped, raced>>

-----------------------------------------------------------------------------
(* process_pending *)

Due(p) == pending[p] >= Debounce

\* The entries are copied; only those due matter.
TakePending ==
  /\ watching /\ ready = {}
  /\ \E p \in Path : Due(p)
  /\ ready' = {p \in Path : Due(p)}
  /\ UNCHANGED <<disk, copying, crawl, watching, pending, submitted, created, dropped, raced>>

\* Mutant: the entry stays after the submission.
EntryStays(p) == pending

\* del self._pending[path], whatever was noted of it since the copy.
WithoutEntry(p) == [pending EXCEPT ![p] = NotPending]

\* _submit_ingestion: the chain is started with the path of the file, as it is
\* now; a failure is logged, and the entry is gone.
Submit(p) ==
  /\ p \in ready
  /\ ready' = ready \ {p}
  /\ pending' = WithoutEntry(p)
  /\ \/ /\ submitted' =
             IF disk[p] = "whole" THEN [submitted EXCEPT ![p].whole = @ + 1]
                                  ELSE [submitted EXCEPT ![p].early = @ + 1]
        /\ UNCHANGED dropped
     \/ /\ "submit" \in IntakeFaults
        /\ dropped' = [dropped EXCEPT ![p] = @ + 1]
        /\ UNCHANGED submitted
  /\ UNCHANGED <<disk, copying, crawl, watching, created, raced>>

-----------------------------------------------------------------------------
(* The crawler, and other writers *)

MayCreate(p) == created[p] < MaxCreations

Visits == crawl.does = "visits"

LinkDone(p) == [crawl EXCEPT !.todo = @ \ {p}, !.at = Nowhere, !.does = "visits"]

\* Mutant: what is there is downloaded again.
NotYetThereEver(p) == TRUE

\* "Skip already downloaded"
NotYetThere(p) == disk[p] = "absent"

\* The crawler comes to a link, and skips it if the file is there.
Visit(p) ==
  /\ Visits /\ p \in crawl.todo
  /\ crawl' = IF NotYetThere(p) THEN [crawl EXCEPT !.at = p, !.does = "fetches"] ELSE LinkDone(p)
  /\ UNCHANGED <<disk, copying, watching, pending, ready, submitted, created, dropped, raced>>

\* The response comes: it is no use, or the file is written, which makes a new
\* one only if there is none by now.
Fetched(p) ==
  /\ crawl.does = "fetches" /\ crawl.at = p
  /\ \/ /\ "download" \in IntakeFaults
        /\ crawl' = LinkDone(p)
        /\ UNCHANGED <<disk, pending, created, dropped>>
     \/ /\ MayCreate(p)
        /\ crawl' = [crawl EXCEPT !.does = "writes"]
        /\ disk' = [disk EXCEPT ![p] = "partial"]
        /\ IF disk[p] = "absent" THEN FileCreated(p) ELSE UNCHANGED <<pending, created, dropped>>
  /\ UNCHANGED <<copying, watching, ready, submitted, raced>>

\* A failed write leaves what it wrote so far, and is passed over.
FailedWrite(p) == LinkDone(p)

\* write_bytes ends, or fails.
Wrote(p) ==
  /\ crawl.does = "writes" /\ crawl.at = p
  /\ \/ /\ disk' = IF p \in copying THEN disk ELSE [disk EXCEPT ![p] = "whole"]
        /\ crawl' = [LinkDone(p) EXCEPT !.downloaded = @ \cup {p}]
     \/ /\ "write" \in IntakeFaults
        /\ crawl' = FailedWrite(p)
        /\ UNCHANGED disk
  /\ UNCHANGED <<copying, watching, pending, ready, submitted, created, dropped, raced>>

\* The next run of the crawler, which may find no links or fail to open the site.
CrawlAgain ==
  /\ Visits /\ crawl.todo = {}
  /\ \E links \in {Link, {}} : crawl' = [CrawlStarts EXCEPT !.todo = links]
  /\ UNCHANGED <<disk, copying, watching, pending, ready, submitted, created, dropped, raced>>

\* A file comes from elsewhere, while the crawler may be fetching the same one.
Arrives(p) ==
  /\ disk[p] = "absent"
  /\ raced' = IF crawl.at = p THEN raced \cup {p} ELSE raced

\* It is copied, which takes its time, or moved into place.
Copy(p) ==
  /\ Arrives(p) /\ MayCreate(p)
  /\ disk' = [disk EXCEPT ![p] = "partial"] /\ copying' = copying \cup {p}
  /\ FileCreated(p)
  /\ UNCHANGED <<crawl, watching, ready, submitted>>

CopyEnds(p) ==
  /\ p \in copying
  /\ copying' = copying \ {p}
  /\ disk' = IF crawl.at = p /\ crawl.does = "writes" THEN disk ELSE [disk EXCEPT ![p] = "whole"]
  /\ UNCHANGED <<crawl, watching, pending, ready, submitted, created, dropped, raced>>

MoveHere(p) ==
  /\ Arrives(p)
  /\ disk' = [disk EXCEPT ![p] = "whole"]
  /\ UNCHANGED <<copying, crawl, watching, pending, ready, submitted, created, dropped>>

\* A file is removed, by the deletion of its document or by hand.
RemoveFile(p) ==
  /\ disk[p] # "absent" /\ p \notin copying /\ ~(crawl.at = p /\ crawl.does = "writes")
  /\ disk' = [disk EXCEPT ![p] = "absent"]
  /\ UNCHANGED <<copying, crawl, watching, pending, ready, submitted, created, dropped, raced>>

IntakeNext ==
  \/ StartWatching \/ WatcherDies \/ IntakeTick \/ TakePending \/ CrawlAgain
  \/ \E p \in Path : \/ Submit(p) \/ Visit(p) \/ Fetched(p) \/ Wrote(p)
                     \/ Copy(p) \/ CopyEnds(p) \/ MoveHere(p) \/ RemoveFile(p)

\* The clock runs and process_pending is called again and again.
IntakeFairness ==
  /\ WF_intakeVars(IntakeTick) /\ WF_intakeVars(TakePending)
  /\ \A p \in Path : WF_intakeVars(Submit(p))

IntakeSpec == IntakeInit /\ [][IntakeNext]_intakeVars /\ IntakeFairness

-----------------------------------------------------------------------------
(* Properties *)

\* Every creation the observer saw led to at most one submission, and to one
\* unless its entry was lost: no file is ingested twice for one arrival, and
\* none is forgotten that the watchdog noted and nothing befell.
ArrivalsAreAccounted ==
  \A p \in Path :
    created[p] = submitted[p].whole + submitted[p].early + dropped[p]
                   + (IF pending[p] = NotPending THEN 0 ELSE 1)

\* What the crawler reports as downloaded is whole, unless someone is just
\* writing it anew.
DownloadsAreWhole ==
  \A p \in crawl.downloaded :
    disk[p] = "partial" => p \in copying \/ (crawl.at = p /\ crawl.does = "writes")

\* The crawler overwrites no file that is there, except one that arrived while
\* it was fetching the same: the check and the write are two steps.
OnlyRacesOverwrite ==
  [][\A p \in Path : disk[p] = "whole" /\ disk'[p] = "partial" => p \in raced]_intakeVars

\* What the watchdog noted does not stay pending.
PendingIsTaken == \A p \in Path : (pending[p] # NotPending) ~> (pending[p] = NotPending)

\* "Process files that have been stable for DEBOUNCE_SECONDS." (line 60): a file
\* is submitted when it is no longer written.
SubmittedAreStable == \A p \in File : submitted[p].early = 0

\* A file that is whole stays so, and what is called downloaded is whole, but
\* for those who write the same file at the same time.
OnlyRacesDamageFiles == [](IntakeTypeOK /\ DownloadsAreWhole) /\ OnlyRacesOverwrite
=============================================================================
