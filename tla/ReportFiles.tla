------------------------------ MODULE ReportFiles ------------------------------
(***************************************************************************)
(* Reports written to data/exports: the report_export tool and the         *)
(* generators of src/core/report_engine.py.  A file is named after the     *)
(* second it was made in, or, for test cases, after the chip and the day.  *)
(* A generator holds up the event loop of its process; several processes   *)
(* may serve the API.                                                      *)
(***************************************************************************)
EXTENDS Integers, FiniteSets

CONSTANTS
  Report,        \* requests for a report
  Format,        \* Format[r]: "word", "pdf", "excel", "cases excel", "cases csv",
                 \* or another one
  Installed,     \* formats whose library is installed
  ReportFaults,  \* subset of {"build", "write"}
  LastSecond     \* bound of the clock; a day is two seconds long

CaseFormat == {"cases excel", "cases csv"}

Generator == {"word", "pdf", "excel"} \cup CaseFormat

ASSUME ReportAssumption ==
  /\ Installed \subseteq Generator
  /\ ReportFaults \subseteq {"build", "write"} /\ LastSecond \in Nat

VARIABLES
  second,    \* seconds
  job,      \* Report -> how far it is, and the second its name was taken
  exports   \* file name -> the report it holds and whether it is whole

reportVars == <<second, job, exports>>

ReportTypeOK ==
  /\ second \in 0..LastSecond
  /\ \A r \in Report : job[r].state \in {"new", "named", "written", "refused", "failed"}
  /\ \A n \in DOMAIN exports : exports[n].of \in Report /\ exports[n].whole \in BOOLEAN

ReportInit ==
  /\ second = 0
  /\ job = [r \in Report |-> [state |-> "new", at |-> 0]]
  /\ exports = [n \in {} |-> 0]

\* Mutant: reports are named after the day, too.
FileNameDaily(r, t) == <<Format[r], t \div 2>>

\* report_<second>.<format>, or <chip>_test_cases_<day>.<format>; the requests
\* are about one chip.
FileName(r, t) == IF Format[r] \in CaseFormat THEN <<Format[r], t \div 2>> ELSE <<Format[r], t>>

Ended(r, how) == job' = [job EXCEPT ![r].state = how]

Tell(r) ==
  /\ job[r].state = "new"
  /\ \/ Format[r] \notin Generator /\ Ended(r, "refused")
     \/ Format[r] \in Generator \ Installed /\ Ended(r, "failed")
     \/ Format[r] \in Installed /\ "build" \in ReportFaults /\ Ended(r, "failed")
     \/ Format[r] \in Installed /\ job' = [job EXCEPT ![r] = [state |-> "named", at |-> second]]
  /\ UNCHANGED <<second, exports>>

SaveReport(r) ==
  /\ job[r].state = "named"
  /\ LET n == FileName(r, job[r].at) IN
       exports' = [x \in DOMAIN exports \cup {n} |->
                     IF x = n THEN [of |-> r, whole |-> TRUE] ELSE exports[x]]
  /\ Ended(r, "written")
  /\ UNCHANGED second

\* A write that breaks off leaves part of the file; the tool answers an error.
SaveFails(r) ==
  /\ job[r].state = "named" /\ "write" \in ReportFaults
  /\ LET n == FileName(r, job[r].at) IN
       exports' = [x \in DOMAIN exports \cup {n} |->
                     IF x = n THEN [of |-> r, whole |-> FALSE] ELSE exports[x]]
  /\ Ended(r, "failed")
  /\ UNCHANGED second

NextSecond == second < LastSecond /\ second' = second + 1 /\ UNCHANGED <<job, exports>>

ReportNext == NextSecond \/ \E r \in Report : Tell(r) \/ SaveReport(r) \/ SaveFails(r)

ReportSpec == ReportInit /\ [][ReportNext]_reportVars

-----------------------------------------------------------------------------

\* Others that may have written to the file of r.
Rivals(r) ==
  {q \in Report \ {r} :
     /\ job[q].state \in {"written", "failed"} /\ Format[q] = Format[r]
     /\ IF Format[r] \in CaseFormat THEN job[q].at \div 2 = job[r].at \div 2
                                    ELSE job[q].at = job[r].at}

\* A report that was promised is in its file, whole, unless another one of the
\* same format was made in the same second (of the same day, for test cases).
PromisedReportsAreThere ==
  \A r \in Report :
    job[r].state = "written" /\ Rivals(r) = {} =>
      /\ FileName(r, job[r].at) \in DOMAIN exports
      /\ exports[FileName(r, job[r].at)] = [of |-> r, whole |-> TRUE]

\* A report is promised only when it can be fetched.
PromisesAreKept == ReportTypeOK /\ PromisedReportsAreThere
=============================================================================
