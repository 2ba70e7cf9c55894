----------------------------- MODULE LongTermMemory -----------------------------
(***************************************************************************)
(* The memory that outlives a session: episodes, procedural hints and      *)
(* governed memories (src/core/episodic_memory.py, procedural_memory.py,   *)
(* memory_governance.py, memory_consolidator.py), as the query pipeline    *)
(* reads and writes them and src/api/routers/memory.py lets users decide.  *)
(*                                                                         *)
(* A query reads the confirmed memories and the hints, and when it is      *)
(* answered writes its episode, its outcome, what the user asked to        *)
(* remember and a candidate, one statement after the other; each failure   *)
(* is logged and skips only that statement.  The jsonb columns come back   *)
(* from asyncpg as text, for no codec is set, so a list of patterns read   *)
(* from the table is the list of its characters.                           *)
(***************************************************************************)
EXTENDS Integers, FiniteSets

CONSTANTS
  Query,        \* requests
  AskedBy,         \* who makes each of them
  Explicit,     \* those that say "remember"
  Word,         \* keywords of queries
  Says,         \* the keywords of each request
  Alike,        \* pairs of words that have a character in common
  ToolName,         \* the tools a run may use
  MemoryFaults, \* statements that may fail: of "read", "episode", "procedure", "record"
  MaxDecisions  \* bound: PATCH and DELETE requests

ASSUME MemoryAssumption ==
  /\ Explicit \subseteq Query
  /\ Says \in [Query -> SUBSET Word]
  /\ Alike \subseteq Word \X Word /\ \A w \in Word : <<w, w>> \in Alike
  /\ MemoryFaults \subseteq {"read", "episode", "procedure", "record"}
  /\ MaxDecisions \in Nat

User == {AskedBy[q] : q \in Query}

\* What the pipeline knows of an answer; coverage is none where grounding is off.
Episode == [outcome : {"success", "abstained", "cache_hit", "error"}, tools : SUBSET ToolName,
            cited : BOOLEAN, coverage : {"none", "low", "high"}]

VARIABLES
  asked,      \* the requests: their step, what was put into the prompt, their episode
  episodes,   \* rows of memory_episodes, by request
  procedures, \* rows of memory_procedures, by the tools in their id
  records,    \* rows of memory_records, by the request and the way they came from
  outcomes,   \* ghost: how many outcomes were recorded, of each tool set
  approved,   \* ghost: records that somebody confirmed through the API
  decisions

memoryVars == <<asked, episodes, procedures, records, outcomes, approved, decisions>>

Nobody == "nobody"
RecordId == Query \X {"explicit", "candidate", "manual"}
Absent == [status |-> "absent", scope |-> "none", owner |-> Nobody]

MemoryTypeOK ==
  /\ asked \in [Query -> [at : {"new", "hints", "run", "episode", "procedure", "explicit",
                                "candidate", "done"},
                          told : SUBSET RecordId, hinted : SUBSET (SUBSET ToolName),
                          episode : Episode]]
  /\ episodes \subseteq Query
  /\ procedures \in [SUBSET ToolName -> [words : SUBSET Word, good : Nat, bad : Nat]]
  /\ records \in [RecordId -> [status : {"absent", "candidate", "confirmed", "rejected"},
                               scope : {"none", "user", "project"}, owner : User \cup {Nobody}]]
  /\ outcomes \in [SUBSET ToolName -> [good : Nat, bad : Nat]]
  /\ approved \subseteq RecordId
  /\ decisions \in 0..MaxDecisions

NoEpisode == [outcome |-> "error", tools |-> {}, cited |-> FALSE, coverage |-> "none"]

MemoryInit ==
  /\ asked = [q \in Query |-> [at |-> "new", told |-> {}, hinted |-> {}, episode |-> NoEpisode]]
  /\ episodes = {} /\ approved = {} /\ decisions = 0
  /\ procedures = [t \in SUBSET ToolName |-> [words |-> {}, good |-> 0, bad |-> 0]]
  /\ records = [r \in RecordId |-> Absent]
  /\ outcomes = [t \in SUBSET ToolName |-> [good |-> 0, bad |-> 0]]

MayFail(statement) == statement \in MemoryFaults

-----------------------------------------------------------------------------
(* Before the answer *)

\* Mutant: candidates are listed too.
VisibleAnyStatus(u, r) == records[r].owner = u \/ records[r].scope = "project"

\* list_memories, as the pipeline calls it: confirmed, the user's own or the
\* project's.
Visible(u, r) ==
  /\ records[r].status = "confirmed"
  /\ records[r].owner = u \/ records[r].scope = "project"

\* _load_governed_memory_messages
LoadMemories(q) ==
  /\ asked[q].at = "new"
  /\ \/ asked' = [asked EXCEPT ![q].at = "hints",
                    ![q].told = {r \in RecordId : Visible(AskedBy[q], r)}]
     \/ MayFail("read") /\ asked' = [asked EXCEPT ![q].at = "hints"]
  /\ UNCHANGED <<episodes, procedures, records, outcomes, approved, decisions>>

Learned(t) == procedures[t].good + procedures[t].bad > 0

\* Whether some pattern of the row occurs in the query: the patterns are single
\* characters by now.
Triggered(q, t) == \E w \in Says[q], v \in procedures[t].words : <<w, v>> \in Alike

\* get_hints: the active rows that are triggered, whatever they count.
LoadHints(q) ==
  /\ asked[q].at = "hints"
  /\ \/ asked' = [asked EXCEPT ![q].at = "run",
                    ![q].hinted = {t \in SUBSET ToolName : Learned(t) /\ Triggered(q, t)}]
     \/ MayFail("read") /\ asked' = [asked EXCEPT ![q].at = "run"]
  /\ UNCHANGED <<episodes, procedures, records, outcomes, approved, decisions>>

\* The agent answers, or the cache does, or the run ends in an error.  An
\* answer that abstains is never a success.
Answer(q) ==
  /\ asked[q].at = "run"
  /\ \E e \in Episode :
       /\ e.outcome = "cache_hit" => e.tools = {}
       /\ e.outcome \in {"error", "abstained"} => ~e.cited /\ e.coverage = "none"
       /\ asked' = [asked EXCEPT ![q].at = "episode", ![q].episode = e,
                                ![q].told = {}, ![q].hinted = {}]
  /\ UNCHANGED <<episodes, procedures, records, outcomes, approved, decisions>>

-----------------------------------------------------------------------------
(* _record_episode_and_learn *)

RecordEpisode(q) ==
  /\ asked[q].at = "episode"
  /\ asked' = [asked EXCEPT ![q].at = "procedure"]
  /\ episodes' = episodes \cup {q} \/ (MayFail("episode") /\ UNCHANGED episodes)
  /\ UNCHANGED <<procedures, records, outcomes, approved, decisions>>

Good(e) == e.outcome \in {"success", "cache_hit"}

\* ON CONFLICT DO UPDATE: the counts grow, the patterns stay those of the first.
CountsRaised(t, good) ==
  [procedures EXCEPT ![t].good = @ + (IF good THEN 1 ELSE 0), ![t].bad = @ + (IF good THEN 0 ELSE 1)]

\* record_outcome: nothing without tools; a failure counts too.
RecordOutcome(q) ==
  LET e == asked[q].episode
      t == e.tools
  IN  /\ asked[q].at = "procedure"
      /\ asked' = [asked EXCEPT ![q].at = "explicit"]
      /\ \/ /\ t # {}
            /\ procedures' = IF Learned(t) THEN CountsRaised(t, Good(e))
                 ELSE [procedures EXCEPT ![t] = [words |-> Says[q],
                         good |-> IF Good(e) THEN 1 ELSE 0, bad |-> IF Good(e) THEN 0 ELSE 1]]
            /\ outcomes' = [outcomes EXCEPT ![t].good = @ + (IF Good(e) THEN 1 ELSE 0),
                                           ![t].bad = @ + (IF Good(e) THEN 0 ELSE 1)]
         \/ /\ t = {} \/ MayFail("procedure")
            /\ UNCHANGED <<procedures, outcomes>>
  /\ UNCHANGED <<episodes, records, approved, decisions>>

Created(id, record) ==
  records' = [records EXCEPT ![id] = record] \/ (MayFail("record") /\ UNCHANGED records)

\* explicit_memory_from_query: confirmed at once, for the user.
RecordExplicit(q) ==
  /\ asked[q].at = "explicit"
  /\ asked' = [asked EXCEPT ![q].at = "candidate"]
  /\ IF q \in Explicit
       THEN Created(<<q, "explicit">>, [status |-> "confirmed", scope |-> "user", owner |-> AskedBy[q]])
       ELSE UNCHANGED records
  /\ UNCHANGED <<episodes, procedures, outcomes, approved, decisions>>

\* _eligible
Eligible(e) ==
  /\ e.outcome = "success" /\ e.cited
  /\ e.coverage = "high" \/ (e.coverage = "none" /\ e.tools # {})

\* propose_from_episode
Proposed == [status |-> "candidate", scope |-> "project", owner |-> Nobody]

RecordCandidate(q) ==
  /\ asked[q].at = "candidate"
  /\ asked' = [asked EXCEPT ![q].at = "done", ![q].episode = NoEpisode]
  /\ IF Eligible(asked[q].episode) THEN Created(<<q, "candidate">>, Proposed) ELSE UNCHANGED records
  /\ UNCHANGED <<episodes, procedures, outcomes, approved, decisions>>

-----------------------------------------------------------------------------
(* The API of memory.py *)

\* create_memory: somebody writes a memory, of his own or of the project, in
\* whatever state he likes.
CreateMemory(q, scope, status) ==
  LET r == <<q, "manual">>
  IN  /\ decisions < MaxDecisions /\ decisions' = decisions + 1
      /\ records[r] = Absent
      /\ records' = [records EXCEPT ![r] =
           [status |-> status, scope |-> scope, owner |-> IF scope = "user" THEN AskedBy[q] ELSE Nobody]]
      /\ approved' = IF status = "confirmed" THEN approved \cup {r} ELSE approved
      /\ UNCHANGED <<asked, episodes, procedures, outcomes>>

\* update_memory_status: 404 where there is no such row.
Decide(r, status) ==
  /\ decisions < MaxDecisions /\ decisions' = decisions + 1
  /\ records[r] # Absent
  /\ records' = [records EXCEPT ![r].status = status]
  /\ approved' = IF status = "confirmed" THEN approved \cup {r} ELSE approved \ {r}
  /\ UNCHANGED <<asked, episodes, procedures, outcomes>>

\* delete_memory
Delete(r) ==
  /\ decisions < MaxDecisions /\ decisions' = decisions + 1
  /\ records[r] # Absent
  /\ records' = [records EXCEPT ![r] = Absent]
  /\ approved' = approved \ {r}
  /\ UNCHANGED <<asked, episodes, procedures, outcomes>>

MemoryNext ==
  \/ \E q \in Query :
       \/ LoadMemories(q) \/ LoadHints(q) \/ Answer(q) \/ RecordEpisode(q) \/ RecordOutcome(q)
       \/ RecordExplicit(q) \/ RecordCandidate(q)
  \/ \E status \in {"candidate", "confirmed", "rejected"} :
       \/ \E q \in Query, scope \in {"user", "project"} : CreateMemory(q, scope, status)
       \/ \E r \in RecordId : Decide(r, status)
  \/ \E r \in RecordId : Delete(r)

MemorySpec == MemoryInit /\ [][MemoryNext]_memoryVars

-----------------------------------------------------------------------------
(* Properties *)

\* "candidate 仅作为候选,不进入 Agent prompt": what a query is told was
\* confirmed then - through the API, or because its own user asked to remember
\* it - and is not another user's.
OnlyConfirmedIsTold ==
  [][\A q \in Query, r \in RecordId :
       r \in asked'[q].told \ asked[q].told =>
         /\ r \in approved \/ r[2] = "explicit"
         /\ records[r].status = "confirmed"
         /\ records[r].scope = "user" => AskedBy[r[1]] = AskedBy[q]]_memoryVars

\* The counts of a procedure are the outcomes recorded of it, however the
\* queries overlap.
OutcomesAreCounted ==
  \A t \in SUBSET ToolName :
    procedures[t].good = outcomes[t].good /\ procedures[t].bad = outcomes[t].bad

\* "Learned from successful grounded episodes." (procedural_memory.py, line 86):
\* a hint recommends tools that have succeeded at least once.
HintsHaveSucceeded == \A q \in Query : \A t \in asked[q].hinted : procedures[t].good > 0

\* Queries are told what was confirmed, and what they did is counted.
MemoryIsGoverned == [](MemoryTypeOK /\ OutcomesAreCounted) /\ OnlyConfirmedIsTold
=============================================================================
