-------------------------- MODULE ConversationMemory --------------------------
(***************************************************************************)
(* The short-term memory of one session: the Redis value that              *)
(* src/core/conversation_manager.py loads, compacts and saves for          *)
(* concurrent requests of src/api/routers/query.py, and the selection of   *)
(* src/core/memory_retriever.py from it.                                   *)
(*                                                                         *)
(* A turn stands for its text; only its length, and whether it is pinned,  *)
(* are kept.  A summary is its length and the turns it was made from.      *)
(***************************************************************************)
EXTENDS Integers, Sequences, SequencesExt, Lists

CONSTANTS
  Request,          \* requests of the session, each of them one exchange
  Past,             \* the exchanges a list-only value of an older version holds
  Role,             \* "user" and "assistant"
  Length,           \* Length[r][role]: characters of a turn, 0 for no answer
  Pinned,           \* turns that state a preference or score 0.9
  MaxTurns,         \* memory.max_turns
  Threshold,        \* memory.compression_threshold
  CompactionBudget, \* memory.compaction_budget_chars
  SummaryMax,       \* memory.summary_max_chars
  CheckpointLimit,  \* memory.checkpoint_limit
  PinnedLimit,      \* memory.pinned_limit
  PromptBudget,     \* memory.prompt_budget_chars
  RecentAlways      \* memory.recent_turns_always

Turn == [of : Request, role : Role]

ASSUME RoleAssumption == Role = {"user", "assistant"}
ASSUME PastAssumption == Past \in Seq(Request) /\ IsInjective(Past)
\* An empty query is refused, an empty answer is not.
ASSUME LengthAssumption ==
  /\ Length \in [Request -> [Role -> Nat]]
  /\ \A r \in Request : Length[r]["user"] > 0
ASSUME PinnedAssumption == Pinned \subseteq Turn
ASSUME LimitsAssumption ==
  /\ {MaxTurns, Threshold, SummaryMax, CheckpointLimit, PinnedLimit} \subseteq Nat \ {0}
  /\ {CompactionBudget, PromptBudget, RecentAlways} \subseteq Nat

VARIABLES
  store,   \* what Redis has under session:{user}:{session}
  pc,      \* where each request is
  base,    \* what it loaded last, as stored
  local,   \* and what it made of it
  kept     \* history: the turns that no request was entitled to forget

vars == <<store, pc, base, local, kept>>

-----------------------------------------------------------------------------
(* Values *)

Nothing == [kind |-> "nothing"]   \* no value, or one that cannot be parsed

Payload == [kind        : {"payload"},
            turns       : Seq(Turn),
            summary     : 0..SummaryMax,
            compacted   : SUBSET Turn,  \* what the summary was made from
            pinned      : Seq(Turn),
            checkpoints : Seq(Nat)]     \* compacted_turn_count of each

List == [kind : {"list"}, turns : Seq(Turn)]

Empty == [kind |-> "payload", turns |-> <<>>, summary |-> 0,
          compacted |-> {}, pinned |-> <<>>, checkpoints |-> <<>>]

PC == {"start", "migrate", "answer", "save", "done"}

TypeOK ==
  /\ store \in {Nothing} \cup Payload \cup List
  /\ pc \in [Request -> PC]
  /\ base \in [Request -> {Nothing} \cup Payload \cup List]
  /\ local \in [Request -> Payload]
  /\ kept \subseteq Turn

Size(t) == Length[t.of][t.role]

\* _stored_turns: turns without content are dropped.
Stored(turns) == Those(turns, {t \in Turn : Size(t) > 0})

UserTurn(r) == [of |-> r, role |-> "user"]
AssistantTurn(r) == [of |-> r, role |-> "assistant"]
Exchange(r) == <<UserTurn(r), AssistantTurn(r)>>

PastTurns ==
  Stored([n \in 1..(2 * Len(Past)) |->
            IF n % 2 = 1 THEN UserTurn(Past[(n + 1) \div 2]) ELSE AssistantTurn(Past[n \div 2])])

\* Every turn a stored value still tells of, in full or in its summary.
Held(v) ==
  CASE v.kind = "nothing" -> {}
    [] v.kind = "list"    -> ToSet(v.turns)
    [] v.kind = "payload" -> ToSet(v.turns) \cup v.compacted

-----------------------------------------------------------------------------
(* Compaction *)

AtLeastOne(n) == IF n < 1 THEN 1 ELSE n

Total(turns) == Added([n \in DOMAIN turns |-> Size(turns[n])])

EstimatedChars(p) == p.summary + Total(p.turns)

ShouldCompact(p) ==
  Len(p.turns) > Threshold \/ EstimatedChars(p) > CompactionBudget

KeepCount(p) ==
  IF Len(p.turns) <= MaxTurns /\ EstimatedChars(p) > CompactionBudget
    THEN AtLeastOne(Len(p.turns) \div 2)
    ELSE MaxTurns

\* Mutant: only the pins of this compaction are kept.
MergeNewPinned(pinned, old) ==
  LastN(Those(old, Pinned), PinnedLimit)

\* Pinned turns leave the turns but stay in a list of their own.
MergePinned(pinned, old) ==
  LastN(pinned \o Those(old, Pinned \ ToSet(pinned)), PinnedLimit)

\* p compacted to a summary of s characters.
Compacted(p, s) ==
  LET old == AllButLastN(p.turns, KeepCount(p))
  IN  [p EXCEPT !.turns       = LastN(p.turns, KeepCount(p)),
                !.summary     = s,
                !.compacted   = @ \cup ToSet(old),
                !.pinned      = MergePinned(@, old),
                !.checkpoints = LastN(Append(@, Len(old)), CheckpointLimit)]

\* _compress_payload, for every length the summariser may come up with: when
\* it fails or has nothing to say, the fallback writes a line for each turn.
Compress(p) ==
  LET least == IF Len(p.turns) > KeepCount(p) \/ p.summary > 0 THEN 1 ELSE 0
  IN  IF ShouldCompact(p) THEN {Compacted(p, s) : s \in least..SummaryMax} ELSE {p}

-----------------------------------------------------------------------------
(* Requests *)

Init ==
  /\ store \in {Nothing} \cup {[kind |-> "list", turns |-> PastTurns]}
  /\ pc = [r \in Request |-> IF r \in ToSet(Past) THEN "done" ELSE "start"]
  /\ base = [r \in Request |-> Nothing]
  /\ local = [r \in Request |-> Empty]
  /\ kept = Held(store)

\* _load_payload up to its first write: what was read, and what it becomes.
\* A list of an older version is compressed and has to be saved first; only
\* a first load can meet one, for nothing writes lists any more.
Load(r, loaded) ==
  /\ base' = [base EXCEPT ![r] = store]
  /\ \/ /\ store.kind = "nothing"
        /\ local' = [local EXCEPT ![r] = Empty]
        /\ pc' = [pc EXCEPT ![r] = loaded]
     \/ /\ store.kind = "payload"
        /\ local' = [local EXCEPT ![r] = store]
        /\ pc' = [pc EXCEPT ![r] = loaded]
     \/ /\ store.kind = "list"
        /\ \E p \in Compress([Empty EXCEPT !.turns = store.turns]) :
             local' = [local EXCEPT ![r] = p]
        /\ pc' = [pc EXCEPT ![r] = "migrate"]
  /\ UNCHANGED <<store, kept>>

\* SET: whatever was stored since this request's GET is overwritten.
Save(r, p, new) ==
  /\ store' = p
  /\ base' = [base EXCEPT ![r] = p]
  /\ local' = [local EXCEPT ![r] = p]
  /\ kept' = (kept \ (Held(store) \ Held(base[r]))) \cup new

\* _load_memory_context, before the agent runs.
LoadContext(r) == pc[r] = "start" /\ Load(r, "answer")

Migrate(r) ==
  /\ pc[r] = "migrate"
  /\ Save(r, local[r], {})
  /\ pc' = [pc EXCEPT ![r] = "answer"]

\* append_exchange, once there is an answer: it loads again.
AppendLoad(r) == pc[r] = "answer" /\ Load(r, "save")

\* The exchange joins the turns that were loaded; a summariser that calls an
\* LLM makes this last as long as the call.
AppendSave(r) ==
  /\ pc[r] = "save"
  /\ LET turns == local[r].turns \o Stored(Exchange(r))
     IN  \E p \in Compress([local[r] EXCEPT !.turns = turns]) :
           Save(r, p, ToSet(Stored(Exchange(r))))
  /\ pc' = [pc EXCEPT ![r] = "done"]

\* Redis or the agent fails, or the client goes away: the request ends
\* without (another) write.
Abandon(r) ==
  /\ pc[r] # "done"
  /\ pc' = [pc EXCEPT ![r] = "done"]
  /\ UNCHANGED <<store, base, local, kept>>

\* The TTL passes, or clear_session deletes the key.
Expire ==
  /\ store.kind # "nothing"
  /\ store' = Nothing
  /\ kept' = {}
  /\ UNCHANGED <<pc, base, local>>

Step(r) ==
  \/ LoadContext(r) \/ Migrate(r)
  \/ AppendLoad(r) \/ AppendSave(r)
  \/ Abandon(r)

Next == Expire \/ \E r \in Request : Step(r)

Spec == Init /\ [][Next]_vars
-----------------------------------------------------------------------------
(* What a prompt gets to see: MemoryRetriever.select_messages.  Headings are *)
(* left out.                                                                 *)

AtMost(n, limit) == IF n > limit THEN limit ELSE n

SummaryPart(p) == AtMost(p.summary, PromptBudget)
PinnedPart(p) == AtMost(Total(p.pinned), PromptBudget - SummaryPart(p))

IsRecent(p, k) == k > Len(p.turns) - RecentAlways

\* The turns that score high enough; the recent ones always do.
SelectedTurns(p, relevant) ==
  {k \in DOMAIN p.turns : IsRecent(p, k) \/ k \in relevant}

\* The oldest selected turn comes first, each takes what it needs, and what
\* does not fit any more is cut off.
Shown(p, relevant, k) ==
  LET room   == PromptBudget - SummaryPart(p) - PinnedPart(p)
      before == {n \in SelectedTurns(p, relevant) : n < k}
      used   == MapThenSumSet(LAMBDA n : Size(p.turns[n]), before)
  IN  IF used < room THEN AtMost(Size(p.turns[k]), room - used) ELSE 0

-----------------------------------------------------------------------------
(* Properties *)

\* Whatever is stored has been compacted: a session cannot outgrow its limits,
\* neither by overlapping requests nor by an old list of any length.
StoredIsBounded ==
  store.kind = "payload" =>
    /\ Len(store.turns) <= IF Threshold > MaxTurns THEN Threshold ELSE MaxTurns
    /\ Len(store.checkpoints) <= CheckpointLimit
    /\ Len(store.pinned) <= PinnedLimit

\* Compaction may part a question from its answer, saves may overwrite each
\* other, but an answer that is not the first turn follows its own question.
AnswersFollowQuestions ==
  store.kind = "payload" =>
    \A k \in 2..Len(store.turns) :
      store.turns[k].role = "assistant" =>
        store.turns[k - 1] = UserTurn(store.turns[k].of)

\* No turn reaches the prompt twice, as a turn and again in the summary.
NothingIsToldTwice ==
  store.kind = "payload" => ToSet(store.turns) \cap store.compacted = {}

\* A pinned turn that compaction removes stays pinned, until as many newer
\* ones as the limit allows have taken its place.
PinnedTurnsSurvive ==
  store.kind = "payload" =>
    \A t \in store.compacted \cap Pinned :
      t \in ToSet(store.pinned) \/ Len(store.pinned) = PinnedLimit

\* While Threshold is not below MaxTurns and no question alone exceeds the
\* budget, a compaction always takes something away: no summary is rewritten,
\* and no checkpoint spent, for nothing.
CompactionsAreReal ==
  store.kind = "payload" =>
    \A n \in DOMAIN store.checkpoints : store.checkpoints[n] > 0

\* A request makes the session forget only what was saved after its own load:
\* every other turn is there, or went into the summary.
OnlyOverlapForgets == kept \subseteq Held(store)

\* "recent_turns_always: how many recent messages are kept regardless of
\* relevance": no older turn is shown at the expense of a recent one.
RecentTurnsComeFirst ==
  store.kind = "payload" =>
    \A relevant \in SUBSET DOMAIN store.turns :
      \A old, recent \in SelectedTurns(store, relevant) :
        ~IsRecent(store, old) /\ IsRecent(store, recent)
          /\ Shown(store, relevant, old) > 0
          => Shown(store, relevant, recent) = Size(store.turns[recent])

\* A session keeps what was said, once and in order, within its limits: only
\* an overlapping request makes it forget.
SessionsKeepWhatWasSaid ==
  /\ TypeOK
  /\ OnlyOverlapForgets /\ NothingIsToldTwice /\ PinnedTurnsSurvive
  /\ AnswersFollowQuestions /\ StoredIsBounded /\ CompactionsAreReal
=============================================================================
