----------------------------- MODULE KnowledgeGraph ----------------------------
(***************************************************************************)
(* The knowledge an ingestion takes from a document: parameters, design    *)
(* rules, errata and alternatives read by an LLM and stored in PostgreSQL, *)
(* then copied to the Kuzu graph, then the chips that the text mentions    *)
(* (the last part of _ingest_one in src/api/routers/documents.py;          *)
(* src/ingestion/*_extractor.py, errata_parser.py, graph_sync.py,          *)
(* src/libs/graph_store/kuzu_store.py).                                    *)
(*                                                                         *)
(* Ingestions overlap.  The graph is written in the event loop without     *)
(* giving it up, so what one query read is upserted in one step.           *)
(***************************************************************************)
EXTENDS Integers, Sequences, FiniteSets, SequencesExt

CONSTANTS
  Ingestion,    \* ingestions, each of a document of its own
  Part,         \* part numbers, as they are written
  ChipOf,       \* ingestion -> part number of its document
  Name,         \* parameter names
  Printed,      \* ingestion -> kinds of rows its document gives, of "param", "rule", "errata"
  Other,        \* ingestion -> parts the LLM may name as alternatives
  Mentioned,    \* ingestion -> parts its text mentions often enough
  BuildFaults   \* which of "factory", "insert", "pg", "graph" may fail

ASSUME KnowledgeAssumption ==
  /\ ChipOf \in [Ingestion -> Part] /\ Printed \in [Ingestion -> SUBSET {"param", "rule", "errata"}]
  /\ Other \in [Ingestion -> SUBSET Part] /\ Mentioned \in [Ingestion -> SUBSET Part]
  /\ \A i \in Ingestion : IsFiniteSet(Other[i]) /\ IsFiniteSet(Mentioned[i])
  /\ BuildFaults \subseteq {"factory", "insert", "pg", "graph"}

VARIABLES
  extractor,  \* _extractor_singleton: "unset" | "extractor" | "primary"
  chips,      \* rows of chips
  rows,       \* rows of chip_parameters, design_rules, errata and documents
  alts,       \* rows of chip_alternatives
  nodes,      \* Chip nodes of the graph
  facts,      \* the other nodes of the graph, each with its edge from a chip
  links,      \* ALTERNATIVE edges of the graph
  stage,      \* ingestion -> where it is
  todo,       \* ingestion -> rows it has extracted and not inserted yet
  syncing,    \* ingestion -> chips left to synchronise, the current one first
  table,      \* ingestion -> which table of the current chip comes next
  seen,       \* ingestion -> errata the LLM found in the document
  refused     \* ingestions for which a store refused something

graphVars == <<extractor, chips, rows, alts, nodes, facts, links, stage, todo, syncing, table,
               seen, refused>>

Phases == <<"link", "params", "rules", "errata", "alternatives", "targets", "sync", "mentions",
            "done">>

\* What sync_chip copies, in its order.
Tables == <<"chip", "param", "rule", "errata", "alternative", "document">>

Row(kind, c, key, i) == [kind |-> kind, chip |-> c, key |-> key, by |-> i]
Alt(i, p, how) == [from |-> ChipOf[i], to |-> p, how |-> how]

\* The keys of the tables and of the nodes: parameters are replaced by name,
\* rules and errata are new rows each time.
SameKey(r, s) == r.kind = s.kind /\ r.chip = s.chip /\ r.key = s.key

Upsert(S, r) == {s \in S : ~ SameKey(s, r)} \cup {r}

\* Mutant: a node that is there keeps its properties.
MergeNew(S, T) == S \cup {t \in T : \A s \in S : ~ SameKey(s, t)}

\* Each row replaces the one of its key: the nodes and edges are MERGEd.
Merge(S, T) == {s \in S : \A t \in T : ~ SameKey(s, t)} \cup T

May(fault) == fault \in BuildFaults

KnowledgeTypeOK ==
  /\ extractor \in {"unset", "extractor", "primary"}
  /\ chips \subseteq Part /\ nodes \subseteq Part /\ links \subseteq Part \X Part
  /\ \A r \in rows \cup facts :
       /\ r.kind \in {"param", "rule", "errata", "document"} /\ r.chip \in Part
       /\ r.key \in Name \cup Ingestion /\ r.by \in Ingestion
  /\ \A a \in alts : a.from \in Part /\ a.to \in Part /\ a.how \in {"extracted", "comention"}
  /\ \A i \in Ingestion :
       /\ stage[i] \in ToSet(Phases) /\ table[i] \in DOMAIN Tables
       /\ ToSet(syncing[i]) \subseteq Part /\ refused \subseteq Ingestion

KnowledgeInit ==
  /\ extractor = "unset" /\ chips = {} /\ rows = {} /\ alts = {}
  /\ nodes = {} /\ facts = {} /\ links = {} /\ refused = {}
  /\ stage = [i \in Ingestion |-> "link"]
  /\ todo = [i \in Ingestion |-> {}]
  /\ syncing = [i \in Ingestion |-> <<>>]
  /\ table = [i \in Ingestion |-> 1]
  /\ seen = [i \in Ingestion |-> {}]

-----------------------------------------------------------------------------
(* Reading the document                                                    *)

NextPhase(p) == Phases[1 + CHOOSE k \in DOMAIN Phases : Phases[k] = p]

\* The LLM for the extraction: a client that was made is kept for good, be it
\* the fallback; without one the next ingestion tries again.
ExtractorAfter(x) ==
  IF x # "unset" THEN {x}
  ELSE {"extractor"} \cup (IF May("factory") THEN {"primary", "unset"} ELSE {})

\* The chip's row is upserted and the document linked to it; without an LLM
\* nothing is extracted.
LinkChip(i) ==
  /\ stage[i] = "link"
  /\ chips' = chips \cup {ChipOf[i]}
  /\ rows' = Upsert(rows, Row("document", ChipOf[i], i, i))
  /\ extractor' \in ExtractorAfter(extractor)
  /\ stage' = [stage EXCEPT ![i] = IF extractor' = "unset" THEN "targets" ELSE "params"]
  /\ UNCHANGED <<alts, nodes, facts, links, todo, syncing, table, seen, refused>>

\* The LLM answers a prompt: rows are found, those that can be read are to be
\* inserted; after its retries a failed call finds nothing.
Extract(i, at, found, read) ==
  /\ stage[i] = at /\ todo[i] = {}
  /\ todo' = [todo EXCEPT ![i] = read]
  /\ stage' = IF read = {} THEN [stage EXCEPT ![i] = NextPhase(at)] ELSE stage
  /\ seen' = IF at = "errata" THEN [seen EXCEPT ![i] = found] ELSE seen
  /\ UNCHANGED <<extractor, chips, rows, alts, nodes, facts, links, syncing, table, refused>>

\* The rows a document may give.
Given(i, kind, keys) == {Row(kind, ChipOf[i], k, i) : k \in {x \in keys : kind \in Printed[i]}}

ParamRows(i) == Given(i, "param", Name)
RuleRows(i) == Given(i, "rule", {i})
ErrataRows(i) == Given(i, "errata", {i})

ExtractParams(i) ==
  \E found \in SUBSET ParamRows(i) : Extract(i, "params", found, found)

ExtractRules(i) ==
  \E found \in SUBSET RuleRows(i) : Extract(i, "rules", found, found)

\* The errata parser reads the printed response object instead of its text:
\* what it finds there is JSON only if the reply holds it in a code block
\* without a line break.
ExtractErrata(i) ==
  \E found \in SUBSET ErrataRows(i), fenced \in BOOLEAN :
    Extract(i, "errata", found, IF fenced THEN found ELSE {})

\* Each row is inserted by a statement of its own; one that fails is dropped.
InsertRow(i) ==
  /\ stage[i] \in {"params", "rules", "errata"}
  /\ \E r \in todo[i] :
       /\ todo' = [todo EXCEPT ![i] = @ \ {r}]
       /\ stage' = IF todo[i] = {r} THEN [stage EXCEPT ![i] = NextPhase(@)] ELSE stage
       /\ \/ rows' = Upsert(rows, r) /\ UNCHANGED refused
          \/ May("insert") /\ UNCHANGED rows /\ refused' = refused \cup {i}
  /\ UNCHANGED <<extractor, chips, alts, nodes, facts, links, syncing, table, seen>>

\* The parts the LLM names as alternatives get a row each, and a row that
\* relates them; the part itself is passed over.
StoreAlternatives(i) ==
  /\ stage[i] = "alternatives"
  /\ \E named \in SUBSET (Other[i] \ {ChipOf[i]}) :
       /\ chips' = chips \cup named
       /\ \/ alts' = {b \in alts : ~ (b.from = ChipOf[i] /\ b.to \in named)}
                       \cup {Alt(i, p, "extracted") : p \in named}
             /\ UNCHANGED refused
          \/ May("insert") /\ named # {} /\ UNCHANGED alts /\ refused' = refused \cup {i}
  /\ stage' = [stage EXCEPT ![i] = "targets"]
  /\ UNCHANGED <<extractor, rows, nodes, facts, links, todo, syncing, table, seen>>

-----------------------------------------------------------------------------
(* The copy in the graph                                                   *)

\* The alternatives come first, in any order, the chip last.
SyncPlan(i) ==
  LET targets == {a.to : a \in {b \in alts : b.from = ChipOf[i]}} IN
    {Append(s, ChipOf[i]) : s \in SetToSeqs(targets)}

\* The alternatives of the chip are read; if that fails, only the chip itself
\* is synchronised.
ListTargets(i) ==
  /\ stage[i] = "targets"
  /\ \/ \E s \in SyncPlan(i) : syncing' = [syncing EXCEPT ![i] = s]
        /\ UNCHANGED refused
     \/ /\ May("pg") /\ syncing' = [syncing EXCEPT ![i] = <<ChipOf[i]>>]
        /\ refused' = refused \cup {i}
  /\ stage' = [stage EXCEPT ![i] = "sync"] /\ table' = [table EXCEPT ![i] = 1]
  /\ UNCHANGED <<extractor, chips, rows, alts, nodes, facts, links, todo, seen>>

\* MATCH finds both ends or creates nothing.
Found(c, ends) == IF c \in nodes THEN ends \cap nodes ELSE {}

\* One table of a chip is read and its rows are upserted.
CopyTable(c, t) ==
  CASE t = "chip" ->
         /\ nodes' = nodes \cup ({c} \cap chips)
         /\ UNCHANGED <<facts, links>>
    [] t = "alternative" ->
         /\ links' = links \cup ({c} \X Found(c, {a.to : a \in {b \in alts : b.from = c}}))
         /\ UNCHANGED <<nodes, facts>>
    [] OTHER ->
         /\ facts' = Merge(facts, {r \in rows : r.kind = t /\ r.chip = c})
         /\ UNCHANGED <<nodes, links>>

\* The next chip, or the co-mentioned chips after the last one.
LeaveChip(i) ==
  /\ syncing' = [syncing EXCEPT ![i] = Tail(@)]
  /\ stage' = IF Len(syncing[i]) = 1 THEN [stage EXCEPT ![i] = "mentions"] ELSE stage
  /\ table' = [table EXCEPT ![i] = 1]

SyncTable(i) ==
  /\ stage[i] = "sync"
  /\ CopyTable(Head(syncing[i]), Tables[table[i]])
  /\ IF table[i] = Len(Tables) THEN LeaveChip(i)
     ELSE /\ table' = [table EXCEPT ![i] = @ + 1]
          /\ UNCHANGED <<syncing, stage>>
  /\ UNCHANGED <<extractor, chips, rows, alts, todo, seen, refused>>

\* A query fails, or an upsert after some others: the rest of the chip is left
\* out, and nobody but the log is told.
SyncFails(i) ==
  /\ stage[i] = "sync" /\ (May("pg") \/ May("graph"))
  /\ LET current == {r \in rows : r.kind = Tables[table[i]] /\ r.chip = Head(syncing[i])} IN
       \E T \in IF May("graph") THEN SUBSET current ELSE {{}} : facts' = Merge(facts, T)
  /\ LeaveChip(i) /\ refused' = refused \cup {i}
  /\ UNCHANGED <<extractor, chips, rows, alts, nodes, links, todo, seen>>

\* The chips the text mentions get their rows when the graph has been written.
StoreMentions(i) ==
  /\ stage[i] = "mentions"
  /\ LET parts == Mentioned[i] \ {ChipOf[i]}
         known == {a.to : a \in {b \in alts : b.from = ChipOf[i]}} IN
       /\ chips' = chips \cup parts
       /\ alts' = alts \cup {Alt(i, p, "comention") : p \in parts \ known}
  /\ stage' = [stage EXCEPT ![i] = "done"]
  /\ UNCHANGED <<extractor, rows, nodes, facts, links, todo, syncing, table, seen, refused>>

KnowledgeNext ==
  \E i \in Ingestion :
    \/ LinkChip(i) \/ ExtractParams(i) \/ ExtractRules(i) \/ ExtractErrata(i)
    \/ InsertRow(i) \/ StoreAlternatives(i) \/ ListTargets(i) \/ SyncTable(i)
    \/ SyncFails(i) \/ StoreMentions(i)

KnowledgeSpec == KnowledgeInit /\ [][KnowledgeNext]_graphVars

-----------------------------------------------------------------------------
(* Properties                                                              *)

AllDone == \A i \in Ingestion : stage[i] = "done"

\* When the ingestions are over and no store refused anything, the graph has
\* the latest parameters, all rules and documents of every ingested chip, in
\* whatever order overlapping ingestions of one chip wrote and copied them, and
\* an edge for every alternative that was extracted.
GraphIsComplete ==
  AllDone /\ refused = {} =>
    /\ {r \in rows : r.chip \in {ChipOf[i] : i \in Ingestion}} \subseteq facts
    /\ \A a \in alts : a.how = "extracted" => <<a.from, a.to>> \in links

\* Whatever fails, the graph shows nothing that PostgreSQL never held: no edge
\* to a chip without a node, no rule or document of a chip without a row.
GraphInventsNothing ==
  /\ nodes \subseteq chips
  /\ \A l \in links : {l[1], l[2]} \subseteq nodes /\ \E a \in alts : <<a.from, a.to>> = l
  /\ \A x \in facts : \E r \in rows : SameKey(r, x)

\* "create Chip rows + a chip_alternatives edge so Vector RAG / Graph RAG can
\* surface chunks for the comparison/alternative chip" (documents.py:850).
MentionsReachTheGraph ==
  AllDone /\ refused = {} => \A a \in alts : <<a.from, a.to>> \in links

\* The errata the LLM found are stored when no store refuses them.
ErrataAreStored ==
  \A i \in Ingestion :
    i \notin refused /\ stage[i] \in {"alternatives", "targets", "sync", "mentions", "done"} =>
      seen[i] \subseteq rows

\* The graph ends up with what the tables hold and never with anything else.
GraphFollowsTheTables == KnowledgeTypeOK /\ GraphIsComplete /\ GraphInventsNothing
=============================================================================
