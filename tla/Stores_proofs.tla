----------------------------- MODULE Stores_proofs -----------------------------
(***************************************************************************)
(* Proofs about what is written to several stores, by several processes at *)
(* a time: the knowledge graph, users and their tokens, the deletion of a  *)
(* document everywhere, the memories of users, the semantic cache, and     *)
(* what is retrieved, for any number of ingestions, rows, callbacks,       *)
(* calls, queries and answers, and any faults.                             *)
(***************************************************************************)
EXTENDS KnowledgeGraph, SignIn, CoordinatedDelete, LongTermMemory, SemanticCache,
        Retrieval, Lists_proofs, FiniteSetTheorems, TLAPS

-----------------------------------------------------------------------------
(* The graph.  What an ingestion has copied of its own chip stays there,   *)
(* unless a store refused something of that ingestion: so it is enough to  *)
(* say which tables an ingestion has behind it.  An alternative is         *)
(* nobody's in particular, and two ingestions may both write its chip,     *)
(* each after the other has read: GraphInv says that one of them carries   *)
(* it, with the target's node already there or still ahead in its list.    *)
(***************************************************************************)

GraphRow == [kind : {"param", "rule", "errata", "document"}, chip : Part,
             key : Name \cup Ingestion, by : Ingestion]
GraphAlt == [from : Part, to : Part, how : {"extracted", "comention"}]
GraphStage == {"link", "params", "rules", "errata", "alternatives", "targets", "sync", "mentions",
               "done"}
Extracting == {"params", "rules", "errata"}

KnowledgeTypes ==
  /\ extractor \in {"unset", "extractor", "primary"}
  /\ chips \subseteq Part /\ IsFiniteSet(chips) /\ nodes \subseteq chips
  /\ links \subseteq nodes \X nodes
  /\ rows \subseteq GraphRow /\ facts \subseteq GraphRow /\ alts \subseteq GraphAlt
  /\ stage \in [Ingestion -> GraphStage] /\ table \in [Ingestion -> 1..6]
  /\ syncing \in [Ingestion -> Seq(Part)] /\ todo \in [Ingestion -> SUBSET GraphRow]
  /\ refused \subseteq Ingestion

\* Rows are of the chip of the document they come from, one of each key; nothing
\* in the graph is without a row of its key.
RowsAreKeyed ==
  /\ \A r \in rows : r.chip = ChipOf[r.by]
  /\ \A r, s \in rows : SameKey(r, s) => r = s
  /\ \A x \in facts : \E r \in rows : SameKey(r, x)
  /\ \A l \in links : \E a \in alts : <<a.from, a.to>> = l
  /\ \A a \in alts : a.to \in chips

\* The place of an ingestion.
AtItsPlace(i) ==
  /\ stage[i] \notin Extracting => todo[i] = {}
  /\ \A r \in todo[i] : r.by = i /\ r.chip = ChipOf[i]
  /\ stage[i] # "link" => ChipOf[i] \in chips
  /\ stage[i] = "sync" =>
       /\ syncing[i] # <<>> /\ syncing[i][Len(syncing[i])] = ChipOf[i]
       /\ Len(syncing[i]) = 1 /\ table[i] > 1 => ChipOf[i] \in nodes

\* i has copied this table of its own chip.
HasCopied(i, kind) ==
  \/ stage[i] \in {"mentions", "done"}
  \/ /\ stage[i] = "sync" /\ Len(syncing[i]) = 1
     /\ \E k \in 1..6 : Tables[k] = kind /\ k < table[i]

RowsAreCopied ==
  \A r \in rows : r.by \notin refused /\ HasCopied(r.by, r.kind) => r \in facts

\* i copies the alternative, or has done so.
Carries(i, a) ==
  /\ stage[i] \in {"targets", "sync", "mentions", "done"}
  /\ stage[i] = "sync" =>
       \/ a.to \in nodes
       \/ \E k \in 1..(Len(syncing[i]) - 1) : syncing[i][k] = a.to /\ (k = 1 => table[i] = 1)
  /\ HasCopied(i, "alternative") => <<a.from, a.to>> \in links

AltIsCarried(a) == \E i \in Ingestion : ChipOf[i] = a.from /\ (i \in refused \/ Carries(i, a))

AltsAreCarried == \A a \in alts : a.how = "extracted" => AltIsCarried(a)

GraphInv ==
  /\ KnowledgeTypes /\ RowsAreKeyed /\ RowsAreCopied /\ AltsAreCarried
  /\ \A i \in Ingestion : AtItsPlace(i)

LEMMA PhasesAre ==
  /\ ToSet(Phases) = GraphStage
  /\ NextPhase("params") = "rules" /\ NextPhase("rules") = "errata"
  /\ NextPhase("errata") = "alternatives"
<1>1. /\ DOMAIN Phases = 1..9
      /\ Phases[1] = "link" /\ Phases[2] = "params" /\ Phases[3] = "rules"
      /\ Phases[4] = "errata" /\ Phases[5] = "alternatives" /\ Phases[6] = "targets"
      /\ Phases[7] = "sync" /\ Phases[8] = "mentions" /\ Phases[9] = "done"
  BY DEF Phases
<1>2. \A k \in 1..9 : k \in {1, 2, 3, 4, 5, 6, 7, 8, 9}
  OBVIOUS
<1>3. ToSet(Phases) = GraphStage
  <2>1. \A k \in 1..9 : Phases[k] \in GraphStage
    BY <1>1, <1>2 DEF GraphStage
  <2>2. ASSUME NEW p \in GraphStage PROVE \E k \in 1..9 : Phases[k] = p
    BY <1>1 DEF GraphStage
  <2>. QED BY <1>1, <2>1, <2>2 DEF ToSet
<1>4. /\ \A k \in DOMAIN Phases : Phases[k] = "params" <=> k = 2
      /\ \A k \in DOMAIN Phases : Phases[k] = "rules" <=> k = 3
      /\ \A k \in DOMAIN Phases : Phases[k] = "errata" <=> k = 4
  BY <1>1, <1>2
<1>5. /\ (CHOOSE k \in DOMAIN Phases : Phases[k] = "params") = 2
      /\ (CHOOSE k \in DOMAIN Phases : Phases[k] = "rules") = 3
      /\ (CHOOSE k \in DOMAIN Phases : Phases[k] = "errata") = 4
  BY <1>1, <1>4
<1>. QED BY <1>1, <1>3, <1>5 DEF NextPhase

LEMMA TablesAre ==
  /\ Len(Tables) = 6 /\ DOMAIN Tables = 1..6
  /\ Tables[1] = "chip" /\ Tables[2] = "param" /\ Tables[3] = "rule" /\ Tables[4] = "errata"
  /\ Tables[5] = "alternative" /\ Tables[6] = "document"
  /\ \A k \in 1..6 : k \in {1, 2, 3, 4, 5, 6}
BY DEF Tables

LEMMA KnowledgeInitInv == KnowledgeInit => GraphInv
<1>. SUFFICES ASSUME KnowledgeInit PROVE GraphInv
  OBVIOUS
<1>1. KnowledgeTypes
  <2>1. <<>> \in Seq(Part)
    OBVIOUS
  <2>. QED BY <2>1, FS_EmptySet DEF KnowledgeInit, KnowledgeTypes, GraphStage
<1>. QED BY <1>1 DEF KnowledgeInit, GraphInv, RowsAreKeyed, RowsAreCopied, AltsAreCarried,
                     AtItsPlace, Extracting

\* What may be expected of an ingestion.
LEMMA IngestionIs ==
  ASSUME GraphInv, NEW i \in Ingestion
  PROVE  /\ stage[i] \in GraphStage /\ table[i] \in 1..6 /\ syncing[i] \in Seq(Part)
         /\ todo[i] \subseteq GraphRow /\ ChipOf[i] \in Part /\ AtItsPlace(i)
BY KnowledgeAssumption DEF GraphInv, KnowledgeTypes

\* An ingestion that stays where it is still carries what it carried.
LEMMA CarriesStays ==
  ASSUME NEW i \in Ingestion, NEW a \in GraphAlt, Carries(i, a),
         stage'[i] = stage[i], syncing'[i] = syncing[i], table'[i] = table[i],
         nodes \subseteq nodes', links \subseteq links'
  PROVE  Carries(i, a)'
BY DEF Carries, HasCopied

\* One ingestion moves on, stores only grow: what is to be shown of the others.
LEMMA OthersStay ==
  ASSUME GraphInv, NEW i \in Ingestion, chips \subseteq chips', nodes \subseteq nodes',
         \A j \in Ingestion : j # i =>
           /\ stage'[j] = stage[j] /\ syncing'[j] = syncing[j] /\ table'[j] = table[j]
           /\ todo'[j] = todo[j]
  PROVE  \A j \in Ingestion : j # i => AtItsPlace(j)'
BY DEF GraphInv, AtItsPlace

LEMMA UpsertKeeps ==
  ASSUME GraphInv, NEW r \in GraphRow
  PROVE  /\ Upsert(rows, r) \subseteq GraphRow /\ r \in Upsert(rows, r)
         /\ \A s \in Upsert(rows, r) : s = r \/ s \in rows
         /\ \A s, t \in Upsert(rows, r) : SameKey(s, t) => s = t
         /\ \A x \in GraphRow :
              (\E s \in rows : SameKey(s, x)) => \E s \in Upsert(rows, r) : SameKey(s, x)
BY DEF GraphInv, KnowledgeTypes, RowsAreKeyed, Upsert, SameKey

LEMMA MergeKeeps ==
  ASSUME GraphInv, NEW T \in SUBSET rows
  PROVE  /\ Merge(facts, T) \subseteq GraphRow /\ T \subseteq Merge(facts, T)
         /\ \A x \in Merge(facts, T) : \E r \in rows : SameKey(r, x)
         /\ \A r \in rows : r \in facts => r \in Merge(facts, T)
<1>1. T \subseteq Merge(facts, T) /\ \A x \in Merge(facts, T) : x \in facts \/ x \in T
  BY DEF Merge
<1>2. \A x \in T : SameKey(x, x)
  BY DEF SameKey
<1>3. ASSUME NEW r \in rows, r \in facts PROVE r \in Merge(facts, T)
  BY <1>3 DEF GraphInv, RowsAreKeyed, Merge, SameKey
<1>. QED BY <1>1, <1>2, <1>3 DEF GraphInv, KnowledgeTypes, RowsAreKeyed

\* An ingestion that reads its document and stores rows of its own.
LEMMA ReadingKeepsInv ==
  ASSUME GraphInv, NEW i \in Ingestion, NEW r \in GraphRow, r.by = i, r.chip = ChipOf[i],
         rows' = rows \/ rows' = Upsert(rows, r), refused' \in {refused, refused \cup {i}},
         chips' = chips \cup {ChipOf[i]}, extractor' \in {"unset", "extractor", "primary"},
         stage[i] \in {"link", "params", "rules", "errata"},
         NEW p \in {"params", "rules", "errata", "alternatives", "targets"},
         stage' = [stage EXCEPT ![i] = p],
         NEW T \in SUBSET GraphRow, todo' = [todo EXCEPT ![i] = T],
         p \notin Extracting => T = {}, \A s \in T : s.by = i /\ s.chip = ChipOf[i],
         UNCHANGED <<alts, nodes, facts, links, syncing, table>>
  PROVE  GraphInv'
<1>1. /\ stage' \in [Ingestion -> GraphStage] /\ stage'[i] = p
      /\ todo' \in [Ingestion -> SUBSET GraphRow] /\ todo'[i] = T
      /\ \A j \in Ingestion : j # i => stage'[j] = stage[j] /\ todo'[j] = todo[j]
  BY DEF GraphInv, KnowledgeTypes, GraphStage
<1>2. ChipOf[i] \in Part /\ IsFiniteSet(chips')
  <2>1. IsFiniteSet({ChipOf[i]}) /\ IsFiniteSet(chips)
    BY FS_Singleton DEF GraphInv, KnowledgeTypes
  <2>. QED BY <2>1, FS_Union, KnowledgeAssumption
<1>3. rows' \subseteq GraphRow /\ \A s \in rows' : s = r \/ s \in rows
  BY UpsertKeeps DEF GraphInv, KnowledgeTypes
<1>4. KnowledgeTypes'
  BY <1>1, <1>2, <1>3 DEF GraphInv, KnowledgeTypes
<1>5. RowsAreKeyed'
  <2>1. \A s, t \in rows' : SameKey(s, t) => s = t
    BY UpsertKeeps DEF GraphInv, RowsAreKeyed
  <2>2. \A x \in facts : \E s \in rows' : SameKey(s, x)
    <3>1. \A x \in facts : x \in GraphRow /\ \E s \in rows : SameKey(s, x)
      BY DEF GraphInv, KnowledgeTypes, RowsAreKeyed
    <3>. QED BY <3>1, UpsertKeeps
  <2>3. \A s \in rows' : s.chip = ChipOf[s.by]
    BY <1>3 DEF GraphInv, RowsAreKeyed
  <2>. QED BY <2>1, <2>2, <2>3 DEF GraphInv, RowsAreKeyed, SameKey
<1>6. \A kind : ~HasCopied(i, kind)'
  BY <1>1 DEF HasCopied
<1>7. RowsAreCopied'
  <2>. SUFFICES ASSUME NEW s \in rows', s.by \notin refused', HasCopied(s.by, s.kind)'
                PROVE  s \in facts
    BY DEF RowsAreCopied
  <2>1. s.by # i /\ s \in rows /\ s.by \in Ingestion
    BY <1>3, <1>4, <1>6 DEF KnowledgeTypes, GraphRow
  <2>2. HasCopied(s.by, s.kind) /\ s.by \notin refused
    BY <1>1, <2>1 DEF HasCopied
  <2>. QED BY <2>1, <2>2 DEF GraphInv, RowsAreCopied
<1>8. AltsAreCarried'
  <2>. SUFFICES ASSUME NEW a \in alts, a.how = "extracted" PROVE AltIsCarried(a)'
    BY DEF AltsAreCarried
  <2>1. PICK j \in Ingestion : ChipOf[j] = a.from /\ (j \in refused \/ Carries(j, a))
    BY DEF GraphInv, AltsAreCarried, AltIsCarried
  <2>2. CASE j \in refused
    BY <2>1, <2>2 DEF AltIsCarried
  <2>3. CASE Carries(j, a)
    <3>1. j # i
      BY <2>3 DEF Carries
    <3>2. a \in GraphAlt
      BY DEF GraphInv, KnowledgeTypes
    <3>3. Carries(j, a)'
      BY <1>1, <2>3, <3>1, <3>2, CarriesStays
    <3>. QED BY <2>1, <3>3 DEF AltIsCarried
  <2>. QED BY <2>1, <2>2, <2>3
<1>9. \A j \in Ingestion : AtItsPlace(j)'
  <2>1. AtItsPlace(i)'
    BY <1>1 DEF AtItsPlace
  <2>2. \A j \in Ingestion : j # i => AtItsPlace(j)'
    BY <1>1, OthersStay
  <2>. QED BY <2>1, <2>2
<1>. QED BY <1>4, <1>5, <1>7, <1>8, <1>9 DEF GraphInv

LEMMA ReadingStepsKeepInv ==
  ASSUME GraphInv, NEW i \in Ingestion,
         LinkChip(i) \/ ExtractParams(i) \/ ExtractRules(i) \/ ExtractErrata(i) \/ InsertRow(i)
  PROVE  GraphInv'
<1>1. /\ ParamRows(i) \subseteq GraphRow /\ RuleRows(i) \subseteq GraphRow
      /\ ErrataRows(i) \subseteq GraphRow
      /\ \A s \in ParamRows(i) \cup RuleRows(i) \cup ErrataRows(i) : s.by = i /\ s.chip = ChipOf[i]
  BY KnowledgeAssumption DEF ParamRows, RuleRows, ErrataRows, Given, Row, GraphRow
<1>2. PICK d \in GraphRow : d = Row("document", ChipOf[i], i, i)
  BY KnowledgeAssumption DEF Row, GraphRow
<1>3. d.by = i /\ d.chip = ChipOf[i]
  BY <1>2 DEF Row
<1>4. /\ AtItsPlace(i)
      /\ chips \cup {ChipOf[i]} = chips \/ stage[i] = "link"
  BY IngestionIs DEF AtItsPlace
<1>5. CASE LinkChip(i)
  <2>1. PICK p \in {"params", "targets"} : stage' = [stage EXCEPT ![i] = p]
    BY <1>5 DEF LinkChip
  <2>2. todo' = [todo EXCEPT ![i] = {}]
    BY <1>4, <1>5 DEF LinkChip, AtItsPlace, Extracting, GraphInv, KnowledgeTypes
  <2>3. extractor' \in {"unset", "extractor", "primary"}
    BY <1>5 DEF LinkChip, ExtractorAfter, GraphInv, KnowledgeTypes
  <2>. QED BY <1>2, <1>3, <1>5, <2>1, <2>2, <2>3, ReadingKeepsInv DEF LinkChip
<1>6. ASSUME NEW at \in Extracting, NEW taken, NEW T \in SUBSET GraphRow, Extract(i, at, taken, T),
             \A s \in T : s.by = i /\ s.chip = ChipOf[i]
      PROVE  GraphInv'
  <2>1. PICK p \in {"params", "rules", "errata", "alternatives"} :
          stage' = [stage EXCEPT ![i] = p] /\ (p \notin Extracting => T = {})
    <3>1. CASE T = {}
      <4>1. NextPhase(at) \in {"rules", "errata", "alternatives"}
        BY PhasesAre DEF Extracting
      <4>. QED BY <1>6, <3>1, <4>1 DEF Extract
    <3>2. CASE T # {}
      <4>1. stage' = [stage EXCEPT ![i] = at]
        BY <1>6, <3>2 DEF Extract, GraphInv, KnowledgeTypes
      <4>. QED BY <4>1 DEF Extracting
    <3>. QED BY <3>1, <3>2
  <2>2. stage[i] \in Extracting /\ todo' = [todo EXCEPT ![i] = T]
    BY <1>6 DEF Extract
  <2>3. chips' = chips \cup {ChipOf[i]} /\ extractor' \in {"unset", "extractor", "primary"}
    BY <1>4, <1>6, <2>2 DEF Extract, GraphInv, KnowledgeTypes, Extracting
  <2>4. /\ p \in {"params", "rules", "errata", "alternatives", "targets"}
        /\ stage[i] \in {"link", "params", "rules", "errata"}
    BY <2>2 DEF Extracting
  <2>5. UNCHANGED <<rows, alts, nodes, facts, links, syncing, table, refused>>
    BY <1>6 DEF Extract
  <2>. QED BY <1>2, <1>3, <1>6, <2>1, <2>2, <2>3, <2>4, <2>5, ReadingKeepsInv
<1>7. CASE InsertRow(i)
  <2>1. PICK r \in todo[i] :
          /\ todo' = [todo EXCEPT ![i] = @ \ {r}]
          /\ stage' = IF todo[i] = {r} THEN [stage EXCEPT ![i] = NextPhase(@)] ELSE stage
          /\ \/ rows' = Upsert(rows, r) /\ UNCHANGED refused
             \/ May("insert") /\ UNCHANGED rows /\ refused' = refused \cup {i}
    BY <1>7 DEF InsertRow
  <2>2. /\ r \in GraphRow /\ r.by = i /\ r.chip = ChipOf[i] /\ todo[i] \subseteq GraphRow
        /\ \A s \in todo[i] : s.by = i /\ s.chip = ChipOf[i]
    BY IngestionIs DEF AtItsPlace
  <2>3. stage[i] \in Extracting
    BY <1>7 DEF InsertRow, Extracting
  <2>4. PICK p \in {"params", "rules", "errata", "alternatives"} :
          stage' = [stage EXCEPT ![i] = p] /\ (p \notin Extracting => todo[i] = {r})
    <3>1. CASE todo[i] = {r}
      <4>1. NextPhase(stage[i]) \in {"rules", "errata", "alternatives"}
        BY <2>3, PhasesAre DEF Extracting
      <4>. QED BY <2>1, <3>1, <4>1
    <3>2. CASE todo[i] # {r}
      <4>1. stage' = [stage EXCEPT ![i] = stage[i]]
        BY <2>1, <3>2 DEF GraphInv, KnowledgeTypes
      <4>. QED BY <2>3, <4>1 DEF Extracting
    <3>. QED BY <3>1, <3>2
  <2>5. PICK T \in SUBSET GraphRow : T = todo[i] \ {r}
    BY <2>2
  <2>6. todo' = [todo EXCEPT ![i] = T] /\ (p \notin Extracting => T = {})
    BY <2>1, <2>4, <2>5
  <2>7. chips' = chips \cup {ChipOf[i]} /\ extractor' \in {"unset", "extractor", "primary"}
    BY <1>4, <1>7, <2>3 DEF InsertRow, GraphInv, KnowledgeTypes, Extracting
  <2>8. refused' \in {refused, refused \cup {i}} /\ (rows' = rows \/ rows' = Upsert(rows, r))
    BY <2>1
  <2>9. /\ p \in {"params", "rules", "errata", "alternatives", "targets"}
        /\ stage[i] \in {"link", "params", "rules", "errata"}
        /\ \A s \in T : s.by = i /\ s.chip = ChipOf[i]
    BY <2>2, <2>3, <2>5 DEF Extracting
  <2>10. UNCHANGED <<alts, nodes, facts, links, syncing, table>>
    BY <1>7 DEF InsertRow
  <2>. QED BY <2>2, <2>4, <2>6, <2>7, <2>8, <2>9, <2>10, ReadingKeepsInv
<1>. QED BY <1>1, <1>5, <1>6, <1>7 DEF ExtractParams, ExtractRules, ExtractErrata, Extracting

LEMMA AlternativesKeepInv ==
  ASSUME GraphInv, NEW i \in Ingestion, StoreAlternatives(i)
  PROVE  GraphInv'
<1>1. PICK named \in SUBSET (Other[i] \ {ChipOf[i]}) :
        /\ chips' = chips \cup named
        /\ \/ alts' = {b \in alts : ~ (b.from = ChipOf[i] /\ b.to \in named)}
                       \cup {Alt(i, p, "extracted") : p \in named}
           \/ UNCHANGED alts
        /\ refused' \in {refused, refused \cup {i}}
  BY DEF StoreAlternatives
<1>2. /\ stage[i] = "alternatives" /\ stage' = [stage EXCEPT ![i] = "targets"]
      /\ UNCHANGED <<extractor, rows, nodes, facts, links, todo, syncing, table, seen>>
  BY DEF StoreAlternatives
<1>3. named \subseteq Part /\ IsFiniteSet(chips') /\ ChipOf[i] \in Part
  <2>1. named \subseteq Other[i] /\ IsFiniteSet(Other[i]) /\ IsFiniteSet(chips)
    BY KnowledgeAssumption DEF GraphInv, KnowledgeTypes
  <2>2. IsFiniteSet(named)
    BY <2>1, FS_Subset
  <2>. QED BY <1>1, <2>1, <2>2, FS_Union, KnowledgeAssumption
<1>4. \A p \in named : /\ Alt(i, p, "extracted") \in GraphAlt
                       /\ Alt(i, p, "extracted").from = ChipOf[i] /\ Alt(i, p, "extracted").to = p
  BY <1>3 DEF Alt, GraphAlt
<1>5. /\ stage' \in [Ingestion -> GraphStage] /\ stage'[i] = "targets"
      /\ \A j \in Ingestion : j # i => stage'[j] = stage[j]
  BY <1>2 DEF GraphInv, KnowledgeTypes, GraphStage
<1>6. /\ alts' \subseteq GraphAlt
      /\ \A a \in alts' : a \in alts \/ (a.from = ChipOf[i] /\ a.to \in named)
  BY <1>1, <1>4 DEF GraphInv, KnowledgeTypes
<1>7. KnowledgeTypes'
  BY <1>1, <1>2, <1>3, <1>5, <1>6 DEF GraphInv, KnowledgeTypes
<1>8. RowsAreKeyed'
  <2>1. ASSUME NEW a \in alts PROVE \E b \in alts' : b.from = a.from /\ b.to = a.to
    <3>1. CASE a.from = ChipOf[i] /\ a.to \in named /\ ~ (alts' = alts)
      BY <1>1, <1>4, <3>1
    <3>2. CASE ~ (a.from = ChipOf[i] /\ a.to \in named) \/ alts' = alts
      BY <1>1, <3>2
    <3>. QED BY <3>1, <3>2
  <2>2. \A l \in links : \E b \in alts' : <<b.from, b.to>> = l
    BY <2>1 DEF GraphInv, RowsAreKeyed
  <2>. QED BY <1>1, <1>2, <1>6, <2>2 DEF GraphInv, RowsAreKeyed, SameKey
<1>9. \A j \in Ingestion : \A kind : HasCopied(j, kind)' <=> HasCopied(j, kind)
  BY <1>2, <1>5 DEF HasCopied
<1>10. RowsAreCopied'
  BY <1>1, <1>2, <1>9 DEF GraphInv, RowsAreCopied, KnowledgeTypes, GraphRow
<1>11. AltsAreCarried'
  <2>. SUFFICES ASSUME NEW a \in alts', a.how = "extracted" PROVE AltIsCarried(a)'
    BY DEF AltsAreCarried
  <2>1. CASE a.from = ChipOf[i] /\ a.to \in named
    <3>1. Carries(i, a)'
      BY <1>5 DEF Carries, HasCopied
    <3>. QED BY <2>1, <3>1 DEF AltIsCarried
  <2>2. CASE a \in alts
    <3>1. PICK j \in Ingestion : ChipOf[j] = a.from /\ (j \in refused \/ Carries(j, a))
      BY <2>2 DEF GraphInv, AltsAreCarried, AltIsCarried
    <3>2. CASE j \in refused
      BY <1>1, <3>1, <3>2 DEF AltIsCarried
    <3>3. CASE Carries(j, a)
      <4>1. j # i
        BY <1>2, <3>3 DEF Carries
      <4>2. Carries(j, a)'
        BY <1>2, <1>5, <1>6, <3>3, <4>1, CarriesStays
      <4>. QED BY <3>1, <4>2 DEF AltIsCarried
    <3>. QED BY <3>1, <3>2, <3>3
  <2>. QED BY <1>6, <2>1, <2>2
<1>12. \A j \in Ingestion : AtItsPlace(j)'
  <2>1. AtItsPlace(i)'
    BY <1>1, <1>2, <1>5 DEF GraphInv, AtItsPlace, Extracting
  <2>2. \A j \in Ingestion : j # i => AtItsPlace(j)'
    BY <1>1, <1>2, <1>5, OthersStay
  <2>. QED BY <2>1, <2>2
<1>. QED BY <1>7, <1>8, <1>10, <1>11, <1>12 DEF GraphInv

LEMMA MentionsKeepInv ==
  ASSUME GraphInv, NEW i \in Ingestion, StoreMentions(i)
  PROVE  GraphInv'
<1>1. PICK parts \in SUBSET Mentioned[i] : parts = Mentioned[i] \ {ChipOf[i]}
  OBVIOUS
<1>2. /\ stage[i] = "mentions" /\ stage' = [stage EXCEPT ![i] = "done"]
      /\ UNCHANGED <<extractor, rows, nodes, facts, links, todo, syncing, table, seen, refused>>
      /\ chips' = chips \cup parts /\ alts \subseteq alts'
      /\ \A a \in alts' : a \in alts \/ \E p \in parts : a = Alt(i, p, "comention")
  BY <1>1 DEF StoreMentions
<1>3. parts \subseteq Part /\ IsFiniteSet(chips') /\ ChipOf[i] \in Part
  <2>1. IsFiniteSet(Mentioned[i]) /\ IsFiniteSet(chips)
    BY KnowledgeAssumption DEF GraphInv, KnowledgeTypes
  <2>2. IsFiniteSet(parts)
    BY <1>1, <2>1, FS_Subset
  <2>. QED BY <1>1, <1>2, <2>1, <2>2, FS_Union, KnowledgeAssumption
<1>4. \A p \in parts : /\ Alt(i, p, "comention") \in GraphAlt
                       /\ Alt(i, p, "comention").to = p /\ Alt(i, p, "comention").how # "extracted"
  BY <1>3 DEF Alt, GraphAlt
<1>5. /\ stage' \in [Ingestion -> GraphStage] /\ stage'[i] = "done"
      /\ \A j \in Ingestion : j # i => stage'[j] = stage[j]
  BY <1>2 DEF GraphInv, KnowledgeTypes, GraphStage
<1>6. KnowledgeTypes'
  BY <1>2, <1>3, <1>4, <1>5 DEF GraphInv, KnowledgeTypes
<1>7. RowsAreKeyed'
  BY <1>2, <1>4 DEF GraphInv, RowsAreKeyed, SameKey
<1>8. \A j \in Ingestion : \A kind : HasCopied(j, kind)' <=> HasCopied(j, kind)
  BY <1>2, <1>5 DEF HasCopied
<1>9. RowsAreCopied'
  BY <1>2, <1>8 DEF GraphInv, RowsAreCopied, KnowledgeTypes, GraphRow
<1>10. AltsAreCarried'
  <2>. SUFFICES ASSUME NEW a \in alts', a.how = "extracted" PROVE AltIsCarried(a)'
    BY DEF AltsAreCarried
  <2>1. a \in alts
    BY <1>2, <1>4
  <2>2. PICK j \in Ingestion : ChipOf[j] = a.from /\ (j \in refused \/ Carries(j, a))
    BY <2>1 DEF GraphInv, AltsAreCarried, AltIsCarried
  <2>3. Carries(j, a) => Carries(j, a)'
    BY <1>2, <1>5, <1>8 DEF Carries
  <2>. QED BY <1>2, <2>2, <2>3 DEF AltIsCarried
<1>11. \A j \in Ingestion : AtItsPlace(j)'
  <2>1. AtItsPlace(i)'
    BY <1>2, <1>5 DEF GraphInv, AtItsPlace, Extracting
  <2>2. \A j \in Ingestion : j # i => AtItsPlace(j)'
    BY <1>2, <1>5, OthersStay
  <2>. QED BY <2>1, <2>2
<1>. QED BY <1>6, <1>7, <1>9, <1>10, <1>11 DEF GraphInv

LEMMA TargetsKeepInv ==
  ASSUME GraphInv, NEW i \in Ingestion, ListTargets(i)
  PROVE  GraphInv'
<1>1. /\ stage[i] = "targets" /\ stage' = [stage EXCEPT ![i] = "sync"]
      /\ table' = [table EXCEPT ![i] = 1] /\ refused' \in {refused, refused \cup {i}}
      /\ UNCHANGED <<extractor, chips, rows, alts, nodes, facts, links, todo, seen>>
  BY DEF ListTargets
<1>2. PICK s \in Seq(Part) :
        /\ syncing' = [syncing EXCEPT ![i] = s] /\ s # <<>> /\ s[Len(s)] = ChipOf[i]
        /\ \/ i \in refused'
           \/ \A a \in alts : a.from = ChipOf[i] => \E k \in 1..(Len(s) - 1) : s[k] = a.to
  <2>. DEFINE targets == {a.to : a \in {b \in alts : b.from = ChipOf[i]}}
  <2>1. ChipOf[i] \in Part
    BY KnowledgeAssumption
  <2>2. CASE \E s \in SyncPlan(i) : syncing' = [syncing EXCEPT ![i] = s]
    <3>1. targets \subseteq Part /\ IsFiniteSet(targets)
      <4>1. targets \subseteq chips /\ IsFiniteSet(chips) /\ chips \subseteq Part
        BY DEF GraphInv, KnowledgeTypes, RowsAreKeyed
      <4>. QED BY <4>1, FS_Subset
    <3>2. PICK q \in SetToSeqs(targets) : syncing' = [syncing EXCEPT ![i] = Append(q, ChipOf[i])]
      BY <2>2 DEF SyncPlan
    <3>3. PICK n \in Nat : n = Cardinality(targets)
      BY <3>1, FS_CardinalityType
    <3>4. q \in Injection(1..n, targets)
      BY <3>2, <3>3 DEF SetToSeqs, Injection, IsInjective
    <3>5. IsFiniteSet(1..n) /\ Cardinality(1..n) = n
      <4>1. 1 \in Int /\ n \in Int
        OBVIOUS
      <4>2. IsFiniteSet(1..n) /\ Cardinality(1..n) = IF 1 > n THEN 0 ELSE n - 1 + 1
        BY <4>1, FS_Interval, Zenon
      <4>. QED BY <4>2
    <3>6. q \in Surjection(1..n, targets)
      BY <3>1, <3>3, <3>4, <3>5, FS_Injection
    <3>7. q \in Seq(Part) /\ Len(q) = n /\ \A t \in targets : \E k \in 1..n : q[k] = t
      <4>1. q \in [1..n -> Part] /\ \A t \in targets : \E k \in 1..n : q[k] = t
        BY <3>1, <3>4, <3>6 DEF Injection, Surjection
      <4>2. q \in Seq(Part)
        BY <4>1
      <4>3. DOMAIN q = 1..n /\ DOMAIN q = 1..Len(q) /\ Len(q) \in Nat
        BY <4>1, <4>2
      <4>4. Len(q) = n
        BY <4>3
      <4>. QED BY <4>1, <4>2, <4>4
    <3>8. PICK s \in Seq(Part) : s = Append(q, ChipOf[i])
      <4>1. Append(q, ChipOf[i]) \in Seq(Part)
        BY <2>1, <3>7
      <4>. QED BY <4>1
    <3>9. Len(s) = n + 1 /\ s[n + 1] = ChipOf[i] /\ \A k \in 1..n : s[k] = q[k]
      BY <3>7, <3>8
    <3>10. s # <<>> /\ Len(s) - 1 = n
      BY <3>9
    <3>11. \A a \in alts : a.from = ChipOf[i] => a.to \in targets
      OBVIOUS
    <3>12. ASSUME NEW a \in alts, a.from = ChipOf[i]
           PROVE  \E k \in 1..(Len(s) - 1) : s[k] = a.to
      <4>1. PICK k \in 1..n : q[k] = a.to
        BY <3>7, <3>11, <3>12
      <4>. QED BY <3>9, <3>10, <4>1
    <3>13. s[Len(s)] = ChipOf[i] /\ syncing' = [syncing EXCEPT ![i] = s]
      BY <3>2, <3>8, <3>9
    <3>. QED BY <3>10, <3>12, <3>13
  <2>3. CASE syncing' = [syncing EXCEPT ![i] = <<ChipOf[i]>>] /\ refused' = refused \cup {i}
    <3>1. <<ChipOf[i]>> \in Seq(Part)
      BY <2>1
    <3>2. PICK s \in Seq(Part) : s = <<ChipOf[i]>>
      BY <3>1
    <3>3. Len(s) = 1 /\ s[1] = ChipOf[i] /\ s # <<>>
      BY <3>2
    <3>. QED BY <2>3, <3>2, <3>3
  <2>. QED BY <2>2, <2>3 DEF ListTargets
<1>3. /\ stage' \in [Ingestion -> GraphStage] /\ stage'[i] = "sync"
      /\ syncing' \in [Ingestion -> Seq(Part)] /\ syncing'[i] = s
      /\ table' \in [Ingestion -> 1..6] /\ table'[i] = 1
      /\ \A j \in Ingestion : j # i => /\ stage'[j] = stage[j] /\ syncing'[j] = syncing[j]
                                       /\ table'[j] = table[j]
  BY <1>1, <1>2 DEF GraphInv, KnowledgeTypes, GraphStage
<1>4. KnowledgeTypes'
  BY <1>1, <1>3 DEF GraphInv, KnowledgeTypes
<1>5. RowsAreKeyed'
  BY <1>1 DEF GraphInv, RowsAreKeyed, SameKey
<1>6. \A kind : ~HasCopied(i, kind)'
  BY <1>3 DEF HasCopied
<1>7. RowsAreCopied'
  BY <1>1, <1>3, <1>6 DEF GraphInv, RowsAreCopied, KnowledgeTypes, GraphRow, HasCopied
<1>8. AltsAreCarried'
  <2>. SUFFICES ASSUME NEW a \in alts, a.how = "extracted" PROVE AltIsCarried(a)'
    BY <1>1 DEF AltsAreCarried
  <2>1. PICK j \in Ingestion : ChipOf[j] = a.from /\ (j \in refused \/ Carries(j, a))
    BY DEF GraphInv, AltsAreCarried, AltIsCarried
  <2>2. CASE j \in refused'
    BY <2>1, <2>2 DEF AltIsCarried
  <2>3. CASE j = i /\ j \notin refused'
    <3>1. PICK k \in 1..(Len(s) - 1) : s[k] = a.to
      BY <1>2, <2>1, <2>3
    <3>2. Carries(i, a)'
      BY <1>3, <1>6, <3>1 DEF Carries
    <3>. QED BY <2>1, <2>3, <3>2 DEF AltIsCarried
  <2>4. CASE j # i /\ j \notin refused'
    <3>1. a \in GraphAlt /\ Carries(j, a)
      BY <1>1, <2>1, <2>4 DEF GraphInv, KnowledgeTypes
    <3>2. Carries(j, a)'
      BY <1>1, <1>3, <2>4, <3>1, CarriesStays
    <3>. QED BY <2>1, <3>2 DEF AltIsCarried
  <2>. QED BY <2>2, <2>3, <2>4
<1>9. \A j \in Ingestion : AtItsPlace(j)'
  <2>1. AtItsPlace(i)'
    BY <1>1, <1>2, <1>3 DEF GraphInv, AtItsPlace, Extracting
  <2>2. \A j \in Ingestion : j # i => AtItsPlace(j)'
    BY <1>1, <1>3, OthersStay
  <2>. QED BY <2>1, <2>2
<1>. QED BY <1>4, <1>5, <1>7, <1>8, <1>9 DEF GraphInv

\* The chip that is being copied, and how far it is.
LEMMA SyncingIs ==
  ASSUME GraphInv, NEW i \in Ingestion, stage[i] = "sync"
  PROVE  /\ Len(syncing[i]) \in Nat \ {0} /\ syncing[i] \in Seq(Part)
         /\ Head(syncing[i]) = syncing[i][1] /\ syncing[i][Len(syncing[i])] = ChipOf[i]
         /\ Head(syncing[i]) \in Part /\ todo[i] = {} /\ ChipOf[i] \in chips
         /\ Len(syncing[i]) = 1 => Head(syncing[i]) = ChipOf[i]
         /\ Len(syncing[i]) = 1 /\ table[i] > 1 => ChipOf[i] \in nodes
BY IngestionIs DEF AtItsPlace, Extracting

LEMMA LeavingIs ==
  ASSUME GraphInv, NEW i \in Ingestion, stage[i] = "sync", LeaveChip(i)
  PROVE  /\ stage' \in [Ingestion -> GraphStage] /\ table' \in [Ingestion -> 1..6]
         /\ syncing' \in [Ingestion -> Seq(Part)]
         /\ \A j \in Ingestion : j # i => /\ stage'[j] = stage[j] /\ syncing'[j] = syncing[j]
                                          /\ table'[j] = table[j]
         /\ table'[i] = 1 /\ Len(syncing'[i]) = Len(syncing[i]) - 1
         /\ \A k \in 1..(Len(syncing[i]) - 1) : syncing'[i][k] = syncing[i][k + 1]
         /\ Len(syncing[i]) = 1 => stage'[i] = "mentions"
         /\ Len(syncing[i]) # 1 => stage'[i] = "sync"
<1>1. PICK s \in Seq(Part) : s = syncing[i] /\ Len(s) \in Nat \ {0} /\ s # <<>>
  BY SyncingIs
<1>2. PICK t \in Seq(Part) : t = Tail(s)
  <2>1. Tail(s) \in Seq(Part)
    BY <1>1
  <2>. QED BY <2>1
<1>3. Len(t) = Len(s) - 1 /\ \A k \in 1..(Len(s) - 1) : t[k] = s[k + 1]
  BY <1>1, <1>2
<1>4. syncing' = [syncing EXCEPT ![i] = t] /\ table' = [table EXCEPT ![i] = 1]
  BY <1>1, <1>2 DEF LeaveChip
<1>5. \E p \in {"mentions", "sync"} :
        /\ stage' = [stage EXCEPT ![i] = p]
        /\ Len(s) = 1 => p = "mentions"
        /\ Len(s) # 1 => p = "sync"
  <2>1. CASE Len(s) = 1
    BY <1>1, <2>1 DEF LeaveChip
  <2>2. CASE Len(s) # 1
    <3>1. stage' = [stage EXCEPT ![i] = "sync"]
      BY <1>1, <2>2 DEF LeaveChip, GraphInv, KnowledgeTypes
    <3>. QED BY <2>2, <3>1
  <2>. QED BY <2>1, <2>2
<1>. QED BY <1>1, <1>3, <1>4, <1>5 DEF GraphInv, KnowledgeTypes, GraphStage

\* A step of an ingestion that copies: what is left to show is what it carries.
LEMMA CopyingKeepsInv ==
  ASSUME GraphInv, NEW i \in Ingestion, stage[i] = "sync",
         nodes \subseteq nodes', nodes' \subseteq chips, links \subseteq links',
         links' \subseteq nodes' \X nodes', \A l \in links' : \E a \in alts : <<a.from, a.to>> = l,
         NEW T \in SUBSET rows, facts' = Merge(facts, T) \/ facts' = facts,
         refused' \in {refused, refused \cup {i}},
         \/ LeaveChip(i)
         \/ table[i] # 6 /\ table' = [table EXCEPT ![i] = @ + 1] /\ UNCHANGED <<syncing, stage>>,
         UNCHANGED <<extractor, chips, rows, alts, todo, seen>>,
         \A r \in rows : i \notin refused' /\ r.by = i /\ HasCopied(i, r.kind)' => r \in facts',
         \A a \in alts : i \notin refused' /\ ChipOf[i] = a.from /\ Carries(i, a) => Carries(i, a)',
         Len(syncing[i]) = 1 /\ table'[i] > 1 => ChipOf[i] \in nodes'
  PROVE  GraphInv'
<1>1. /\ stage' \in [Ingestion -> GraphStage] /\ table' \in [Ingestion -> 1..6]
      /\ syncing' \in [Ingestion -> Seq(Part)]
      /\ \A j \in Ingestion : j # i => /\ stage'[j] = stage[j] /\ syncing'[j] = syncing[j]
                                       /\ table'[j] = table[j]
  <2>1. CASE LeaveChip(i)
    BY <2>1, LeavingIs
  <2>2. CASE table[i] # 6 /\ table' = [table EXCEPT ![i] = @ + 1] /\ UNCHANGED <<syncing, stage>>
    <3>1. table[i] + 1 \in 1..6
      BY <2>2, IngestionIs
    <3>. QED BY <2>2, <3>1 DEF GraphInv, KnowledgeTypes
  <2>. QED BY <2>1, <2>2
<1>2. facts' \subseteq GraphRow /\ \A r \in rows : r \in facts => r \in facts'
  BY MergeKeeps DEF GraphInv, KnowledgeTypes
<1>3. KnowledgeTypes'
  BY <1>1, <1>2 DEF GraphInv, KnowledgeTypes
<1>4. RowsAreKeyed'
  <2>1. \A x \in facts' : \E r \in rows : SameKey(r, x)
    BY MergeKeeps DEF GraphInv, RowsAreKeyed
  <2>. QED BY <2>1 DEF GraphInv, RowsAreKeyed, SameKey
<1>5. RowsAreCopied'
  BY <1>1, <1>2 DEF GraphInv, RowsAreCopied, KnowledgeTypes, GraphRow, HasCopied
<1>6. AltsAreCarried'
  <2>. SUFFICES ASSUME NEW a \in alts, a.how = "extracted" PROVE AltIsCarried(a)'
    BY DEF AltsAreCarried
  <2>1. PICK j \in Ingestion : ChipOf[j] = a.from /\ (j \in refused \/ Carries(j, a))
    BY DEF GraphInv, AltsAreCarried, AltIsCarried
  <2>2. CASE j \in refused'
    BY <2>1, <2>2 DEF AltIsCarried
  <2>3. CASE j = i /\ j \notin refused'
    BY <2>1, <2>3 DEF AltIsCarried
  <2>4. CASE j # i /\ j \notin refused'
    <3>1. a \in GraphAlt /\ Carries(j, a)
      BY <2>1, <2>4 DEF GraphInv, KnowledgeTypes
    <3>2. Carries(j, a)'
      BY <1>1, <2>4, <3>1, CarriesStays
    <3>. QED BY <2>1, <3>2 DEF AltIsCarried
  <2>. QED BY <2>2, <2>3, <2>4
<1>7. \A j \in Ingestion : AtItsPlace(j)'
  <2>1. todo[i] = {} /\ ChipOf[i] \in chips
    BY SyncingIs
  <2>2. stage'[i] \in {"sync", "mentions"}
    <3>1. CASE LeaveChip(i)
      BY <3>1, LeavingIs
    <3>. QED BY <3>1
  <2>3. ASSUME stage'[i] = "sync"
        PROVE  /\ syncing'[i] # <<>> /\ syncing'[i][Len(syncing'[i])] = ChipOf[i]
               /\ Len(syncing'[i]) = 1 /\ table'[i] > 1 => ChipOf[i] \in nodes'
    <3>1. CASE LeaveChip(i)
      <4>1. PICK s, t \in Seq(Part) : s = syncing[i] /\ t = syncing'[i]
        BY <1>1, IngestionIs
      <4>2. Len(s) \in Nat \ {0} /\ Len(s) # 1 /\ Len(t) = Len(s) - 1 /\ table'[i] = 1
        BY <2>3, <3>1, <4>1, SyncingIs, LeavingIs
      <4>3. \A k \in 1..(Len(s) - 1) : t[k] = s[k + 1]
        BY <3>1, <4>1, LeavingIs
      <4>4. t[Len(t)] = s[Len(s)] /\ t # <<>>
        BY <4>2, <4>3
      <4>. QED BY <4>1, <4>2, <4>4, SyncingIs
    <3>2. CASE UNCHANGED syncing
      BY <3>2, SyncingIs
    <3>. QED BY <3>1, <3>2
  <2>4. AtItsPlace(i)'
    BY <2>1, <2>2, <2>3 DEF AtItsPlace, Extracting
  <2>5. \A j \in Ingestion : j # i => AtItsPlace(j)'
    BY <1>1, OthersStay
  <2>. QED BY <2>4, <2>5
<1>. QED BY <1>3, <1>4, <1>5, <1>6, <1>7 DEF GraphInv

LEMMA FailingKeepsInv ==
  ASSUME GraphInv, NEW i \in Ingestion, SyncFails(i)
  PROVE  GraphInv'
<1>1. PICK T \in SUBSET rows : facts' = Merge(facts, T)
  BY DEF SyncFails
<1>2. /\ stage[i] = "sync" /\ LeaveChip(i) /\ refused' = refused \cup {i}
      /\ UNCHANGED <<extractor, chips, rows, alts, nodes, links, todo, seen>>
  BY DEF SyncFails
<1>3. table'[i] = 1
  BY <1>2, LeavingIs
<1>4. nodes \subseteq chips /\ links \subseteq nodes \X nodes
      /\ \A l \in links : \E a \in alts : <<a.from, a.to>> = l
  BY DEF GraphInv, KnowledgeTypes, RowsAreKeyed
<1>. QED BY <1>1, <1>2, <1>3, <1>4, CopyingKeepsInv

LEMMA SyncKeepsInv ==
  ASSUME GraphInv, NEW i \in Ingestion, SyncTable(i)
  PROVE  GraphInv'
<1>1. PICK c \in Part, k \in 1..6 : c = Head(syncing[i]) /\ k = table[i]
  BY IngestionIs, SyncingIs DEF SyncTable
<1>2. /\ stage[i] = "sync" /\ CopyTable(c, Tables[k])
      /\ UNCHANGED <<extractor, chips, rows, alts, todo, seen, refused>>
      /\ \/ k = 6 /\ LeaveChip(i)
         \/ k # 6 /\ table' = [table EXCEPT ![i] = @ + 1] /\ UNCHANGED <<syncing, stage>>
  BY <1>1, TablesAre DEF SyncTable
<1>3. PICK T \in SUBSET rows : T = {r \in rows : r.kind = Tables[k] /\ r.chip = c}
  OBVIOUS
<1>4. /\ k = 1 => nodes' = nodes \cup ({c} \cap chips) /\ UNCHANGED <<facts, links>>
      /\ k = 5 => /\ UNCHANGED <<nodes, facts>>
                  /\ links' = links \cup ({c} \X Found(c, {a.to : a \in {b \in alts : b.from = c}}))
      /\ k \in {2, 3, 4, 6} => facts' = Merge(facts, T) /\ UNCHANGED <<nodes, links>>
  BY <1>2, <1>3, TablesAre DEF CopyTable
<1>5. k \in {1, 2, 3, 4, 5, 6}
  BY TablesAre
<1>6. /\ nodes \subseteq chips /\ links \subseteq nodes \X nodes
      /\ \A l \in links : \E a \in alts : <<a.from, a.to>> = l
  BY DEF GraphInv, KnowledgeTypes, RowsAreKeyed
<1>7. /\ nodes \subseteq nodes' /\ nodes' \subseteq chips /\ links \subseteq links'
      /\ links' \subseteq nodes' \X nodes'
      /\ \A l \in links' : \E a \in alts : <<a.from, a.to>> = l
  <2>1. CASE k = 5
    BY <1>4, <1>6, <2>1 DEF Found
  <2>2. CASE k # 5
    BY <1>4, <1>5, <1>6, <2>2
  <2>. QED BY <2>1, <2>2
<1>8. PICK n \in Nat \ {0} : n = Len(syncing[i])
  BY <1>2, SyncingIs
<1>9. n = 1 => c = ChipOf[i] /\ c \in chips /\ (k > 1 => c \in nodes)
  BY <1>1, <1>2, <1>8, SyncingIs
<1>10. n = 1 /\ table'[i] > 1 => ChipOf[i] \in nodes'
  BY <1>4, <1>5, <1>7, <1>9
<1>11. ASSUME NEW kind \in {"param", "rule", "errata", "document", "alternative"}, HasCopied(i, kind)'
       PROVE  n = 1 /\ (HasCopied(i, kind) \/ kind = Tables[k])
  <2>1. CASE k = 6 /\ LeaveChip(i)
    <3>1. table'[i] = 1 /\ (n # 1 => stage'[i] = "sync")
      BY <1>2, <1>8, <2>1, LeavingIs
    <3>2. n = 1
      BY <1>11, <3>1 DEF HasCopied
    <3>. QED BY <1>1, <1>2, <1>8, <2>1, <3>2, TablesAre DEF HasCopied
  <2>2. CASE k # 6 /\ table' = [table EXCEPT ![i] = @ + 1] /\ UNCHANGED <<syncing, stage>>
    <3>1. table'[i] = k + 1
      BY <1>1, <2>2 DEF GraphInv, KnowledgeTypes
    <3>2. PICK m \in 1..6 : Tables[m] = kind /\ m < k + 1 /\ n = 1
      BY <1>2, <1>8, <1>11, <2>2, <3>1 DEF HasCopied
    <3>. QED BY <1>1, <1>2, <1>8, <3>2 DEF HasCopied
  <2>. QED BY <1>2, <2>1, <2>2
<1>12. ASSUME NEW r \in rows, i \notin refused', r.by = i, HasCopied(i, r.kind)'
       PROVE  r \in facts'
  <2>1. r.kind \in {"param", "rule", "errata", "document"} /\ r.chip = ChipOf[i]
    BY <1>12 DEF GraphInv, KnowledgeTypes, RowsAreKeyed, GraphRow
  <2>2. CASE HasCopied(i, r.kind)
    <3>1. r \in facts
      BY <1>2, <1>12, <2>2 DEF GraphInv, RowsAreCopied
    <3>. QED BY <1>4, <1>5, <3>1, MergeKeeps
  <2>3. CASE n = 1 /\ r.kind = Tables[k]
    <3>1. k \in {2, 3, 4, 6} /\ r \in T
      BY <1>3, <1>5, <1>9, <2>1, <2>3, TablesAre
    <3>. QED BY <1>4, <3>1, MergeKeeps
  <2>. QED BY <1>11, <1>12, <2>1, <2>2, <2>3
<1>13. ASSUME NEW a \in alts, ChipOf[i] = a.from, Carries(i, a)
       PROVE  Carries(i, a)'
  <2>1. stage'[i] \in {"sync", "mentions"}
    BY <1>2, LeavingIs
  <2>2. a.to \in chips
    BY DEF GraphInv, RowsAreKeyed
  <2>3. \/ a.to \in nodes
        \/ \E m \in 1..(n - 1) : syncing[i][m] = a.to /\ (m = 1 => k = 1)
    BY <1>1, <1>2, <1>8, <1>13 DEF Carries
  <2>4. ASSUME stage'[i] = "sync", a.to \notin nodes'
        PROVE  \E m \in 1..(Len(syncing'[i]) - 1) : syncing'[i][m] = a.to /\ (m = 1 => table'[i] = 1)
    <3>1. PICK m \in 1..(n - 1) : syncing[i][m] = a.to /\ (m = 1 => k = 1)
      BY <1>7, <2>3, <2>4
    <3>2. m # 1
      BY <1>1, <1>2, <1>4, <2>2, <2>4, <3>1, SyncingIs
    <3>3. CASE k = 6 /\ LeaveChip(i)
      <4>1. /\ table'[i] = 1 /\ Len(syncing'[i]) = n - 1
            /\ \A l \in 1..(n - 1) : syncing'[i][l] = syncing[i][l + 1]
        BY <1>2, <1>8, <3>3, LeavingIs
      <4>2. PICK l \in 1..(n - 2) : l + 1 = m /\ l \in 1..(n - 1)
        <5>1. m - 1 \in 1..(n - 2) /\ (m - 1) + 1 = m /\ m - 1 \in 1..(n - 1)
          BY <3>1, <3>2
        <5>. QED BY <5>1
      <4>3. syncing'[i][l] = a.to
        BY <3>1, <4>1, <4>2
      <4>. QED BY <4>1, <4>2, <4>3
    <3>4. CASE UNCHANGED syncing
      BY <1>8, <3>1, <3>2, <3>4
    <3>. QED BY <1>2, <3>3, <3>4
  <2>5. ASSUME HasCopied(i, "alternative")' PROVE <<a.from, a.to>> \in links'
    <3>1. n = 1
      BY <1>11, <2>5
    <3>2. CASE HasCopied(i, "alternative")
      BY <1>7, <1>13, <3>2 DEF Carries
    <3>3. CASE Tables[k] = "alternative"
      <4>1. k = 5
        BY <1>5, <3>3, TablesAre
      <4>2. c \in nodes /\ c = a.from /\ a.to \in nodes
        BY <1>9, <1>13, <2>3, <3>1, <4>1
      <4>. QED BY <1>4, <4>1, <4>2 DEF Found
    <3>. QED BY <1>11, <2>5, <3>2, <3>3
  <2>. QED BY <1>2, <2>1, <2>4, <2>5 DEF Carries
<1>14. facts' = Merge(facts, T) \/ facts' = facts
  BY <1>4, <1>5
<1>15. \/ LeaveChip(i)
       \/ table[i] # 6 /\ table' = [table EXCEPT ![i] = @ + 1] /\ UNCHANGED <<syncing, stage>>
  BY <1>1, <1>2
<1>16. /\ refused' \in {refused, refused \cup {i}}
       /\ Len(syncing[i]) = 1 /\ table'[i] > 1 => ChipOf[i] \in nodes'
  BY <1>2, <1>8, <1>10
<1>. QED BY <1>2, <1>7, <1>12, <1>13, <1>14, <1>15, <1>16, CopyingKeepsInv

LEMMA KnowledgeStepKeepsInv == GraphInv /\ [KnowledgeNext]_graphVars => GraphInv'
<1>. SUFFICES ASSUME GraphInv, [KnowledgeNext]_graphVars PROVE GraphInv'
  OBVIOUS
<1>1. CASE UNCHANGED graphVars
  <2>1. KnowledgeTypes' /\ RowsAreKeyed'
    BY <1>1 DEF graphVars, GraphInv, KnowledgeTypes, RowsAreKeyed, SameKey
  <2>2. RowsAreCopied'
    BY <1>1 DEF graphVars, GraphInv, RowsAreCopied, HasCopied
  <2>3. \A i \in Ingestion : \A a : Carries(i, a) => Carries(i, a)'
    BY <1>1 DEF graphVars, Carries, HasCopied
  <2>4. AltsAreCarried'
    BY <1>1, <2>3 DEF graphVars, GraphInv, AltsAreCarried, AltIsCarried
  <2>5. \A i \in Ingestion : AtItsPlace(i)'
    BY <1>1 DEF graphVars, GraphInv, AtItsPlace
  <2>. QED BY <2>1, <2>2, <2>4, <2>5 DEF GraphInv
<1>. QED BY <1>1, ReadingStepsKeepInv, AlternativesKeepInv, MentionsKeepInv, TargetsKeepInv,
            SyncKeepsInv, FailingKeepsInv DEF KnowledgeNext

\* The graph shows nothing that the tables never held, and when all ingestions
\* are over and no store refused anything it has all their rows and alternatives,
\* although ingestions of one chip overwrite each other's rows while they are
\* being copied (documents.py, graph_sync.py).
THEOREM GraphEndsUpWithTheTables == KnowledgeSpec => []GraphFollowsTheTables
<1>1. GraphInv => GraphFollowsTheTables
  <2>. SUFFICES ASSUME GraphInv PROVE GraphFollowsTheTables
    OBVIOUS
  <2>1. KnowledgeTypeOK
    <3>1. \A i \in Ingestion : ToSet(syncing[i]) \subseteq Part
      BY DEF GraphInv, KnowledgeTypes, ToSet
    <3>. QED BY <3>1, PhasesAre, TablesAre
             DEF GraphInv, KnowledgeTypes, KnowledgeTypeOK, GraphRow, GraphAlt
  <2>2. GraphIsComplete
    <3>. SUFFICES ASSUME AllDone, refused = {}
                  PROVE  /\ rows \subseteq facts
                         /\ \A a \in alts : a.how = "extracted" => <<a.from, a.to>> \in links
      BY DEF GraphIsComplete
    <3>1. \A i \in Ingestion : \A kind : HasCopied(i, kind)
      BY DEF AllDone, HasCopied
    <3>2. rows \subseteq facts
      BY <3>1 DEF GraphInv, KnowledgeTypes, GraphRow, RowsAreCopied
    <3>3. \A a \in alts : a.how = "extracted" => <<a.from, a.to>> \in links
      BY <3>1 DEF GraphInv, AltsAreCarried, AltIsCarried, Carries
    <3>. QED BY <3>2, <3>3
  <2>3. GraphInventsNothing
    BY DEF GraphInv, KnowledgeTypes, RowsAreKeyed, GraphInventsNothing
  <2>. QED BY <2>1, <2>2, <2>3 DEF GraphFollowsTheTables
<1>. QED BY <1>1, KnowledgeInitInv, KnowledgeStepKeepsInv, PTL DEF KnowledgeSpec

-----------------------------------------------------------------------------
(* Sign-in.  A state lets one callback pass because GETDEL takes it away;  *)
(* where it is only read first, nothing is claimed of two callbacks.  What *)
(* a callback has read of its user stays true, for rows are never deleted, *)
(* so the token it ends with is of a role that the groups give or gave.    *)
(***************************************************************************)

CallRecord == [at : {"idle", "reading", "exchange", "lookup", "write", "done"},
               found : BOOLEAN, role : RoleName,
               result : {"none", "invalid", "provider", "noDatabase", "error", "token"}]

\* Past the check of the state.
HasPassed(d) ==
  call[d].at \in {"exchange", "lookup", "write"} \/ call[d].result \in {"provider", "noDatabase", "token"}

\* A role that the groups of p give, or gave before they changed.
MayBe(p, role) == role \in {MapRole(groups[p]), "user"}

\* What a callback has read is still so.
CallOK(d) ==
  /\ call[d].at # "done" => call[d].result = "none"
  /\ flow[d[1]] = "new" => call[d].at = "idle"
  /\ call[d].at = "reading" => ~setup.getdel
  /\ call[d].at \in {"lookup", "write"} \/ call[d].result = "token" => MayBe(WhoIs(d), call[d].role)
  /\ call[d].at = "write" /\ call[d].found => users[WhoIs(d)] # NoRow
  /\ call[d].result = "token" => \E t \in tokens : t.for = WhoIs(d) /\ t.role = call[d].role

\* A state is stored once and, with GETDEL, lets one callback pass.
StatesAreConsumed ==
  /\ \A f \in Flow : flow[f] = "new" => f \notin states
  /\ setup.getdel =>
       /\ \A d \in Delivery : HasPassed(d) => d[1] \notin states
       /\ \A d, e \in Delivery : HasPassed(d) /\ HasPassed(e) /\ d[1] = e[1] => d = e

TokensAreBacked ==
  \A t \in tokens : users[t.for] # NoRow /\ MayBe(t.for, t.role) /\ t.algorithm = SigningKey

AddressesAreOwned ==
  /\ \A p, q \in Person : p # q /\ Email[p] = Email[q] => users[p] = NoRow \/ users[q] = NoRow
  /\ \A r, s \in Registrant : register[r] = "token" /\ register[s] = "token" => r = s
  /\ \A r \in Registrant, p \in Person :
       register[r] = "token" /\ users[p] # NoRow => Email[p] # "registered"

SignInv ==
  /\ SignTypeOK /\ StatesAreConsumed /\ TokensAreBacked /\ AddressesAreOwned
  /\ \A p \in Person : groups[p] \in {{"engineers"}, {"viewers", "admin"}}
  /\ \A d \in Delivery : CallOK(d)

LEMMA RolesAre ==
  /\ MapRole({"engineers"}) = "user" /\ MapRole({"viewers", "admin"}) = "admin"
  /\ \A gs : MapRole(gs) \in RoleName
BY DEF MapRole, RoleName

LEMMA KeysAre ==
  ASSUME setup \in Setups
  PROVE  /\ SigningKey \in {"HS256", "RS256", None}
         /\ setup.private = setup.public => VerificationKey = SigningKey
<1>1. /\ setup.fallback \in BOOLEAN /\ setup.secret \in BOOLEAN
      /\ setup.private \in BOOLEAN /\ setup.public \in BOOLEAN
  BY SignAssumption DEF Setup
<1>2. CASE setup.fallback /\ setup.secret
  BY <1>1, <1>2 DEF SigningKey, VerificationKey
<1>3. CASE ~(setup.fallback /\ setup.secret)
  <2>1. SigningKey \in {"HS256", "RS256", None}
    BY <1>1, <1>3 DEF SigningKey, None
  <2>2. ASSUME setup.private = setup.public PROVE VerificationKey = SigningKey
    <3>1. CASE setup.private
      BY <1>1, <1>3, <2>2, <3>1 DEF SigningKey, VerificationKey
    <3>2. CASE ~setup.private
      BY <1>1, <1>3, <2>2, <3>2 DEF SigningKey, VerificationKey
    <3>. QED BY <3>1, <3>2
  <2>. QED BY <2>1, <2>2
<1>. QED BY <1>2, <1>3

LEMMA DeliveriesAre ==
  ASSUME SignInv, NEW d \in Delivery
  PROVE  /\ d[1] \in Flow /\ WhoIs(d) \in Person /\ call[d] \in CallRecord
         /\ call \in [Delivery -> CallRecord] /\ setup \in Setups
<1>1. d[1] \in Flow
  BY SignAssumption DEF Delivery
<1>2. setup \in Setup
  BY SignAssumption DEF SignInv, SignTypeOK
<1>. QED BY <1>1, <1>2 DEF SignInv, SignTypeOK, CallRecord, WhoIs, Setup

LEMMA SignInitInv == SignInit => SignInv
<1>. SUFFICES ASSUME SignInit PROVE SignInv
  OBVIOUS
<1>1. SignTypeOK
  <2>1. [at |-> "idle", found |-> FALSE, role |-> "viewer", result |-> "none"] \in CallRecord
    BY FALSE \in BOOLEAN DEF CallRecord, RoleName
  <2>2. call \in [Delivery -> CallRecord]
    BY <2>1 DEF SignInit
  <2>. QED BY <2>2 DEF SignInit, SignTypeOK, CallRecord, Group
<1>2. \A d \in Delivery : d[1] \in Flow
  BY SignAssumption DEF Delivery
<1>3. \A d \in Delivery : call[d].at = "idle" /\ call[d].result = "none"
  BY DEF SignInit
<1>4. \A d \in Delivery : CallOK(d)
  BY <1>2, <1>3 DEF CallOK
<1>5. StatesAreConsumed
  BY <1>3 DEF SignInit, StatesAreConsumed, HasPassed
<1>. QED BY <1>1, <1>4, <1>5 DEF SignInit, SignInv, TokensAreBacked, AddressesAreOwned

\* How a callback becomes another record of its step.
LEMMA CallGoes ==
  ASSUME SignInv, NEW d \in Delivery,
         NEW at \in {"idle", "reading", "exchange", "lookup", "write", "done"},
         call' = [call EXCEPT ![d].at = at]
  PROVE  /\ call' \in [Delivery -> CallRecord]
         /\ \A e \in Delivery : e # d => call'[e] = call[e]
         /\ call'[d].at = at /\ call'[d].role = call[d].role /\ call'[d].result = call[d].result
         /\ call'[d].found = call[d].found
BY DeliveriesAre DEF CallRecord

LEMMA CallEnds ==
  ASSUME SignInv, NEW d \in Delivery,
         NEW result \in {"invalid", "provider", "noDatabase", "error", "token"}, Ends(d, result)
  PROVE  /\ call' \in [Delivery -> CallRecord]
         /\ \A e \in Delivery : e # d => call'[e] = call[e]
         /\ call'[d].at = "done" /\ call'[d].result = result /\ call'[d].role = call[d].role
BY DeliveriesAre DEF CallRecord, Ends

LEMMA CallTakesRole ==
  ASSUME SignInv, NEW d \in Delivery, NEW role \in RoleName,
         call' = [call EXCEPT ![d].at = "lookup", ![d].role = role]
  PROVE  /\ call' \in [Delivery -> CallRecord]
         /\ \A e \in Delivery : e # d => call'[e] = call[e]
         /\ call'[d].at = "lookup" /\ call'[d].role = role /\ call'[d].result = call[d].result
BY DeliveriesAre DEF CallRecord

LEMMA CallLooksUp ==
  ASSUME SignInv, NEW d \in Delivery, NEW known \in BOOLEAN,
         call' = [call EXCEPT ![d].at = "write", ![d].found = known]
  PROVE  /\ call' \in [Delivery -> CallRecord]
         /\ \A e \in Delivery : e # d => call'[e] = call[e]
         /\ call'[d].at = "write" /\ call'[d].role = call[d].role /\ call'[d].result = call[d].result
         /\ call'[d].found = known
BY DeliveriesAre DEF CallRecord

\* A step of one callback: of the others nothing changes but that rows and
\* tokens may be added.
LEMMA CallbackKeepsInv ==
  ASSUME SignInv, NEW d \in Delivery,
         UNCHANGED <<setup, flow, groups, register>>,
         call' \in [Delivery -> CallRecord],
         \A e \in Delivery : e # d => call'[e] = call[e],
         states' \subseteq states, spent' \subseteq Flow,
         users' \in [Person -> RoleName \cup {NoRow}],
         \A p \in Person : users[p] # NoRow => users'[p] # NoRow,
         tokens' \subseteq [for : Person, role : RoleName, algorithm : {"HS256", "RS256"}],
         tokens \subseteq tokens', CallOK(d)', TokensAreBacked', AddressesAreOwned',
         setup.getdel /\ HasPassed(d)' => HasPassed(d) \/ (d[1] \in states /\ d[1] \notin states')
  PROVE  SignInv'
<1>1. SignTypeOK'
  BY DEF SignInv, SignTypeOK, CallRecord
<1>2. ASSUME NEW e \in Delivery, e # d PROVE CallOK(e)' /\ (HasPassed(e)' <=> HasPassed(e))
  <2>1. CallOK(e) /\ WhoIs(e) \in Person /\ call'[e] = call[e] /\ WhoIs(e)' = WhoIs(e)
    BY <1>2, DeliveriesAre DEF SignInv, WhoIs
  <2>. QED BY <2>1 DEF CallOK, MayBe, HasPassed
<1>3. StatesAreConsumed'
  <2>1. \A e \in Delivery : HasPassed(e)' /\ setup.getdel => e[1] \notin states'
    BY <1>2 DEF SignInv, StatesAreConsumed
  <2>2. ASSUME NEW a \in Delivery, NEW e \in Delivery, HasPassed(a)', HasPassed(e)', a[1] = e[1],
               setup.getdel
        PROVE  a = e
    BY <1>2, <2>2 DEF SignInv, StatesAreConsumed
  <2>. QED BY <2>1, <2>2 DEF SignInv, StatesAreConsumed
<1>. QED BY <1>1, <1>2, <1>3 DEF SignInv

\* Before it writes, a callback changes nothing but itself, the states and the codes.
LEMMA EarlyStepsKeepInv ==
  ASSUME SignInv, NEW d \in Delivery, PopState(d) \/ DeleteState(d) \/ ExchangeCode(d) \/ LookUpUser(d)
  PROVE  SignInv'
<1>1. /\ UNCHANGED <<setup, flow, groups, users, tokens, register>>
      /\ states' \subseteq states /\ spent' \subseteq Flow
  BY DeliveriesAre DEF PopState, DeleteState, ExchangeCode, LookUpUser, StateTaken, SignInv, SignTypeOK
<1>2. TokensAreBacked' /\ AddressesAreOwned'
  BY <1>1 DEF SignInv, TokensAreBacked, AddressesAreOwned, MayBe, SigningKey
<1>3. CallOK(d) /\ WhoIs(d) \in Person /\ WhoIs(d)' = WhoIs(d)
  BY <1>1, DeliveriesAre DEF SignInv, WhoIs
<1>4. /\ users' \in [Person -> RoleName \cup {NoRow}]
      /\ tokens' \subseteq [for : Person, role : RoleName, algorithm : {"HS256", "RS256"}]
  BY <1>1 DEF SignInv, SignTypeOK
<1>5. ASSUME /\ call' \in [Delivery -> CallRecord]
             /\ \A e \in Delivery : e # d => call'[e] = call[e]
             /\ setup.getdel /\ HasPassed(d)' => HasPassed(d) \/ (d[1] \in states /\ d[1] \notin states'),
             CallOK(d)'
      PROVE  SignInv'
  BY <1>1, <1>2, <1>4, <1>5, CallbackKeepsInv
<1>6. ASSUME NEW result \in {"invalid", "provider", "noDatabase", "error"}, Ends(d, result),
             flow[d[1]] # "new",
             setup.getdel /\ result \in {"provider", "noDatabase"} => HasPassed(d)
      PROVE  SignInv'
  <2>1. /\ call' \in [Delivery -> CallRecord]
        /\ \A e \in Delivery : e # d => call'[e] = call[e]
        /\ call'[d].at = "done" /\ call'[d].result = result
    BY <1>6, CallEnds
  <2>. QED BY <1>1, <1>5, <1>6, <2>1 DEF CallOK, HasPassed
<1>7. ASSUME NEW at \in {"reading", "exchange"}, call' = [call EXCEPT ![d].at = at],
             flow[d[1]] # "new", call[d].at # "done", at = "reading" => ~setup.getdel,
             at = "exchange" /\ setup.getdel => d[1] \in states /\ d[1] \notin states'
      PROVE  SignInv'
  <2>1. /\ call' \in [Delivery -> CallRecord]
        /\ \A e \in Delivery : e # d => call'[e] = call[e]
        /\ call'[d].at = at /\ call'[d].result = "none"
    BY <1>3, <1>7, CallGoes DEF CallOK
  <2>. QED BY <1>1, <1>5, <1>7, <2>1 DEF CallOK, HasPassed
<1>8. CASE PopState(d)
  <2>1. flow[d[1]] # "new" /\ call[d].at # "done"
    BY <1>8 DEF PopState
  <2>2. CASE \E result \in {"invalid", "error"} : Ends(d, result)
    BY <1>6, <2>1, <2>2
  <2>3. CASE setup.getdel /\ d[1] \in states /\ call' = [call EXCEPT ![d].at = "exchange"]
             /\ states' = states \ {d[1]}
    BY <1>7, <2>1, <2>3
  <2>4. CASE ~setup.getdel /\ call' = [call EXCEPT ![d].at = "reading"]
    BY <1>7, <2>1, <2>4
  <2>. QED BY <1>8, <2>2, <2>3, <2>4 DEF PopState, StateTaken
<1>9. CASE DeleteState(d)
  <2>1. flow[d[1]] # "new" /\ call[d].at # "done" /\ ~setup.getdel
    BY <1>3, <1>9 DEF DeleteState, CallOK
  <2>. QED BY <1>6, <1>7, <1>9, <2>1 DEF DeleteState
<1>10. CASE ExchangeCode(d)
  <2>1. flow[d[1]] # "new" /\ HasPassed(d) /\ call[d].at = "exchange" /\ call[d].result = "none"
    BY <1>3, <1>10 DEF ExchangeCode, CallOK, HasPassed
  <2>2. CASE \E result \in {"provider", "noDatabase"} : Ends(d, result)
    BY <1>6, <2>1, <2>2
  <2>3. CASE call' = [call EXCEPT ![d].at = "lookup", ![d].role = MapRole(groups[WhoIs(d)])]
    <3>1. PICK role \in RoleName : role = MapRole(groups[WhoIs(d)])
      BY RolesAre
    <3>2. /\ call' \in [Delivery -> CallRecord]
          /\ \A e \in Delivery : e # d => call'[e] = call[e]
          /\ call'[d].at = "lookup" /\ call'[d].role = role /\ call'[d].result = "none"
      BY <2>1, <2>3, <3>1, CallTakesRole
    <3>. QED BY <1>1, <1>3, <1>5, <2>1, <3>1, <3>2 DEF CallOK, HasPassed, MayBe
  <2>. QED BY <1>10, <2>2, <2>3 DEF ExchangeCode
<1>11. CASE LookUpUser(d)
  <2>1. /\ flow[d[1]] # "new" /\ HasPassed(d) /\ call[d].at = "lookup" /\ call[d].result = "none"
        /\ MayBe(WhoIs(d), call[d].role)
    BY <1>3, <1>11 DEF LookUpUser, CallOK, HasPassed
  <2>2. CASE Ends(d, "error")
    BY <1>6, <2>1, <2>2
  <2>3. CASE call' = [call EXCEPT ![d].at = "write", ![d].found = users[WhoIs(d)] # NoRow]
    <3>1. PICK known \in BOOLEAN : known = (users[WhoIs(d)] # NoRow)
      OBVIOUS
    <3>2. /\ call' \in [Delivery -> CallRecord]
          /\ \A e \in Delivery : e # d => call'[e] = call[e]
          /\ call'[d].at = "write" /\ call'[d].role = call[d].role /\ call'[d].result = "none"
          /\ call'[d].found = known
      BY <2>1, <2>3, <3>1, CallLooksUp
    <3>. QED BY <1>1, <1>3, <1>5, <2>1, <3>1, <3>2 DEF CallOK, HasPassed, MayBe
  <2>. QED BY <1>11, <2>2, <2>3 DEF LookUpUser
<1>. QED BY <1>8, <1>9, <1>10, <1>11

LEMMA WritingKeepsInv ==
  ASSUME SignInv, NEW d \in Delivery, WriteUser(d)
  PROVE  SignInv'
<1>1. UNCHANGED <<setup, states, flow, spent, groups, register>> /\ call[d].at = "write"
  BY DEF WriteUser
<1>2. PICK p \in Person, role \in RoleName : p = WhoIs(d) /\ role = call[d].role
  BY DeliveriesAre DEF CallRecord
<1>3. /\ CallOK(d) /\ WhoIs(d)' = p /\ HasPassed(d) /\ MayBe(p, role) /\ flow[d[1]] # "new"
      /\ call[d].found => users[p] # NoRow
  BY <1>1, <1>2 DEF SignInv, WhoIs, CallOK, HasPassed
<1>4. spent' \subseteq Flow /\ states' \subseteq states /\ role # NoRow
  BY <1>1 DEF SignInv, SignTypeOK, RoleName, NoRow
<1>5. PICK result \in {"error", "token"} :
        /\ Ends(d, result)
        /\ result = "error" => tokens' = tokens
        /\ result = "token" => SigningKey # None /\ tokens' = tokens \cup {Issued(p, role)}
  BY <1>2 DEF WriteUser, RoleOfTheGroups
<1>6. /\ call' \in [Delivery -> CallRecord]
      /\ \A e \in Delivery : e # d => call'[e] = call[e]
      /\ call'[d].at = "done" /\ call'[d].result = result /\ call'[d].role = role
  BY <1>2, <1>5, CallEnds
<1>7. /\ \/ users' = users
         \/ users' = [users EXCEPT ![p] = role] /\ users[p] = NoRow /\ ~AddressTaken(p)
      /\ result = "token" => users'[p] # NoRow
  <2>1. users \in [Person -> RoleName \cup {NoRow}]
    BY DEF SignInv, SignTypeOK
  <2>2. CASE /\ Writable(d)
             /\ users' = IF call[d].found THEN users ELSE [users EXCEPT ![p] = role]
    BY <1>2, <1>3, <1>4, <2>1, <2>2 DEF Writable
  <2>3. CASE UNCHANGED users /\ Ends(d, "error")
    <3>1. call'[d].result = "error"
      BY <2>3, CallEnds
    <3>. QED BY <1>6, <2>3, <3>1
  <2>. QED BY <1>2, <2>2, <2>3 DEF WriteUser
<1>8. /\ users' \in [Person -> RoleName \cup {NoRow}]
      /\ \A q \in Person : users[q] # NoRow => users'[q] # NoRow
      /\ \A q \in Person : users'[q] # NoRow => users[q] # NoRow \/ (q = p /\ ~AddressTaken(p))
  BY <1>4, <1>7 DEF SignInv, SignTypeOK
<1>9. TokensAreBacked' /\ tokens \subseteq tokens'
      /\ tokens' \subseteq [for : Person, role : RoleName, algorithm : {"HS256", "RS256"}]
  <2>1. tokens \subseteq [for : Person, role : RoleName, algorithm : {"HS256", "RS256"}]
    BY DEF SignInv, SignTypeOK
  <2>2. SigningKey' = SigningKey
    BY <1>1 DEF SigningKey
  <2>3. \A t \in tokens : users'[t.for] # NoRow /\ MayBe(t.for, t.role)' /\ t.algorithm = SigningKey'
    BY <1>1, <1>8, <2>1, <2>2 DEF SignInv, TokensAreBacked, MayBe
  <2>4. CASE result = "error"
    BY <1>5, <2>1, <2>3, <2>4 DEF TokensAreBacked
  <2>5. CASE result = "token"
    <3>1. SigningKey \in {"HS256", "RS256"}
      BY <1>5, <2>5, KeysAre, DeliveriesAre
    <3>. /\ Issued(p, role) \in [for : Person, role : RoleName, algorithm : {"HS256", "RS256"}]
         /\ Issued(p, role).for = p /\ Issued(p, role).role = role
         /\ Issued(p, role).algorithm = SigningKey
      BY <3>1 DEF Issued
    <3>2. PICK t \in [for : Person, role : RoleName, algorithm : {"HS256", "RS256"}] :
            t = Issued(p, role) /\ t.for = p /\ t.role = role /\ t.algorithm = SigningKey
      OBVIOUS
    <3>3. users'[t.for] # NoRow /\ MayBe(t.for, t.role)' /\ t.algorithm = SigningKey'
      BY <1>1, <1>3, <1>7, <2>2, <2>5, <3>2 DEF MayBe
    <3>. QED BY <1>5, <2>1, <2>3, <2>5, <3>2, <3>3 DEF TokensAreBacked
  <2>. QED BY <2>4, <2>5
<1>10. AddressesAreOwned'
  <2>1. ASSUME NEW a \in Person, NEW q \in Person, a # q, Email[a] = Email[q]
        PROVE  users'[a] = NoRow \/ users'[q] = NoRow
    BY <1>8, <2>1 DEF SignInv, AddressesAreOwned, AddressTaken
  <2>2. ASSUME NEW r \in Registrant, NEW q \in Person, register[r] = "token", users'[q] # NoRow
        PROVE  Email[q] # "registered"
    BY <1>8, <2>2 DEF SignInv, AddressesAreOwned, AddressTaken
  <2>. QED BY <1>1, <2>1, <2>2 DEF SignInv, AddressesAreOwned
<1>11. CallOK(d)'
  <2>1. result = "token" => \E t \in tokens' : t.for = p /\ t.role = role
    <3>1. Issued(p, role).for = p /\ Issued(p, role).role = role
      BY DEF Issued
    <3>. QED BY <1>5, <3>1
  <2>. QED BY <1>1, <1>3, <1>6, <2>1 DEF CallOK, MayBe
<1>. QED BY <1>1, <1>3, <1>4, <1>6, <1>8, <1>9, <1>10, <1>11, CallbackKeepsInv

LEMMA SignStepKeepsInv == SignInv /\ [SignNext]_signVars => SignInv'
<1>. SUFFICES ASSUME SignInv, [SignNext]_signVars PROVE SignInv'
  OBVIOUS
<1>1. CASE UNCHANGED signVars
  <2>1. SignTypeOK' /\ StatesAreConsumed'
    BY <1>1 DEF signVars, SignInv, SignTypeOK, StatesAreConsumed, HasPassed
  <2>2. TokensAreBacked' /\ AddressesAreOwned'
    BY <1>1 DEF signVars, SignInv, TokensAreBacked, AddressesAreOwned, MayBe, SigningKey
  <2>3. \A d \in Delivery : CallOK(d)'
    BY <1>1 DEF signVars, SignInv, CallOK, MayBe, WhoIs
  <2>. QED BY <1>1, <2>1, <2>2, <2>3 DEF signVars, SignInv
<1>2. ASSUME NEW f \in Flow, SsoLogin(f) \/ StateExpires(f) PROVE SignInv'
  <2>1. /\ UNCHANGED <<setup, call, spent, groups, users, tokens, register>>
        /\ \A e \in states' : e \in states \/ (e = f /\ flow[f] = "new")
        /\ states' \subseteq Flow
    BY <1>2 DEF SsoLogin, StateExpires, SignInv, SignTypeOK
  <2>2. /\ flow' \in [Flow -> {"new", "redirected", "unavailable", "error", "unknown"}]
        /\ \A e \in Flow : flow'[e] = "new" => flow[e] = "new" /\ (e \notin states => e \notin states')
    BY <1>2 DEF SsoLogin, StateExpires, SignInv, SignTypeOK, StatesAreConsumed
  <2>3. \A d \in Delivery : CallOK(d)' /\ (HasPassed(d)' <=> HasPassed(d))
    BY <2>1, <2>2, DeliveriesAre DEF SignInv, CallOK, MayBe, WhoIs, HasPassed
  <2>4. \A d \in Delivery : HasPassed(d) => d[1] \in Flow /\ flow[d[1]] # "new"
    BY DeliveriesAre DEF SignInv, CallOK, HasPassed
  <2>5. StatesAreConsumed'
    BY <2>1, <2>2, <2>3, <2>4 DEF SignInv, StatesAreConsumed
  <2>6. TokensAreBacked' /\ AddressesAreOwned' /\ SignTypeOK'
    BY <2>1, <2>2 DEF SignInv, TokensAreBacked, AddressesAreOwned, MayBe, SigningKey, SignTypeOK
  <2>. QED BY <2>1, <2>3, <2>5, <2>6 DEF SignInv
<1>3. ASSUME NEW p \in Person, GroupsChange(p) PROVE SignInv'
  <2>1. /\ UNCHANGED <<setup, states, flow, call, spent, users, tokens, register>>
        /\ groups' = [groups EXCEPT ![p] = {"viewers", "admin"}] /\ groups[p] = {"engineers"}
    BY <1>3 DEF GroupsChange
  <2>2. /\ \A q \in Person : groups'[q] \in {{"engineers"}, {"viewers", "admin"}}
        /\ groups' \in [Person -> SUBSET Group]
    BY <2>1 DEF SignInv, SignTypeOK, Group
  <2>3. \A q \in Person : \A role : MayBe(q, role) => MayBe(q, role)'
    BY <2>1, RolesAre DEF SignInv, SignTypeOK, MayBe
  <2>4. \A d \in Delivery : CallOK(d)'
    BY <2>1, <2>3, DeliveriesAre DEF SignInv, CallOK, WhoIs
  <2>5. TokensAreBacked'
    BY <2>1, <2>3 DEF SignInv, SignTypeOK, TokensAreBacked, SigningKey
  <2>6. StatesAreConsumed' /\ AddressesAreOwned' /\ SignTypeOK'
    BY <2>1, <2>2 DEF SignInv, StatesAreConsumed, HasPassed, AddressesAreOwned, SignTypeOK
  <2>. QED BY <2>2, <2>4, <2>5, <2>6 DEF SignInv
<1>4. ASSUME NEW r \in Registrant, Register(r) \/ RegisterRow(r) PROVE SignInv'
  <2>1. UNCHANGED <<setup, states, flow, call, spent, groups, users, tokens>>
    BY <1>4 DEF Register, RegisterRow
  <2>2. /\ register' \in [Registrant -> {"new", "insert", "taken", "error", "unavailable", "token"}]
        /\ \A s \in Registrant : register'[s] = "token" =>
             register[s] = "token" \/ (s = r /\ RegisterRow(r) /\ register'[r] = "token")
    BY <1>4 DEF Register, RegisterRow, SignInv, SignTypeOK
  <2>3. RegisterRow(r) /\ register'[r] = "token" =>
          /\ \A s \in Registrant : register[s] # "token"
          /\ \A p \in Person : users[p] # NoRow => Email[p] # "registered"
    BY DEF RegisterRow, SignInv, SignTypeOK
  <2>4. AddressesAreOwned'
    BY <2>1, <2>2, <2>3 DEF SignInv, AddressesAreOwned
  <2>5. \A d \in Delivery : CallOK(d)'
    BY <2>1 DEF SignInv, CallOK, MayBe, WhoIs
  <2>6. StatesAreConsumed' /\ TokensAreBacked' /\ SignTypeOK'
    BY <2>1, <2>2 DEF SignInv, StatesAreConsumed, HasPassed, TokensAreBacked, MayBe, SigningKey,
                      SignTypeOK
  <2>. QED BY <2>1, <2>4, <2>5, <2>6 DEF SignInv
<1>. QED BY <1>1, <1>2, <1>3, <1>4, EarlyStepsKeepInv, WritingKeepsInv DEF SignNext, Callback

LEMMA AtMostOne ==
  ASSUME NEW S, \A x, y \in S : x = y
  PROVE  Cardinality(S) <= 1
<1>1. CASE S = {}
  BY <1>1, FS_EmptySet
<1>2. CASE S # {}
  <2>1. PICK x : S = {x}
    BY <1>2
  <2>2. Cardinality({x}) = 1
    BY FS_Singleton
  <2>. QED BY <2>1, <2>2
<1>. QED BY <1>1, <1>2

\* For any logins, persons and settings of a deployment: a state lets one callback
\* pass, tokens are of persons with a row and say what their groups gave them,
\* nobody gets a row under another's address, and tokens verify where they were
\* signed (sso.py, provisioner.py, auth.py).
THEOREM LoginsStaySound == SignSpec => []LoginsAreSound
<1>1. SignInv => LoginsAreSound
  <2>. SUFFICES ASSUME SignInv PROVE LoginsAreSound
    OBVIOUS
  <2>1. StatesAreTakenOnce
    <3>. SUFFICES ASSUME setup.getdel, NEW f \in Flow
                  PROVE  Cardinality({d \in Delivery : d[1] = f
                           /\ (call[d].at \in {"exchange", "lookup", "write"}
                                 \/ call[d].result \in {"provider", "noDatabase", "token"})}) <= 1
      BY DEF StatesAreTakenOnce
    <3>. QED BY AtMostOne DEF SignInv, StatesAreConsumed, HasPassed
  <2>2. TokensSayTheGroups
    BY DEF SignInv, TokensAreBacked, CallOK, MayBe, TokensSayTheGroups
  <2>3. AddressesStayUnique
    <3>1. Cardinality({r \in Registrant : register[r] = "token"}) <= 1
      BY AtMostOne DEF SignInv, AddressesAreOwned
    <3>2. \A t \in tokens : t.for \in Person
      BY DEF SignInv, SignTypeOK
    <3>. QED BY <3>1, <3>2 DEF SignInv, AddressesAreOwned, TokensAreBacked, AddressesStayUnique
  <2>4. IssuedTokensVerify
    BY KeysAre DEF SignInv, SignTypeOK, TokensAreBacked, IssuedTokensVerify, Accepted
  <2>. QED BY <2>1, <2>2, <2>3, <2>4 DEF LoginsAreSound, SignInv
<1>. QED BY <1>1, SignInitInv, SignStepKeepsInv, PTL DEF SignSpec

-----------------------------------------------------------------------------
(* Deletes.  Each call goes through the stores in one order.  The argument *)
(* follows one kind of thing: a call that has passed its step has deleted  *)
(* it, has recorded why not, or was not told of it, and the row that tells *)
(* it is taken by one call only.                                           *)
(***************************************************************************)

DeleteCall == [step : DeleteStage, known : BOOLEAN, deleted : SUBSET Kind,
               errors : SUBSET (DeleteStage \cup {"notFound"})]

\* The steps after the one that deletes a kind.
StagesPast(kind) ==
  CASE kind = "chunks" -> {"graph", "pg", "file", "publish", "done"}
    [] kind = "node" -> {"pg", "file", "publish", "done"}
    [] kind = "row" -> {"file", "publish", "done"}
    [] kind = "file" -> {"publish", "done"}

\* Why a kind is still there although d has passed it.
IsExplained(kind, d) ==
  \/ \E e \in Deleter : Cause[kind] \in deleter[e].errors
  \/ kind = "chunks" /\ \E e \in Deleter \ {d} : "row" \in deleter[e].deleted

DeleterOK(d) ==
  LET r == deleter[d] IN
    /\ r.step = "lookup" => r.deleted = {} /\ r.errors = {} /\ ~r.known
    /\ r.step # "lookup" /\ ~r.known => "lookup" \in r.errors \/ "notFound" \in r.errors \/ "pg" \notin Store
    /\ "notFound" \in r.errors => r.deleted = {} /\ r.step = "done"
    /\ "row" \in r.deleted => r.step \in StagesPast("row") /\ "pg" \in Store
    /\ \A kind \in remains :
         r.known /\ IsHeld(kind) /\ r.step \in StagesPast(kind) => IsExplained(kind, d)

DeleteInv ==
  /\ DeleteTypeOK
  /\ "row" \notin remains => \E e \in Deleter : "row" \in deleter[e].deleted
  /\ \A d \in Deleter : DeleterOK(d)

LEMMA StagesAre ==
  /\ StagesPast("chunks") = {"graph", "pg", "file", "publish", "done"}
  /\ StagesPast("node") = {"pg", "file", "publish", "done"}
  /\ StagesPast("row") = {"file", "publish", "done"} /\ StagesPast("file") = {"publish", "done"}
  /\ After["lookup"] = "milvus" /\ After["milvus"] = "graph" /\ After["graph"] = "pg"
  /\ After["pg"] = "file" /\ After["file"] = "publish" /\ After["publish"] = "done"
  /\ Cause["row"] = "pg" /\ Cause["chunks"] = "milvus" /\ Cause["node"] = "graph"
  /\ Cause["file"] = "file"
BY DEF StagesPast, After, Cause

LEMMA DeleteInitInv == DeleteInit => DeleteInv
<1>. SUFFICES ASSUME DeleteInit PROVE DeleteInv
  OBVIOUS
<1>1. [step |-> "lookup", known |-> FALSE, deleted |-> {}, errors |-> {}] \in DeleteCall
  BY FALSE \in BOOLEAN DEF DeleteCall, DeleteStage
<1>2. DeleteTypeOK
  BY <1>1, FALSE \in BOOLEAN DEF DeleteInit, DeleteTypeOK, DeleteCall
<1>3. \A d \in Deleter : /\ deleter[d].step = "lookup" /\ deleter[d].deleted = {}
                         /\ deleter[d].errors = {} /\ deleter[d].known = FALSE
  BY DEF DeleteInit
<1>. QED BY <1>2, <1>3 DEF DeleteInit, DeleteInv, DeleterOK, Kind

LEMMA DeletersAre ==
  ASSUME DeleteInv, NEW d \in Deleter
  PROVE  /\ deleter \in [Deleter -> DeleteCall] /\ deleter[d] \in DeleteCall /\ DeleterOK(d)
         /\ deleter[d].step \in DeleteStage /\ deleter[d].known \in BOOLEAN
         /\ deleter[d].deleted \subseteq Kind
         /\ deleter[d].errors \subseteq DeleteStage \cup {"notFound"}
BY DEF DeleteInv, DeleteTypeOK, DeleteCall

\* A step of one call: the others, and what was deleted and recorded, stay.
LEMMA CallKeepsInv ==
  ASSUME DeleteInv, NEW d \in Deleter, NEW r \in DeleteCall, deleter' = [deleter EXCEPT ![d] = r],
         remains' \subseteq remains, told' \in BOOLEAN,
         deleter[d].errors \subseteq r.errors, deleter[d].deleted \subseteq r.deleted,
         "row" \in remains \ remains' => "row" \in r.deleted,
         DeleterOK(d)'
  PROVE  DeleteInv'
<1>1. /\ deleter' \in [Deleter -> DeleteCall] /\ deleter'[d] = r
      /\ \A e \in Deleter : e # d => deleter'[e] = deleter[e]
  BY DeletersAre
<1>2. \A e \in Deleter : /\ deleter[e].errors \subseteq deleter'[e].errors
                         /\ deleter[e].deleted \subseteq deleter'[e].deleted
  BY <1>1
<1>3. DeleteTypeOK'
  BY <1>1 DEF DeleteInv, DeleteTypeOK, DeleteCall
<1>4. \A kind, e : IsExplained(kind, e) => IsExplained(kind, e)'
  BY <1>2 DEF IsExplained
<1>5. ASSUME NEW e \in Deleter, e # d PROVE DeleterOK(e)'
  <2>1. DeleterOK(e) /\ deleter'[e] = deleter[e] /\ \A kind \in remains' : kind \in remains
    BY <1>1, <1>5 DEF DeleteInv
  <2>. QED BY <1>4, <2>1 DEF DeleterOK, IsHeld
<1>6. "row" \notin remains' => \E e \in Deleter : "row" \in deleter'[e].deleted
  BY <1>1, <1>2 DEF DeleteInv
<1>. QED BY <1>3, <1>5, <1>6 DEF DeleteInv

\* d goes on to its next step as r: it records errors, or what it says is gone.
GoesOn(d, at, gone, failed, r) ==
  /\ at \in {"lookup", "milvus", "graph", "pg", "file", "publish"} /\ IsAt(d, at)
  /\ gone \subseteq Kind /\ failed \subseteq {at} /\ r \in DeleteCall
  /\ r.step = After[at] /\ r.known = deleter[d].known
  /\ r.deleted = deleter[d].deleted \cup gone /\ r.errors = deleter[d].errors \cup failed
  /\ deleter' = [deleter EXCEPT ![d] = r] /\ remains' \subseteq remains /\ told' \in BOOLEAN
  /\ "row" \in gone => at = "pg" /\ "pg" \in Store
  /\ "row" \in remains \ remains' => "row" \in gone
  /\ at = "lookup" => failed # {} \/ "pg" \notin Store
  /\ \A kind \in remains' : Cause[kind] = at /\ IsHeld(kind) /\ deleter[d].known =>
       at \in failed \/ IsExplained(kind, d)

LEMMA GoingOnKeepsInv ==
  ASSUME DeleteInv, NEW d \in Deleter, NEW at, NEW gone, NEW failed, NEW r,
         GoesOn(d, at, gone, failed, r)
  PROVE  DeleteInv'
<1>. USE DEF GoesOn
<1>1. deleter'[d] = r /\ \A e \in Deleter : e # d => deleter'[e] = deleter[e]
  BY DeletersAre
<1>2. DeleterOK(d) /\ deleter[d].step = at
  BY DeletersAre DEF IsAt
<1>3. r.step \in {"milvus", "graph", "pg", "file", "publish", "done"}
  BY StagesAre
<1>4. remains' \subseteq Kind
  BY DEF DeleteInv, DeleteTypeOK
<1>5. \A kind : IsExplained(kind, d) => IsExplained(kind, d)'
  BY <1>1 DEF IsExplained
<1>6. ASSUME NEW kind \in remains', r.known, IsHeld(kind), r.step \in StagesPast(kind)
      PROVE  IsExplained(kind, d)'
  <2>1. kind \in {"row", "chunks", "node", "file"}
    BY <1>4 DEF Kind
  <2>2. CASE Cause[kind] = at
    <3>1. at \in failed => IsExplained(kind, d)'
      BY <1>1, <2>2 DEF IsExplained
    <3>. QED BY <1>5, <1>6, <2>2, <3>1
  <2>3. CASE Cause[kind] # at
    <3>1. at \in StagesPast(kind)
      BY <1>6, <2>1, <2>3, StagesAre
    <3>. QED BY <1>2, <1>5, <1>6, <3>1 DEF DeleterOK
  <2>. QED BY <2>2, <2>3
<1>7. DeleterOK(d)'
  <2>1. at # "done" /\ (at = "lookup" => failed = {at} \/ "pg" \notin Store)
    OBVIOUS
  <2>2. "notFound" \notin r.errors
    BY <1>2, <2>1 DEF DeleterOK
  <2>3. r.step # "lookup" /\ ~r.known => "lookup" \in r.errors \/ "pg" \notin Store
    BY <1>2, <2>1 DEF DeleterOK
  <2>4. "row" \in r.deleted => r.step \in StagesPast("row") /\ "pg" \in Store
    BY <1>2, StagesAre DEF DeleterOK
  <2>. QED BY <1>1, <1>3, <1>6, <2>2, <2>3, <2>4 DEF DeleterOK, IsHeld
<1>. QED BY <1>1, <1>7, CallKeepsInv

DeletingStage == {"lookup", "milvus", "graph", "pg", "file", "publish"}

LEMMA SkippingKeepsInv ==
  ASSUME DeleteInv, NEW d \in Deleter, NEW at \in DeletingStage, IsAt(d, at),
         deleter' = [deleter EXCEPT ![d].step = After[at]], remains' = remains, told' \in BOOLEAN,
         at = "lookup" => "pg" \notin Store,
         \A kind \in remains : Cause[kind] = at /\ IsHeld(kind) => ~deleter[d].known
  PROVE  DeleteInv'
<1>1. After[at] \in DeleteStage
  BY StagesAre DEF DeletingStage, DeleteStage
<1>2. PICK r \in DeleteCall :
        /\ deleter' = [deleter EXCEPT ![d] = r]
        /\ r.step = After[at] /\ r.known = deleter[d].known
        /\ r.deleted = deleter[d].deleted /\ r.errors = deleter[d].errors
  <2>1. [deleter[d] EXCEPT !.step = After[at]] \in DeleteCall
    BY <1>1, DeletersAre DEF DeleteCall
  <2>2. PICK r \in DeleteCall : r = [deleter[d] EXCEPT !.step = After[at]]
    BY <2>1
  <2>3. deleter' = [deleter EXCEPT ![d] = r]
    BY <2>2
  <2>. QED BY <2>2, <2>3, DeletersAre DEF DeleteCall
<1>3. GoesOn(d, at, {}, {}, r)
  BY <1>2 DEF GoesOn, DeletingStage
<1>. QED BY <1>3, GoingOnKeepsInv

LEMMA ErrorsKeepInv ==
  ASSUME DeleteInv, NEW d \in Deleter, NEW at \in DeletingStage, IsAt(d, at), MayRaise(d, at)
  PROVE  DeleteInv'
<1>1. After[at] \in DeleteStage /\ at \in DeleteStage
  BY StagesAre DEF DeletingStage, DeleteStage
<1>2. PICK r \in DeleteCall :
        /\ deleter' = [deleter EXCEPT ![d] = r]
        /\ r.step = After[at] /\ r.known = deleter[d].known
        /\ r.deleted = deleter[d].deleted /\ r.errors = deleter[d].errors \cup {at}
  <2>1. [deleter[d] EXCEPT !.step = After[at], !.errors = @ \cup {at}] \in DeleteCall
    BY <1>1, DeletersAre DEF DeleteCall
  <2>2. PICK r \in DeleteCall : r = [deleter[d] EXCEPT !.step = After[at], !.errors = @ \cup {at}]
    BY <2>1
  <2>3. deleter' = [deleter EXCEPT ![d] = r]
    BY <2>2, DeletersAre DEF MayRaise, Raises
  <2>. QED BY <2>2, <2>3, DeletersAre DEF DeleteCall
<1>3. remains' = remains /\ told' \in BOOLEAN
  BY DEF MayRaise, DeleteInv, DeleteTypeOK
<1>4. GoesOn(d, at, {}, {at}, r)
  BY <1>2, <1>3 DEF GoesOn, DeletingStage
<1>. QED BY <1>4, GoingOnKeepsInv

LEMMA SuccessesKeepInv ==
  ASSUME DeleteInv, NEW d \in Deleter, NEW at \in DeletingStage \ {"lookup"}, IsAt(d, at),
         NEW gone \in SUBSET Kind, deleter' = Succeeds(d, at, gone),
         remains' \subseteq remains, UNCHANGED told,
         "row" \in gone => at = "pg" /\ "pg" \in Store,
         "row" \in remains \ remains' => "row" \in gone,
         \A kind \in remains' : Cause[kind] = at => IsExplained(kind, d)
  PROVE  DeleteInv'
<1>1. After[at] \in DeleteStage
  BY StagesAre DEF DeletingStage, DeleteStage
<1>2. PICK r \in DeleteCall :
        /\ deleter' = [deleter EXCEPT ![d] = r]
        /\ r.step = After[at] /\ r.known = deleter[d].known
        /\ r.deleted = deleter[d].deleted \cup gone /\ r.errors = deleter[d].errors
  <2>1. [deleter[d] EXCEPT !.step = After[at], !.deleted = @ \cup gone] \in DeleteCall
    BY <1>1, DeletersAre DEF DeleteCall
  <2>2. PICK r \in DeleteCall : r = [deleter[d] EXCEPT !.step = After[at], !.deleted = @ \cup gone]
    BY <2>1
  <2>3. deleter' = [deleter EXCEPT ![d] = r]
    BY <2>2, DeletersAre DEF Succeeds
  <2>. QED BY <2>2, <2>3, DeletersAre DEF DeleteCall
<1>3. GoesOn(d, at, gone, {}, r)
  BY <1>2 DEF GoesOn, DeletingStage, DeleteInv, DeleteTypeOK
<1>. QED BY <1>3, GoingOnKeepsInv

LEMMA LookupKeepsInv ==
  ASSUME DeleteInv, NEW d \in Deleter, Lookup(d)
  PROVE  DeleteInv'
<1>1. /\ deleter[d].step = "lookup" /\ IsAt(d, "lookup") /\ "lookup" \in DeletingStage
      /\ deleter[d].deleted = {} /\ deleter[d].errors = {}
      /\ told' = told /\ remains' = remains
  BY DeletersAre DEF Lookup, IsAt, DeleterOK, DeletingStage, Skips, MayRaise
<1>2. CASE "pg" \notin Store
  BY <1>1, <1>2, StagesAre, SkippingKeepsInv
     DEF Lookup, Skips, DeleteInv, DeleteTypeOK, Kind
<1>3. CASE MayRaise(d, "lookup")
  BY <1>1, <1>3, ErrorsKeepInv
<1>4. CASE deleter' = [deleter EXCEPT ![d].step = After["lookup"], ![d].known = TRUE]
  <2>1. PICK b \in BOOLEAN : b /\ deleter' = [deleter EXCEPT ![d].step = After["lookup"], ![d].known = b]
    BY <1>4, TRUE \in BOOLEAN, Zenon
  <2>2. [deleter[d] EXCEPT !.step = "milvus", !.known = b] \in DeleteCall
    BY DeletersAre DEF DeleteCall, DeleteStage
  <2>3. PICK r \in DeleteCall : r = [deleter[d] EXCEPT !.step = "milvus", !.known = b]
    BY <2>2
  <2>4. /\ deleter' = [deleter EXCEPT ![d] = r] /\ r.step = "milvus" /\ r.known = b
        /\ r.deleted = {} /\ r.errors = {}
    BY <1>1, <2>1, <2>3, StagesAre, DeletersAre DEF DeleteCall
  <2>5. deleter'[d] = r
    BY <2>4, DeletersAre
  <2>6. DeleterOK(d)'
    <3>1. \A kind \in remains' : r.step \notin StagesPast(kind)
      BY <1>1, <2>4, StagesAre DEF DeleteInv, DeleteTypeOK, Kind
    <3>. QED BY <2>1, <2>4, <2>5, <3>1 DEF DeleterOK
  <2>. QED BY <1>1, <2>4, <2>6, CallKeepsInv DEF DeleteInv, DeleteTypeOK
<1>5. CASE deleter' = [deleter EXCEPT ![d].step = "done", ![d].errors = @ \cup {"notFound"}]
  <2>1. [deleter[d] EXCEPT !.step = "done", !.errors = @ \cup {"notFound"}] \in DeleteCall
    BY DeletersAre DEF DeleteCall, DeleteStage
  <2>2. PICK r \in DeleteCall : r = [deleter[d] EXCEPT !.step = "done", !.errors = @ \cup {"notFound"}]
    BY <2>1
  <2>3. /\ deleter' = [deleter EXCEPT ![d] = r] /\ r.step = "done" /\ r.known = deleter[d].known
        /\ r.deleted = {} /\ r.errors = {"notFound"}
    BY <1>1, <1>5, <2>2, DeletersAre DEF DeleteCall
  <2>4. deleter'[d] = r /\ ~deleter[d].known
    BY <1>1, <2>3, DeletersAre DEF DeleterOK
  <2>5. DeleterOK(d)'
    BY <2>3, <2>4 DEF DeleterOK
  <2>. QED BY <1>1, <2>3, <2>5, CallKeepsInv DEF DeleteInv, DeleteTypeOK
<1>. QED BY <1>2, <1>3, <1>4, <1>5 DEF Lookup

LEMMA DeleteStepKeepsInv == DeleteInv /\ [DeleteNext]_deleteVars => DeleteInv'
<1>. SUFFICES ASSUME DeleteInv, [DeleteNext]_deleteVars PROVE DeleteInv'
  OBVIOUS
<1>0. told \in BOOLEAN /\ remains \subseteq {"row", "chunks", "node", "file"}
      /\ DeletingStage \ {"lookup"} = {"milvus", "graph", "pg", "file", "publish"}
  BY DEF DeleteInv, DeleteTypeOK, Kind, DeletingStage
<1>1. ASSUME NEW d \in Deleter, DeleteChunks(d) PROVE DeleteInv'
  <2>1. IsAt(d, "milvus") /\ deleter[d].step = "milvus"
    BY <1>1 DEF DeleteChunks, IsAt
  <2>2. CASE Skips(d, "milvus") /\ ("milvus" \notin Store \/ ~deleter[d].known)
    <3>1. \A kind \in remains : Cause[kind] = "milvus" /\ IsHeld(kind) => ~deleter[d].known
      BY <1>0, <2>2, StagesAre DEF IsHeld
    <3>. QED BY <1>0, <2>1, <2>2, <3>1, SkippingKeepsInv DEF Skips
  <2>3. CASE MayRaise(d, "milvus")
    BY <1>0, <2>1, <2>3, ErrorsKeepInv
  <2>4. CASE /\ remains' = IF "row" \in remains THEN remains \ {"chunks"} ELSE remains
             /\ deleter' = Succeeds(d, "milvus", remains \ remains') /\ UNCHANGED told
    <3>1. PICK gone \in SUBSET Kind : gone = remains \ remains'
      BY <1>0 DEF Kind
    <3>2. "row" \notin gone /\ remains' \subseteq remains /\ ("row" \in remains => "row" \in remains')
      BY <2>4, <3>1
    <3>3. ASSUME NEW kind \in remains', Cause[kind] = "milvus" PROVE IsExplained(kind, d)
      <4>1. kind = "chunks" /\ "row" \notin remains
        BY <1>0, <2>4, <3>3, StagesAre
      <4>2. PICK e \in Deleter : "row" \in deleter[e].deleted
        BY <4>1 DEF DeleteInv
      <4>3. e # d
        BY <2>1, <4>2, DeletersAre, StagesAre DEF DeleterOK
      <4>. QED BY <4>1, <4>2, <4>3 DEF IsExplained
    <3>. QED BY <1>0, <2>1, <2>4, <3>1, <3>2, <3>3, SuccessesKeepInv
  <2>. QED BY <1>1, <2>2, <2>3, <2>4 DEF DeleteChunks
<1>2. ASSUME NEW d \in Deleter, DeleteNode(d) PROVE DeleteInv'
  <2>1. IsAt(d, "graph") /\ {"node"} \in SUBSET Kind
    BY <1>2 DEF DeleteNode, Kind
  <2>2. CASE Skips(d, "graph") /\ "graph" \notin Store
    <3>1. \A kind \in remains : Cause[kind] = "graph" /\ IsHeld(kind) => ~deleter[d].known
      BY <1>0, <2>2, StagesAre DEF IsHeld
    <3>. QED BY <1>0, <2>1, <2>2, <3>1, SkippingKeepsInv DEF Skips
  <2>3. CASE MayRaise(d, "graph")
    BY <1>0, <2>1, <2>3, ErrorsKeepInv
  <2>4. CASE remains' = remains \ {"node"} /\ deleter' = Succeeds(d, "graph", {"node"}) /\ UNCHANGED told
    <3>1. \A kind \in remains' : Cause[kind] # "graph"
      BY <1>0, <2>4, StagesAre
    <3>. QED BY <1>0, <2>1, <2>4, <3>1, SuccessesKeepInv
  <2>. QED BY <1>2, <2>2, <2>3, <2>4 DEF DeleteNode
<1>3. ASSUME NEW d \in Deleter, DeleteRow(d) PROVE DeleteInv'
  <2>1. IsAt(d, "pg") /\ {"row"} \in SUBSET Kind
    BY <1>3 DEF DeleteRow, Kind
  <2>2. CASE Skips(d, "pg") /\ "pg" \notin Store
    <3>1. \A kind \in remains : Cause[kind] = "pg" /\ IsHeld(kind) => ~deleter[d].known
      BY <1>0, <2>2, StagesAre DEF IsHeld
    <3>. QED BY <1>0, <2>1, <2>2, <3>1, SkippingKeepsInv DEF Skips
  <2>3. CASE MayRaise(d, "pg")
    BY <1>0, <2>1, <2>3, ErrorsKeepInv
  <2>4. CASE /\ "pg" \in Store
             /\ remains' = remains \ {"row"} /\ deleter' = Succeeds(d, "pg", {"row"}) /\ UNCHANGED told
    <3>1. \A kind \in remains' : Cause[kind] # "pg"
      BY <1>0, <2>4, StagesAre
    <3>. QED BY <1>0, <2>1, <2>4, <3>1, SuccessesKeepInv
  <2>. QED BY <1>3, <2>2, <2>3, <2>4 DEF DeleteRow
<1>4. ASSUME NEW d \in Deleter, DeleteFile(d) PROVE DeleteInv'
  <2>1. IsAt(d, "file")
    BY <1>4 DEF DeleteFile
  <2>2. CASE Skips(d, "file") /\ ~deleter[d].known
    BY <1>0, <2>1, <2>2, SkippingKeepsInv DEF Skips
  <2>3. CASE MayRaise(d, "file")
    BY <1>0, <2>1, <2>3, ErrorsKeepInv
  <2>4. CASE /\ remains' = remains \ {"file"} /\ deleter' = Succeeds(d, "file", remains \ remains')
             /\ UNCHANGED told
    <3>1. PICK gone \in SUBSET Kind : gone = remains \ remains'
      BY <1>0 DEF Kind
    <3>2. "row" \notin gone /\ remains' \subseteq remains /\ ("row" \in remains => "row" \in remains')
          /\ \A kind \in remains' : Cause[kind] # "file"
      BY <1>0, <2>4, <3>1, StagesAre
    <3>. QED BY <1>0, <2>1, <2>4, <3>1, <3>2, SuccessesKeepInv
  <2>. QED BY <1>4, <2>2, <2>3, <2>4 DEF DeleteFile
<1>5. ASSUME NEW d \in Deleter, Publish(d) PROVE DeleteInv'
  <2>1. /\ IsAt(d, "publish") /\ remains' = remains /\ told' \in BOOLEAN
        /\ deleter' = [deleter EXCEPT ![d].step = After["publish"]]
    BY <1>0, <1>5, StagesAre, TRUE \in BOOLEAN DEF Publish
  <2>2. \A kind \in remains : Cause[kind] # "publish"
    BY <1>0, StagesAre
  <2>. QED BY <1>0, <2>1, <2>2, SkippingKeepsInv
<1>6. CASE UNCHANGED deleteVars
  BY <1>6 DEF deleteVars, DeleteInv, DeleteTypeOK, DeleterOK, IsExplained, IsHeld
<1>. QED BY <1>1, <1>2, <1>3, <1>4, <1>5, <1>6, LookupKeepsInv DEF DeleteNext, DeleteStep

LEMMA MoreThanOne ==
  ASSUME NEW x \in Deleter, NEW y \in Deleter, x # y
  PROVE  Cardinality(Deleter) > 1
<1>1. IsFiniteSet(Deleter) /\ {x, y} \subseteq Deleter
  BY DeleteAssumption
<1>2. Cardinality({x}) = 1 /\ IsFiniteSet({x})
  BY FS_Singleton
<1>3. Cardinality({x} \cup {y}) = 2
  BY <1>2, FS_AddElement
<1>4. {x} \cup {y} = {x, y}
  OBVIOUS
<1>5. Cardinality({x, y}) <= Cardinality(Deleter) /\ Cardinality(Deleter) \in Nat
  BY <1>1, FS_Subset, FS_CardinalityType
<1>. QED BY <1>3, <1>4, <1>5

\* Whoever deletes a document at the same time, in whatever order: what is left of
\* it is explained by an error that some call has reported, or by the row having
\* gone first (document_manager.py).
THEOREM DeletesExplainThemselves == DeleteSpec => []RemainsAreExplained
<1>1. DeleteInv => RemainsAreExplained
  <2>. SUFFICES ASSUME DeleteInv PROVE RemainsAreExplained
    OBVIOUS
  <2>1. ASSUME NEW kind \in remains, NEW d \in Deleter, DeleteEnded(d), deleter[d].known, IsHeld(kind)
        PROVE  IsExplained(kind, d)
    <3>1. kind \in {"row", "chunks", "node", "file"} /\ DeleterOK(d) /\ deleter[d].step = "done"
      BY <2>1, DeletersAre DEF DeleteInv, DeleteTypeOK, Kind, DeleteEnded
    <3>. QED BY <2>1, <3>1, StagesAre DEF DeleterOK
  <2>2. LeftoversAreExplained
    BY <2>1 DEF LeftoversAreExplained, IsExplained
  <2>3. OrphansAreExplained
    <3>. SUFFICES ASSUME \A d \in Deleter : DeleteEnded(d), "row" \notin remains, IsHeld("chunks"),
                         NEW kind \in remains \cap {"chunks", "file"}
                  PROVE  \/ \E d \in Deleter : deleter[d].errors \cap {"lookup", Cause[kind]} # {}
                         \/ Cardinality(Deleter) > 1 /\ kind = "chunks"
      BY DEF OrphansAreExplained
    <3>1. PICK e \in Deleter : "row" \in deleter[e].deleted /\ DeleterOK(e) /\ deleter[e].step = "done"
      BY DeletersAre DEF DeleteInv, DeleteEnded
    <3>2. "pg" \in Store /\ "notFound" \notin deleter[e].errors /\ IsHeld(kind)
      BY <3>1 DEF IsHeld, DeleterOK
    <3>3. CASE ~deleter[e].known
      BY <3>1, <3>2, <3>3 DEF DeleterOK
    <3>4. CASE deleter[e].known
      <4>1. IsExplained(kind, e)
        BY <2>1, <3>2, <3>4
      <4>. QED BY <4>1, MoreThanOne DEF IsExplained
    <3>. QED BY <3>3, <3>4, DeletersAre
  <2>. QED BY <2>2, <2>3 DEF RemainsAreExplained, DeleteInv
<1>. QED BY <1>1, DeleteInitInv, DeleteStepKeepsInv, PTL DEF DeleteSpec

-----------------------------------------------------------------------------
(* Governed memories.  A record that is confirmed was approved, or is of   *)
(* the kind its user asked for, whoever decides and deletes meanwhile; and *)
(* of the steps of a query only LoadMemories puts anything into what it is *)
(* told.                                                                   *)
(***************************************************************************)

Request == [at : {"new", "hints", "run", "episode", "procedure", "explicit", "candidate", "done"},
            told : SUBSET RecordId, hinted : SUBSET (SUBSET ToolName), episode : Episode]
Procedure == [words : SUBSET Word, good : Nat, bad : Nat]
Record == [status : {"absent", "candidate", "confirmed", "rejected"},
           scope : {"none", "user", "project"}, owner : User \cup {Nobody}]

\* A record is confirmed by somebody or by its own user's wish, and a record of
\* a user is of the user who asked.
RecordsAreGoverned ==
  \A r \in RecordId :
    /\ records[r].status = "confirmed" => r \in approved \/ r[2] = "explicit"
    /\ records[r].scope = "user" => records[r].owner = AskedBy[r[1]]

MemoryInv == MemoryTypeOK /\ OutcomesAreCounted /\ RecordsAreGoverned

LEMMA MemoryInitInv == MemoryInit => MemoryInv
<1>. SUFFICES ASSUME MemoryInit PROVE MemoryInv
  OBVIOUS
<1>1. NoEpisode \in Episode
  BY FALSE \in BOOLEAN DEF NoEpisode, Episode
<1>2. Absent \in Record /\ Absent.status = "absent" /\ Absent.scope = "none"
  BY DEF Absent, Record
<1>3. MemoryTypeOK
  BY <1>1, <1>2, MemoryAssumption DEF MemoryInit, MemoryTypeOK, Record
<1>4. OutcomesAreCounted
  BY DEF MemoryInit, OutcomesAreCounted
<1>5. RecordsAreGoverned
  BY <1>2 DEF MemoryInit, RecordsAreGoverned
<1>. QED BY <1>3, <1>4, <1>5 DEF MemoryInv

LEMMA RequestsAre ==
  ASSUME MemoryInv, NEW q \in Query
  PROVE  /\ asked \in [Query -> Request] /\ asked[q] \in Request /\ asked[q].episode \in Episode
         /\ asked[q].told \subseteq RecordId
BY DEF MemoryInv, MemoryTypeOK, Request

\* A request goes on, with more to tell or with less.
LEMMA RequestGoes ==
  ASSUME MemoryInv, NEW q \in Query, NEW r \in Request, asked' = [asked EXCEPT ![q] = r]
  PROVE  asked' \in [Query -> Request]
BY RequestsAre

\* One record is written.
LEMMA RecordsStayGoverned ==
  ASSUME MemoryInv, NEW id \in RecordId, NEW x \in Record, records' = [records EXCEPT ![id] = x],
         approved \ {id} \subseteq approved', approved' \subseteq RecordId,
         x.status = "confirmed" => id \in approved' \/ id[2] = "explicit",
         x.scope = "user" => x.owner = AskedBy[id[1]]
  PROVE  /\ RecordsAreGoverned'
         /\ records' \in [RecordId -> [status : {"absent", "candidate", "confirmed", "rejected"},
                               scope : {"none", "user", "project"}, owner : User \cup {Nobody}]]
<1>1. /\ records' \in [RecordId -> Record] /\ records'[id] = x
      /\ \A r \in RecordId : r # id => records'[r] = records[r]
  BY DEF MemoryInv, MemoryTypeOK, Record
<1>. QED BY <1>1 DEF MemoryInv, RecordsAreGoverned, Record

LEMMA AskingKeepsInv ==
  ASSUME MemoryInv, NEW q \in Query,
         \/ LoadMemories(q) \/ LoadHints(q) \/ Answer(q) \/ RecordEpisode(q)
  PROVE  MemoryInv'
<1>1. UNCHANGED <<procedures, records, outcomes, approved, decisions>> /\ episodes' \subseteq Query
  BY DEF LoadMemories, LoadHints, Answer, RecordEpisode, MemoryInv, MemoryTypeOK
<1>2. asked' \in [Query -> Request]
  <2>1. CASE LoadMemories(q)
    <3>1. PICK shown \in SUBSET RecordId : shown = {r \in RecordId : Visible(AskedBy[q], r)}
      OBVIOUS
    <3>2. /\ [asked[q] EXCEPT !.at = "hints", !.told = shown] \in Request
          /\ [asked[q] EXCEPT !.at = "hints"] \in Request
      BY RequestsAre DEF Request
    <3>. QED BY <2>1, <3>1, <3>2, RequestsAre DEF LoadMemories
  <2>2. CASE LoadHints(q)
    <3>1. PICK Hints : Hints = SUBSET (SUBSET ToolName)
      OBVIOUS
    <3>2. {t \in SUBSET ToolName : Learned(t) /\ Triggered(q, t)} \in Hints
      BY <3>1
    <3>3. PICK hinted \in Hints : hinted = {t \in SUBSET ToolName : Learned(t) /\ Triggered(q, t)}
      BY <3>2
    <3>4. Request = [at : {"new", "hints", "run", "episode", "procedure", "explicit", "candidate", "done"},
                     told : SUBSET RecordId, hinted : Hints, episode : Episode]
      BY <3>1 DEF Request
    <3>5. /\ [asked[q] EXCEPT !.at = "run", !.hinted = hinted] \in Request
          /\ [asked[q] EXCEPT !.at = "run"] \in Request
      BY <3>4, RequestsAre
    <3>. QED BY <2>2, <3>3, <3>5, RequestsAre DEF LoadHints
  <2>3. CASE Answer(q)
    <3>1. PICK e \in Episode : asked' = [asked EXCEPT ![q].at = "episode", ![q].episode = e,
                                                     ![q].told = {}, ![q].hinted = {}]
      BY <2>3 DEF Answer
    <3>2. [asked[q] EXCEPT !.at = "episode", !.episode = e, !.told = {}, !.hinted = {}] \in Request
      BY RequestsAre DEF Request
    <3>. QED BY <3>1, <3>2, RequestsAre
  <2>4. CASE RecordEpisode(q)
    <3>1. [asked[q] EXCEPT !.at = "procedure"] \in Request
      BY RequestsAre DEF Request
    <3>. QED BY <2>4, <3>1, RequestsAre DEF RecordEpisode
  <2>. QED BY <2>1, <2>2, <2>3, <2>4
<1>. QED BY <1>1, <1>2 DEF MemoryInv, MemoryTypeOK, Request, OutcomesAreCounted, RecordsAreGoverned

LEMMA CountingOutcomesKeepsInv ==
  ASSUME MemoryInv, NEW q \in Query, RecordOutcome(q)
  PROVE  MemoryInv'
<1>1. /\ UNCHANGED <<episodes, records, approved, decisions>>
      /\ asked' = [asked EXCEPT ![q].at = "explicit"]
  BY DEF RecordOutcome
<1>2. asked' \in [Query -> Request]
  <2>1. [asked[q] EXCEPT !.at = "explicit"] \in Request
    BY RequestsAre DEF Request
  <2>. QED BY <1>1, <2>1, RequestsAre
<1>3. /\ procedures' \in [SUBSET ToolName -> Procedure]
      /\ outcomes' \in [SUBSET ToolName -> [good : Nat, bad : Nat]]
      /\ OutcomesAreCounted'
  <2>1. PICK e \in Episode, t \in SUBSET ToolName : e = asked[q].episode /\ t = e.tools
    BY RequestsAre DEF Episode
  <2>2. /\ procedures \in [SUBSET ToolName -> Procedure] /\ procedures[t] \in Procedure
        /\ outcomes \in [SUBSET ToolName -> [good : Nat, bad : Nat]]
        /\ outcomes[t] \in [good : Nat, bad : Nat] /\ Says[q] \in SUBSET Word
        /\ outcomes[t].good = procedures[t].good /\ outcomes[t].bad = procedures[t].bad
    BY MemoryAssumption DEF MemoryInv, MemoryTypeOK, Procedure, OutcomesAreCounted
  <2>4. CASE UNCHANGED <<procedures, outcomes>>
    BY <2>2, <2>4 DEF MemoryInv, OutcomesAreCounted
  <2>5. CASE /\ procedures' = IF Learned(t) THEN CountsRaised(t, Good(e))
                  ELSE [procedures EXCEPT ![t] = [words |-> Says[q],
                          good |-> IF Good(e) THEN 1 ELSE 0, bad |-> IF Good(e) THEN 0 ELSE 1]]
             /\ outcomes' = [outcomes EXCEPT ![t].good = @ + (IF Good(e) THEN 1 ELSE 0),
                                             ![t].bad = @ + (IF Good(e) THEN 0 ELSE 1)]
    <3>1. PICK more \in Nat, worse \in Nat :
            more = (IF Good(e) THEN 1 ELSE 0) /\ worse = (IF Good(e) THEN 0 ELSE 1)
      OBVIOUS
    <3>2. PICK g \in Nat, b \in Nat :
            g = procedures[t].good + more /\ b = procedures[t].bad + worse
      BY <2>2, <3>1 DEF Procedure
    <3>3. PICK o \in [good : Nat, bad : Nat] :
            outcomes' = [outcomes EXCEPT ![t] = o] /\ o.good = g /\ o.bad = b
      <4>. DEFINE o == [outcomes[t] EXCEPT !.good = @ + more, !.bad = @ + worse]
      <4>1. o \in [good : Nat, bad : Nat] /\ o.good = g /\ o.bad = b
        BY <2>2, <3>1, <3>2
      <4>2. outcomes' = [outcomes EXCEPT ![t] = o]
        BY <2>2, <2>5, <3>1
      <4>. QED BY <4>1, <4>2
    <3>4. PICK p \in Procedure :
            procedures' = [procedures EXCEPT ![t] = p] /\ p.good = g /\ p.bad = b
      <4>1. CASE Learned(t)
        <5>. DEFINE p == [procedures[t] EXCEPT !.good = @ + more, !.bad = @ + worse]
        <5>1. p \in Procedure /\ p.good = g /\ p.bad = b
          BY <2>2, <3>1, <3>2 DEF Procedure
        <5>2. procedures' = [procedures EXCEPT ![t] = p]
          BY <2>2, <2>5, <3>1, <4>1 DEF CountsRaised
        <5>. QED BY <5>1, <5>2
      <4>2. CASE ~Learned(t)
        <5>. DEFINE p == [words |-> Says[q], good |-> more, bad |-> worse]
        <5>1. procedures[t].good = 0 /\ procedures[t].bad = 0
          BY <2>2, <4>2 DEF Learned, Procedure
        <5>2. p \in Procedure /\ p.good = g /\ p.bad = b
          BY <2>2, <3>1, <3>2, <5>1 DEF Procedure
        <5>3. procedures' = [procedures EXCEPT ![t] = p]
          BY <2>5, <3>1, <4>2
        <5>. QED BY <5>2, <5>3
      <4>. QED BY <4>1, <4>2
    <3>. QED BY <2>2, <3>3, <3>4 DEF MemoryInv, OutcomesAreCounted
  <2>. QED BY <2>1, <2>4, <2>5 DEF RecordOutcome
<1>. QED BY <1>1, <1>2, <1>3 DEF MemoryInv, MemoryTypeOK, Request, Procedure, RecordsAreGoverned

LEMMA RememberingKeepsInv ==
  ASSUME MemoryInv, NEW q \in Query, RecordExplicit(q) \/ RecordCandidate(q)
  PROVE  MemoryInv'
<1>1. UNCHANGED <<episodes, procedures, outcomes, approved, decisions>>
  BY DEF RecordExplicit, RecordCandidate
<1>2. asked' \in [Query -> Request]
  <2>1. NoEpisode \in Episode
    BY FALSE \in BOOLEAN DEF NoEpisode, Episode
  <2>2. /\ [asked[q] EXCEPT !.at = "candidate"] \in Request
        /\ [asked[q] EXCEPT !.at = "done", !.episode = NoEpisode] \in Request
    BY <2>1, RequestsAre DEF Request
  <2>. QED BY <2>2, RequestsAre DEF RecordExplicit, RecordCandidate
<1>3. /\ RecordsAreGoverned'
      /\ records' \in [RecordId -> [status : {"absent", "candidate", "confirmed", "rejected"},
                               scope : {"none", "user", "project"}, owner : User \cup {Nobody}]]
  <2>1. CASE UNCHANGED records
    BY <1>1, <2>1 DEF MemoryInv, MemoryTypeOK, RecordsAreGoverned
  <2>2. CASE records' = [records EXCEPT ![<<q, "explicit">>] =
                            [status |-> "confirmed", scope |-> "user", owner |-> AskedBy[q]]]
    <3>1. <<q, "explicit">> \in RecordId
      BY DEF RecordId
    <3>2. PICK id \in RecordId : id = <<q, "explicit">> /\ id[1] = q /\ id[2] = "explicit"
      BY <3>1
    <3>3. [status |-> "confirmed", scope |-> "user", owner |-> AskedBy[q]] \in Record
      BY DEF Record, User
    <3>4. PICK x \in Record :
            /\ x = [status |-> "confirmed", scope |-> "user", owner |-> AskedBy[q]]
            /\ x.owner = AskedBy[q]
      BY <3>3
    <3>5. records' = [records EXCEPT ![id] = x]
      BY <2>2, <3>2, <3>4
    <3>6. approved \ {id} \subseteq approved' /\ approved' \subseteq RecordId
      BY <1>1 DEF MemoryInv, MemoryTypeOK
    <3>. QED BY <3>2, <3>4, <3>5, <3>6, RecordsStayGoverned
  <2>3. CASE records' = [records EXCEPT ![<<q, "candidate">>] = Proposed]
    <3>1. <<q, "candidate">> \in RecordId
      BY DEF RecordId
    <3>2. PICK id \in RecordId : id = <<q, "candidate">>
      BY <3>1
    <3>3. Proposed \in Record /\ Proposed.status = "candidate" /\ Proposed.scope = "project"
      BY DEF Record, Proposed
    <3>4. PICK x \in Record : x = Proposed /\ x.status = "candidate" /\ x.scope = "project"
      BY <3>3
    <3>5. records' = [records EXCEPT ![id] = x]
      BY <2>3, <3>2, <3>4
    <3>6. approved \ {id} \subseteq approved' /\ approved' \subseteq RecordId
      BY <1>1 DEF MemoryInv, MemoryTypeOK
    <3>. QED BY <3>2, <3>4, <3>5, <3>6, RecordsStayGoverned
  <2>. QED BY <2>1, <2>2, <2>3 DEF RecordExplicit, RecordCandidate, Created
<1>. QED BY <1>1, <1>2, <1>3 DEF MemoryInv, MemoryTypeOK, Request, OutcomesAreCounted

\* What a decision writes: the record x in the place of id, and whether somebody
\* has confirmed it.
Decided(id, x) ==
  /\ records' = [records EXCEPT ![id] = x]
  /\ \/ x.status = "confirmed" /\ approved' = approved \cup {id}
     \/ x.status # "confirmed" /\ approved' \in {approved, approved \ {id}}
  /\ x.scope = "user" => x.owner = AskedBy[id[1]]

LEMMA DecidedKeepsInv ==
  ASSUME MemoryInv, NEW id \in RecordId, NEW x \in Record, Decided(id, x),
         UNCHANGED <<asked, episodes, procedures, outcomes>>, decisions' \in 0..MaxDecisions
  PROVE  MemoryInv'
<1>1. approved \ {id} \subseteq approved' /\ approved' \subseteq RecordId
  BY DEF Decided, MemoryInv, MemoryTypeOK
<1>2. /\ RecordsAreGoverned'
      /\ records' \in [RecordId -> [status : {"absent", "candidate", "confirmed", "rejected"},
                               scope : {"none", "user", "project"}, owner : User \cup {Nobody}]]
  BY <1>1, RecordsStayGoverned DEF Decided
<1>. QED BY <1>1, <1>2 DEF MemoryInv, MemoryTypeOK, OutcomesAreCounted

LEMMA DecisionsAreFew ==
  ASSUME MemoryInv, decisions < MaxDecisions, decisions' = decisions + 1
  PROVE  decisions' \in 0..MaxDecisions
BY MemoryAssumption DEF MemoryInv, MemoryTypeOK

LEMMA DecideKeepsInv ==
  ASSUME MemoryInv, NEW id \in RecordId, NEW status \in {"candidate", "confirmed", "rejected"},
         Decide(id, status)
  PROVE  MemoryInv'
<1>1. records \in [RecordId -> Record] /\ records[id] \in Record /\ RecordsAreGoverned
  BY DEF MemoryInv, MemoryTypeOK, Record
<1>2. /\ [records[id] EXCEPT !.status = status] \in Record
      /\ [records[id] EXCEPT !.status = status].status = status
      /\ [records[id] EXCEPT !.status = status].scope = records[id].scope
      /\ [records[id] EXCEPT !.status = status].owner = records[id].owner
  BY <1>1 DEF Record
<1>3. PICK x \in Record :
        /\ x = [records[id] EXCEPT !.status = status] /\ x.status = status
        /\ x.scope = records[id].scope /\ x.owner = records[id].owner
  BY <1>2
<1>4. records' = [records EXCEPT ![id] = x]
  BY <1>3 DEF Decide
<1>5. approved' = IF status = "confirmed" THEN approved \cup {id} ELSE approved \ {id}
  BY DEF Decide
<1>6. Decided(id, x)
  BY <1>1, <1>3, <1>4, <1>5 DEF Decided, RecordsAreGoverned
<1>7. UNCHANGED <<asked, episodes, procedures, outcomes>> /\ decisions' \in 0..MaxDecisions
  BY DecisionsAreFew DEF Decide
<1>. QED BY <1>6, <1>7, DecidedKeepsInv

LEMMA DeleteKeepsInv ==
  ASSUME MemoryInv, NEW id \in RecordId, Delete(id)
  PROVE  MemoryInv'
<1>1. Absent \in Record /\ Absent.status = "absent" /\ Absent.scope = "none"
  BY DEF Absent, Record
<1>2. PICK x \in Record : x = Absent /\ x.status = "absent" /\ x.scope = "none"
  BY <1>1
<1>3. Decided(id, x)
  BY <1>2 DEF Delete, Decided
<1>4. UNCHANGED <<asked, episodes, procedures, outcomes>> /\ decisions' \in 0..MaxDecisions
  BY DecisionsAreFew DEF Delete
<1>. QED BY <1>3, <1>4, DecidedKeepsInv

LEMMA CreateMemoryKeepsInv ==
  ASSUME MemoryInv, NEW q \in Query, NEW scope \in {"user", "project"},
         NEW status \in {"candidate", "confirmed", "rejected"}, CreateMemory(q, scope, status)
  PROVE  MemoryInv'
<1>1. <<q, "manual">> \in RecordId
  BY DEF RecordId
<1>2. PICK id \in RecordId : id = <<q, "manual">> /\ id[1] = q
  BY <1>1
<1>3. PICK owner \in User \cup {Nobody} : owner = IF scope = "user" THEN AskedBy[q] ELSE Nobody
  BY DEF User
<1>4. [status |-> status, scope |-> scope, owner |-> owner] \in Record
  BY DEF Record
<1>5. PICK x \in Record :
        /\ x = [status |-> status, scope |-> scope, owner |-> owner]
        /\ x.status = status /\ x.scope = scope /\ x.owner = owner
  BY <1>4
<1>6. records' = [records EXCEPT ![id] = x]
  BY <1>2, <1>3, <1>5 DEF CreateMemory
<1>7. approved' = IF status = "confirmed" THEN approved \cup {id} ELSE approved
  BY <1>2 DEF CreateMemory
<1>8. Decided(id, x)
  BY <1>2, <1>3, <1>5, <1>6, <1>7 DEF Decided
<1>9. UNCHANGED <<asked, episodes, procedures, outcomes>> /\ decisions' \in 0..MaxDecisions
  BY DecisionsAreFew DEF CreateMemory
<1>. QED BY <1>8, <1>9, DecidedKeepsInv

LEMMA MemoryStepKeepsInv == MemoryInv /\ [MemoryNext]_memoryVars => MemoryInv'
<1>. SUFFICES ASSUME MemoryInv, [MemoryNext]_memoryVars PROVE MemoryInv'
  OBVIOUS
<1>1. CASE UNCHANGED memoryVars
  BY <1>1 DEF memoryVars, MemoryInv, MemoryTypeOK, OutcomesAreCounted, RecordsAreGoverned, Learned
<1>. QED BY <1>1, AskingKeepsInv, CountingOutcomesKeepsInv, RememberingKeepsInv,
            DecideKeepsInv, DeleteKeepsInv, CreateMemoryKeepsInv DEF MemoryNext

\* Only a query that loads its memories is told any.
LEMMA ToldIsConfirmed ==
  ASSUME MemoryInv, [MemoryNext]_memoryVars, NEW q \in Query, NEW r \in RecordId,
         r \in asked'[q].told \ asked[q].told
  PROVE  /\ r \in approved \/ r[2] = "explicit"
         /\ records[r].status = "confirmed"
         /\ records[r].scope = "user" => AskedBy[r[1]] = AskedBy[q]
<1>1. LoadMemories(q) /\ Visible(AskedBy[q], r)
  <2>1. ASSUME NEW a \in Query, a # q,
               LoadMemories(a) \/ LoadHints(a) \/ Answer(a) \/ RecordEpisode(a) \/ RecordOutcome(a)
                 \/ RecordExplicit(a) \/ RecordCandidate(a)
        PROVE  FALSE
    BY <2>1, RequestsAre DEF LoadMemories, LoadHints, Answer, RecordEpisode, RecordOutcome,
                             RecordExplicit, RecordCandidate
  <2>2. ~(LoadHints(q) \/ RecordEpisode(q) \/ RecordOutcome(q) \/ RecordExplicit(q) \/ RecordCandidate(q))
    BY RequestsAre DEF LoadHints, RecordEpisode, RecordOutcome, RecordExplicit, RecordCandidate, Request
  <2>3. ~Answer(q)
    <3>1. SUFFICES ASSUME Answer(q) PROVE FALSE
      OBVIOUS
    <3>2. PICK e \in Episode : asked' = [asked EXCEPT ![q].at = "episode", ![q].episode = e,
                                                     ![q].told = {}, ![q].hinted = {}]
      BY <3>1 DEF Answer
    <3>3. asked'[q] = [asked[q] EXCEPT !.at = "episode", !.episode = e, !.told = {}, !.hinted = {}]
      BY <3>2, RequestsAre
    <3>4. asked'[q].told = {}
      BY <3>3, RequestsAre DEF Request
    <3>. QED BY <3>4
  <2>4. asked' # asked
    OBVIOUS
  <2>5. LoadMemories(q)
    BY <2>1, <2>2, <2>3, <2>4 DEF MemoryNext, memoryVars, CreateMemory, Decide, Delete
  <2>6. PICK shown \in SUBSET RecordId : shown = {x \in RecordId : Visible(AskedBy[q], x)}
    OBVIOUS
  <2>7. \/ asked' = [asked EXCEPT ![q].at = "hints", ![q].told = shown]
        \/ asked' = [asked EXCEPT ![q].at = "hints"]
    BY <2>5, <2>6 DEF LoadMemories
  <2>8. r \in shown
    BY <2>7, RequestsAre DEF Request
  <2>. QED BY <2>5, <2>6, <2>8
<1>. QED BY <1>1 DEF Visible, MemoryInv, RecordsAreGoverned

\* Whoever asks, decides and deletes meanwhile: a query is told only what is
\* confirmed, by somebody or by its own user's wish, and never what is another
\* user's; and no outcome of a run is counted twice or lost (memory_governance.py,
\* procedural_memory.py).
THEOREM MemoryStaysGoverned == MemorySpec => MemoryIsGoverned
<1>1. MemoryInv => MemoryTypeOK /\ OutcomesAreCounted
  BY DEF MemoryInv
<1>2. MemoryInv /\ [MemoryNext]_memoryVars =>
        [\A q \in Query, r \in RecordId :
           r \in asked'[q].told \ asked[q].told =>
             /\ r \in approved \/ r[2] = "explicit"
             /\ records[r].status = "confirmed"
             /\ records[r].scope = "user" => AskedBy[r[1]] = AskedBy[q]]_memoryVars
  BY ToldIsConfirmed
<1>. QED BY <1>1, <1>2, MemoryInitInv, MemoryStepKeepsInv, PTL
         DEF MemorySpec, MemoryIsGoverned, OnlyConfirmedIsTold

-----------------------------------------------------------------------------
(* The cache.  An answer that a change of the chip has made wrong is there *)
(* only as long as a message says so, or a reader that has it in the list  *)
(* it read: CacheInv.  That reader puts the rest back, so the list is also *)
(* bounded by what had not been trimmed when it read.                      *)
(***************************************************************************)

CacheRecord == [pc : {"get", "answer", "push", "trim", "expire", "done"},
                of : Revision, served : SUBSET Entry]
CacheHistory == [untrimmed : Nat, putBack : Nat, unexpiring : BOOLEAN, missed : BOOLEAN]

\* An entry that the change of the chip has made wrong.
IsOutdated(e) == Asks[e.by] \in AboutChip /\ ~e.late /\ e.of # revision

\* Somebody will take it out: a message is there, or being handled by a reader
\* that has seen it.
WillGo(e) == mailbox > 0 \/ (reader.pc = "rewrite" /\ e \in ToSet(reader.saw))

CacheInv ==
  /\ CacheTypeOK /\ BucketIsBounded /\ BucketsExpire
  /\ Len(reader.saw) <= BucketSize + cacheHist.putBack
  /\ mailbox <= revision /\ \A r \in Asker : asker[r].of <= revision
  /\ ~cacheHist.missed => \A e \in ToSet(bucket) : IsOutdated(e) => WillGo(e)

LEMMA CacheTypes ==
  ASSUME CacheInv
  PROVE  /\ revision \in Nat /\ bucket \in Seq(Entry) /\ Len(bucket) \in Nat
         /\ ToSet(bucket) \subseteq Entry
         /\ asker \in [Asker -> CacheRecord] /\ mailbox \in Nat
         /\ reader.saw \in Seq(Entry) /\ reader.pc \in {"idle", "rewrite"}
         /\ cacheHist \in CacheHistory /\ BucketSize \in Nat /\ BucketSize # 0
         /\ MaxRevision \in Nat /\ revision \in Revision /\ mailbox <= revision
<1>1. CacheTypeOK
  BY DEF CacheInv
<1>2. Len(bucket) \in Nat /\ ToSet(bucket) \subseteq Entry
  BY <1>1 DEF CacheTypeOK, ToSet
<1>3. reader.saw \in Seq(Entry) /\ reader.pc \in {"idle", "rewrite"}
  BY <1>1 DEF CacheTypeOK
<1>. QED BY <1>1, <1>2, <1>3, CacheAssumption DEF CacheTypeOK, CacheRecord, CacheHistory, Revision, CacheInv

LEMMA CacheInitInv == CacheInit => CacheInv
<1>. SUFFICES ASSUME CacheInit PROVE CacheInv
  OBVIOUS
<1>1. <<>> \in Seq(Entry) /\ Len(<<>>) = 0 /\ ToSet(<<>>) = {} /\ 0 \in Revision
  BY CacheAssumption DEF ToSet, Revision
<1>2. CacheTypeOK
  BY <1>1, CacheAssumption DEF CacheInit, CacheTypeOK, Reading
<1>3. \A r \in Asker : asker[r].of = 0
  BY DEF CacheInit
<1>4. /\ BucketIsBounded /\ BucketsExpire /\ Len(reader.saw) <= BucketSize + cacheHist.putBack
      /\ revision = 0 /\ mailbox = 0 /\ bucket = <<>>
  BY <1>1, CacheAssumption DEF CacheInit, BucketIsBounded, BucketsExpire, Reading
<1>. QED BY <1>1, <1>2, <1>3, <1>4 DEF CacheInv

\* A request goes on, and the list loses some entries or gets one that is true.
LEMMA AskingKeepsCacheInv ==
  ASSUME CacheInv, NEW r \in Asker, NEW x \in CacheRecord, asker' = [asker EXCEPT ![r] = x],
         x.of <= revision, UNCHANGED <<revision, listening, mailbox, reader>>,
         bucket' \in Seq(Entry), \A e \in ToSet(bucket') : e \in ToSet(bucket) \/ ~IsOutdated(e),
         bucketTtl' \in {"none", "conversational", "comparison"},
         cacheHist' \in CacheHistory, cacheHist'.missed = cacheHist.missed,
         cacheHist'.putBack = cacheHist.putBack, BucketIsBounded', BucketsExpire'
  PROVE  CacheInv'
<1>1. /\ asker' \in [Asker -> CacheRecord] /\ asker'[r] = x
      /\ \A q \in Asker : q # r => asker'[q] = asker[q]
  BY CacheTypes
<1>2. \A q \in Asker : asker'[q].of <= revision'
  BY <1>1 DEF CacheInv
<1>3. CacheTypeOK'
  BY <1>1, CacheTypes DEF CacheInv, CacheTypeOK, CacheRecord, CacheHistory, Revision
<1>4. ~cacheHist'.missed => \A e \in ToSet(bucket') : IsOutdated(e)' => WillGo(e)'
  BY DEF CacheInv, IsOutdated, WillGo
<1>. QED BY <1>2, <1>3, <1>4 DEF CacheInv

LEMMA LookingUpKeepsCacheInv ==
  ASSUME CacheInv, NEW r \in Asker, CacheGet(r) \/ MakeAnswer(r)
  PROVE  CacheInv'
<1>1. asker[r] \in CacheRecord /\ asker \in [Asker -> CacheRecord] /\ asker[r].of <= revision
  BY CacheTypes DEF CacheInv
<1>2. UNCHANGED <<bucket, bucketTtl, revision, listening, mailbox, reader, cacheHist>>
  BY DEF CacheGet, MakeAnswer
<1>3. \E x \in CacheRecord : asker' = [asker EXCEPT ![r] = x] /\ x.of <= revision
  <2>1. CASE CacheGet(r)
    <3>1. /\ [asker[r] EXCEPT !.pc = "answer"] \in CacheRecord
          /\ [asker[r] EXCEPT !.pc = "answer"].of = asker[r].of
      BY <1>1 DEF CacheRecord
    <3>2. ASSUME NEW i \in Matches(r)
          PROVE  /\ [asker[r] EXCEPT !.pc = "done", !.served = {bucket[i]}] \in CacheRecord
                 /\ [asker[r] EXCEPT !.pc = "done", !.served = {bucket[i]}].of = asker[r].of
      <4>1. {bucket[i]} \in SUBSET Entry
        BY CacheTypes DEF Matches
      <4>2. PICK S \in SUBSET Entry : S = {bucket[i]}
        BY <4>1
      <4>. QED BY <1>1, <4>2 DEF CacheRecord
    <3>. QED BY <1>1, <2>1, <3>1, <3>2 DEF CacheGet
  <2>2. CASE MakeAnswer(r)
    <3>1. /\ [asker[r] EXCEPT !.pc = "push", !.of = revision] \in CacheRecord
          /\ [asker[r] EXCEPT !.pc = "push", !.of = revision].of = revision
      BY <1>1, CacheTypes DEF CacheRecord
    <3>2. revision <= revision
      BY CacheTypes
    <3>. QED BY <2>2, <3>1, <3>2 DEF MakeAnswer
  <2>. QED BY <2>1, <2>2
<1>4. PICK x \in CacheRecord : asker' = [asker EXCEPT ![r] = x] /\ x.of <= revision
  BY <1>3
<1>5. BucketIsBounded' /\ (bucketTtl' = bucketTtl /\ cacheHist' = cacheHist /\ bucket' = bucket)
  BY <1>2 DEF CacheInv, BucketIsBounded
<1>6. BucketsExpire'
  <2>1. asker[r].pc \notin {"trim", "expire"}
    BY DEF CacheGet, MakeAnswer, AskerAt
  <2>2. \A q \in Asker : asker[q].pc \in {"trim", "expire"} => asker'[q].pc \in {"trim", "expire"}
    BY <1>1, <1>4, <2>1
  <2>. QED BY <1>5, <2>2 DEF CacheInv, BucketsExpire
<1>7. bucketTtl \in {"none", "conversational", "comparison"}
  BY DEF CacheInv, CacheTypeOK
<1>. QED BY <1>2, <1>4, <1>5, <1>6, <1>7, CacheTypes, AskingKeepsCacheInv

LEMMA PushingKeepsCacheInv ==
  ASSUME CacheInv, NEW r \in Asker, CachePush(r)
  PROVE  CacheInv'
<1>1. asker[r] \in CacheRecord /\ asker \in [Asker -> CacheRecord] /\ asker[r].of <= revision
  BY CacheTypes DEF CacheInv
<1>2. PICK e \in Entry : /\ e = [by |-> r, of |-> asker[r].of, late |-> asker[r].of < revision]
                         /\ e.of = asker[r].of /\ e.late = (asker[r].of < revision)
  <2>1. (asker[r].of < revision) \in BOOLEAN
    OBVIOUS
  <2>2. PICK late \in BOOLEAN : late = (asker[r].of < revision)
    BY <2>1
  <2>3. [by |-> r, of |-> asker[r].of, late |-> late] \in Entry
    BY <1>1, <2>2 DEF Entry, CacheRecord
  <2>. QED BY <2>2, <2>3
<1>3. bucket' = Append(bucket, e)
  BY <1>2 DEF CachePush
<1>4. /\ bucket' \in Seq(Entry) /\ Len(bucket') = Len(bucket) + 1
      /\ ToSet(bucket') = ToSet(bucket) \cup {e}
  BY <1>3, CacheTypes, AppendHolds
<1>5. ~IsOutdated(e)
  <2>1. asker[r].of \in Nat /\ revision \in Nat
    BY <1>1, CacheTypes DEF CacheRecord, Revision
  <2>2. ~(asker[r].of < revision) => asker[r].of = revision
    BY <1>1, <2>1
  <2>. QED BY <1>2, <2>2 DEF IsOutdated
<1>6. PICK x \in CacheRecord : /\ x = [asker[r] EXCEPT !.pc = "trim"]
                               /\ x.pc = "trim" /\ x.of = asker[r].of
  <2>1. [asker[r] EXCEPT !.pc = "trim"] \in CacheRecord
    BY <1>1 DEF CacheRecord
  <2>. QED BY <1>1, <2>1 DEF CacheRecord
<1>7. asker' = [asker EXCEPT ![r] = x]
  BY <1>6 DEF CachePush
<1>8. /\ cacheHist' \in CacheHistory /\ cacheHist'.untrimmed = cacheHist.untrimmed + 1
      /\ cacheHist'.missed = cacheHist.missed /\ cacheHist'.putBack = cacheHist.putBack
  <2>1. cacheHist \in CacheHistory /\ cacheHist.untrimmed + 1 \in Nat
    BY CacheTypes DEF CacheHistory
  <2>2. PICK b \in BOOLEAN : b = (cacheHist.unexpiring /\ bucket # <<>>)
    OBVIOUS
  <2>3. cacheHist' = [cacheHist EXCEPT !.untrimmed = cacheHist.untrimmed + 1, !.unexpiring = b]
    BY <2>2 DEF CachePush
  <2>. QED BY <2>1, <2>3 DEF CacheHistory
<1>9. BucketIsBounded'
  <2>1. cacheHist.untrimmed \in Nat
    BY CacheTypes DEF CacheHistory
  <2>. QED BY <1>4, <1>8, <2>1, CacheTypes DEF CacheInv, BucketIsBounded
<1>10. BucketsExpire'
  BY <1>1, <1>6, <1>7 DEF BucketsExpire
<1>11. /\ bucketTtl' \in {"none", "conversational", "comparison"}
       /\ UNCHANGED <<revision, listening, mailbox, reader>>
  BY DEF CachePush, CacheInv, CacheTypeOK
<1>. QED BY <1>1, <1>4, <1>5, <1>6, <1>7, <1>8, <1>9, <1>10, <1>11, AskingKeepsCacheInv

LEMMA TrimmingKeepsCacheInv ==
  ASSUME CacheInv, NEW r \in Asker, CacheTrim(r)
  PROVE  CacheInv'
<1>1. asker[r] \in CacheRecord /\ asker \in [Asker -> CacheRecord] /\ asker[r].of <= revision
  BY CacheTypes DEF CacheInv
<1>2. PICK x \in CacheRecord : /\ x = [asker[r] EXCEPT !.pc = "expire"]
                               /\ x.pc = "expire" /\ x.of = asker[r].of
  <2>1. [asker[r] EXCEPT !.pc = "expire"] \in CacheRecord
    BY <1>1 DEF CacheRecord
  <2>. QED BY <1>1, <2>1 DEF CacheRecord
<1>3. asker' = [asker EXCEPT ![r] = x] /\ bucket' = LastN(bucket, BucketSize)
  BY <1>2 DEF CacheTrim
<1>4. /\ bucket' \in Seq(Entry) /\ Len(bucket') <= BucketSize
      /\ ToSet(bucket') \subseteq ToSet(bucket)
  BY <1>3, CacheTypes, LastNElements, SlicesHold
<1>5. /\ cacheHist' \in CacheHistory /\ cacheHist'.untrimmed = 0
      /\ cacheHist'.missed = cacheHist.missed /\ cacheHist'.putBack = cacheHist.putBack
  BY CacheTypes DEF CacheTrim, CacheHistory
<1>6. BucketIsBounded'
  BY <1>4, <1>5, CacheTypes DEF BucketIsBounded
<1>7. BucketsExpire'
  BY <1>1, <1>2, <1>3 DEF BucketsExpire
<1>8. /\ bucketTtl' \in {"none", "conversational", "comparison"}
      /\ UNCHANGED <<revision, listening, mailbox, reader>>
  BY DEF CacheTrim, CacheInv, CacheTypeOK
<1>. QED BY <1>1, <1>2, <1>3, <1>4, <1>5, <1>6, <1>7, <1>8, AskingKeepsCacheInv

LEMMA EndingKeepsCacheInv ==
  ASSUME CacheInv, NEW r \in Asker, CacheExpire(r) \/ PutFails(r)
  PROVE  CacheInv'
<1>1. asker[r] \in CacheRecord /\ asker \in [Asker -> CacheRecord] /\ asker[r].of <= revision
  BY CacheTypes DEF CacheInv
<1>2. PICK x \in CacheRecord : /\ x = [asker[r] EXCEPT !.pc = "done"]
                               /\ x.pc = "done" /\ x.of = asker[r].of
  <2>1. [asker[r] EXCEPT !.pc = "done"] \in CacheRecord
    BY <1>1 DEF CacheRecord
  <2>. QED BY <1>1, <2>1 DEF CacheRecord
<1>3. asker' = [asker EXCEPT ![r] = x] /\ bucket' = bucket
  BY <1>2 DEF CacheExpire, PutFails
<1>4. PICK b \in BOOLEAN :
        /\ cacheHist' = [cacheHist EXCEPT !.unexpiring = b]
        /\ PutFails(r) =>
             b = (cacheHist.unexpiring \/ (~AskerAt(r, "push") /\ bucket # <<>> /\ bucketTtl = "none"))
  <2>1. CASE CacheExpire(r) /\ ~PutFails(r)
    BY <2>1, FALSE \in BOOLEAN DEF CacheExpire
  <2>2. CASE PutFails(r)
    <3>1. PICK b \in BOOLEAN :
            b = (cacheHist.unexpiring \/ (~AskerAt(r, "push") /\ bucket # <<>> /\ bucketTtl = "none"))
      OBVIOUS
    <3>. QED BY <2>2, <3>1 DEF PutFails
  <2>. QED BY <2>1, <2>2
<1>5. /\ cacheHist' \in CacheHistory /\ cacheHist'.untrimmed = cacheHist.untrimmed
      /\ cacheHist'.unexpiring = b
      /\ cacheHist'.missed = cacheHist.missed /\ cacheHist'.putBack = cacheHist.putBack
  BY <1>4, CacheTypes DEF CacheHistory
<1>6. BucketIsBounded'
  BY <1>3, <1>5 DEF BucketIsBounded, CacheInv
<1>7. bucketTtl' \in {"none", "conversational", "comparison"}
  BY DEF CacheExpire, PutFails, CacheInv, CacheTypeOK
<1>8. BucketsExpire'
  <2>1. CASE CacheExpire(r)
    <3>1. bucket' # <<>> => bucketTtl' # "none"
      BY <2>1 DEF CacheExpire
    <3>. QED BY <3>1 DEF BucketsExpire
  <2>2. CASE PutFails(r)
    <3>1. SUFFICES ASSUME bucket # <<>>, bucketTtl = "none", ~b
                   PROVE  \E q \in Asker : asker'[q].pc \in {"trim", "expire"}
      BY <1>3, <1>5, <2>2 DEF BucketsExpire, PutFails
    <3>2. ~cacheHist.unexpiring /\ AskerAt(r, "push")
      BY <1>4, <2>2, <3>1
    <3>3. PICK q \in Asker : asker[q].pc \in {"trim", "expire"}
      BY <3>1, <3>2 DEF CacheInv, BucketsExpire
    <3>4. q # r
      BY <3>2, <3>3 DEF AskerAt
    <3>. QED BY <1>1, <1>3, <3>3, <3>4
  <2>. QED BY <2>1, <2>2
<1>9. UNCHANGED <<revision, listening, mailbox, reader>>
  BY DEF CacheExpire, PutFails
<1>10. bucket' \in Seq(Entry) /\ \A e \in ToSet(bucket') : e \in ToSet(bucket)
  BY <1>3, CacheTypes
<1>. QED BY <1>1, <1>2, <1>3, <1>5, <1>6, <1>7, <1>8, <1>9, <1>10, AskingKeepsCacheInv

LEMMA ExpiringKeepsCacheInv ==
  ASSUME CacheInv, BucketExpires
  PROVE  CacheInv'
<1>1. /\ bucket' = <<>> /\ <<>> \in Seq(Entry) /\ Len(<<>>) = 0 /\ ToSet(<<>>) = {}
      /\ bucketTtl' = "none"
  BY DEF BucketExpires, ToSet
<1>2. /\ cacheHist' \in CacheHistory /\ cacheHist'.untrimmed = 0
      /\ cacheHist'.missed = cacheHist.missed /\ cacheHist'.putBack = cacheHist.putBack
  BY CacheTypes DEF BucketExpires, CacheHistory
<1>3. UNCHANGED <<revision, asker, listening, mailbox, reader>>
  BY DEF BucketExpires
<1>4. CacheTypeOK'
  BY <1>1, <1>2, <1>3 DEF CacheInv, CacheTypeOK, CacheHistory, Revision
<1>5. BucketIsBounded' /\ BucketsExpire'
  BY <1>1, <1>2, CacheTypes DEF BucketIsBounded, BucketsExpire
<1>6. \A e \in ToSet(bucket') : FALSE
  BY <1>1
<1>. QED BY <1>2, <1>3, <1>4, <1>5, <1>6 DEF CacheInv

\* Whether anybody hears of it or not.
LEMMA ChangesKeepCacheInv ==
  ASSUME CacheInv, ChipChanges
  PROVE  CacheInv'
<1>1. /\ UNCHANGED <<bucket, bucketTtl, asker, listening, reader>>
      /\ revision' = revision + 1 /\ revision' \in Revision
  BY CacheTypes DEF ChipChanges, Revision
<1>2. /\ cacheHist' \in CacheHistory /\ cacheHist'.untrimmed = cacheHist.untrimmed
      /\ cacheHist'.putBack = cacheHist.putBack /\ cacheHist'.unexpiring = cacheHist.unexpiring
      /\ cacheHist'.missed \/ mailbox' > 0
      /\ mailbox' \in Nat /\ mailbox' <= mailbox + 1
  <2>1. CASE listening /\ mailbox' = mailbox + 1 /\ UNCHANGED cacheHist
    <3>1. mailbox + 1 \in Nat /\ mailbox + 1 > 0 /\ mailbox + 1 <= mailbox + 1
      BY CacheTypes
    <3>. QED BY <2>1, <3>1, CacheTypes DEF CacheHistory
  <2>2. CASE mailbox' = mailbox /\ cacheHist' = [cacheHist EXCEPT !.missed = TRUE]
    <3>1. mailbox <= mailbox + 1
      BY CacheTypes
    <3>. QED BY <2>2, <3>1, CacheTypes DEF CacheHistory
  <2>. QED BY <2>1, <2>2 DEF ChipChanges
<1>3. mailbox' <= revision' /\ mailbox' \in 0..MaxRevision
  <2>1. revision' <= MaxRevision /\ revision' \in Nat
    BY <1>1, CacheTypes DEF Revision
  <2>2. mailbox' <= revision'
    BY <1>1, <1>2, CacheTypes
  <2>. QED BY <1>2, <2>1, <2>2, CacheTypes
<1>4. CacheTypeOK'
  BY <1>1, <1>2, <1>3 DEF CacheInv, CacheTypeOK, CacheHistory, Revision
<1>5. BucketIsBounded' /\ BucketsExpire'
  BY <1>1, <1>2 DEF CacheInv, BucketIsBounded, BucketsExpire
<1>6. \A r \in Asker : asker'[r].of <= revision'
  <2> SUFFICES ASSUME NEW r \in Asker PROVE asker'[r].of <= revision'
    OBVIOUS
  <2>1. asker[r].of \in Nat /\ asker[r].of <= revision
    BY CacheTypes DEF CacheInv, CacheRecord, Revision
  <2>. QED BY <1>1, <2>1, CacheTypes
<1>7. ~cacheHist'.missed => \A e \in ToSet(bucket') : IsOutdated(e)' => WillGo(e)'
  BY <1>2 DEF WillGo
<1>8. Len(reader'.saw) <= BucketSize + cacheHist'.putBack
  BY <1>1, <1>2 DEF CacheInv
<1>. QED BY <1>3, <1>4, <1>5, <1>6, <1>7, <1>8 DEF CacheInv

LEMMA StoppingKeepsCacheInv ==
  ASSUME CacheInv, StopListening \/ HandlerFails
  PROVE  CacheInv'
<1>1. UNCHANGED <<revision, bucket, bucketTtl, asker>>
  BY DEF StopListening, HandlerFails
<1>2. /\ cacheHist' \in CacheHistory /\ cacheHist'.untrimmed = cacheHist.untrimmed
      /\ cacheHist'.putBack = cacheHist.putBack /\ cacheHist'.unexpiring = cacheHist.unexpiring
      /\ cacheHist'.missed = TRUE
  BY CacheTypes DEF StopListening, HandlerFails, CacheHistory
<1>3. mailbox' \in 0..MaxRevision /\ mailbox' <= revision' /\ listening' \in BOOLEAN
  <2>1. mailbox' = 0 \/ mailbox' = mailbox
    BY DEF StopListening, HandlerFails
  <2>2. 0 <= revision /\ 0 \in 0..MaxRevision
    BY CacheTypes DEF Revision
  <2>. QED BY <1>1, <2>1, <2>2, CacheTypes DEF StopListening, HandlerFails, CacheInv, CacheTypeOK
<1>4. /\ reader'.saw \in Seq(Entry) /\ Len(reader'.saw) <= BucketSize + cacheHist'.putBack
      /\ reader' \in [pc : {"idle", "rewrite"}, saw : Seq(Entry)]
  <2>1. CASE StopListening
    BY <1>2, <2>1 DEF StopListening, CacheInv, CacheTypeOK
  <2>2. CASE HandlerFails
    <3>1. <<>> \in Seq(Entry) /\ Len(<<>>) = 0
      OBVIOUS
    <3>2. Reading \in [pc : {"idle", "rewrite"}, saw : Seq(Entry)] /\ Reading.saw = <<>>
      BY <3>1 DEF Reading
    <3>3. cacheHist.putBack \in Nat
      BY CacheTypes DEF CacheHistory
    <3>. QED BY <1>2, <2>2, <3>1, <3>2, <3>3, CacheTypes DEF HandlerFails
  <2>. QED BY <2>1, <2>2
<1>5. CacheTypeOK'
  BY <1>1, <1>2, <1>3, <1>4 DEF CacheInv, CacheTypeOK, CacheHistory, Revision
<1>6. BucketIsBounded' /\ BucketsExpire' /\ \A r \in Asker : asker'[r].of <= revision'
  BY <1>1, <1>2 DEF CacheInv, BucketIsBounded, BucketsExpire
<1>. QED BY <1>2, <1>3, <1>4, <1>5, <1>6 DEF CacheInv

LEMMA ReadingKeepsCacheInv ==
  ASSUME CacheInv, ReadBucket
  PROVE  CacheInv'
<1>1. UNCHANGED <<revision, bucket, bucketTtl, asker, listening>>
  BY DEF ReadBucket
<1>2. /\ reader' \in [pc : {"idle", "rewrite"}, saw : Seq(Entry)]
      /\ reader'.pc = "rewrite" /\ reader'.saw = bucket
  BY CacheTypes DEF ReadBucket
<1>3. /\ cacheHist' \in CacheHistory /\ cacheHist'.untrimmed = cacheHist.untrimmed
      /\ cacheHist'.putBack = cacheHist.untrimmed /\ cacheHist'.unexpiring = cacheHist.unexpiring
      /\ cacheHist'.missed = cacheHist.missed
  BY CacheTypes DEF ReadBucket, CacheHistory
<1>4. mailbox' \in 0..MaxRevision /\ mailbox' <= revision'
  <2>1. mailbox > 0 /\ mailbox' = mailbox - 1 /\ mailbox \in 0..MaxRevision
    BY DEF ReadBucket, CacheInv, CacheTypeOK
  <2>. QED BY <1>1, <2>1, CacheTypes
<1>5. CacheTypeOK'
  BY <1>1, <1>2, <1>3, <1>4 DEF CacheInv, CacheTypeOK, CacheHistory, Revision
<1>6. BucketIsBounded' /\ BucketsExpire' /\ \A r \in Asker : asker'[r].of <= revision'
  BY <1>1, <1>3 DEF CacheInv, BucketIsBounded, BucketsExpire
<1>7. Len(reader'.saw) <= BucketSize + cacheHist'.putBack
  BY <1>2, <1>3 DEF CacheInv, BucketIsBounded
<1>8. \A e \in ToSet(bucket') : WillGo(e)'
  BY <1>1, <1>2 DEF WillGo
<1>. QED BY <1>4, <1>5, <1>6, <1>7, <1>8 DEF CacheInv

\* What the rewrite leaves, of what was read: all that does not mention the chip.
LEMMA WhatRemains ==
  ASSUME CacheInv
  PROVE  /\ Remaining(reader.saw) \in Seq(Entry)
         /\ Len(Remaining(reader.saw)) <= Len(reader.saw)
         /\ ToSet(Remaining(reader.saw)) = {e \in ToSet(reader.saw) : Stays(e)}
         /\ \/ Len(Remaining(reader.saw)) < Len(reader.saw)
            \/ \A e \in ToSet(reader.saw) : Stays(e)
<1>1. reader.saw \in Seq(Entry) /\ ToSet(reader.saw) \subseteq Entry
  <2>1. reader.saw \in Seq(Entry)
    BY CacheTypes
  <2>. QED BY <2>1 DEF ToSet
<1> DEFINE T == {e \in Entry : Stays(e)}
<1>2. Remaining(reader.saw) = Those(reader.saw, T)
  BY DEF Remaining
<1>3. ToSet(reader.saw) \cap T = {e \in ToSet(reader.saw) : Stays(e)}
  BY <1>1
<1>4. ToSet(reader.saw) \subseteq T => \A e \in ToSet(reader.saw) : Stays(e)
  OBVIOUS
<1> HIDE DEF T
<1>. QED BY <1>1, <1>2, <1>3, <1>4, ThoseHold, ThoseShorten

LEMMA RewritingKeepsCacheInv ==
  ASSUME CacheInv, RewriteBucket
  PROVE  CacheInv'
<1> DEFINE left == Remaining(reader.saw)
<1>1. /\ left \in Seq(Entry) /\ Len(left) <= Len(reader.saw)
      /\ ToSet(left) = {e \in ToSet(reader.saw) : Stays(e)}
      /\ Len(left) < Len(reader.saw) \/ \A e \in ToSet(reader.saw) : Stays(e)
  BY WhatRemains
<1>2. /\ UNCHANGED <<revision, asker, listening, mailbox>>
      /\ reader' = Reading /\ reader.pc = "rewrite"
  BY DEF RewriteBucket
<1>3. \/ /\ bucket' = left /\ bucketTtl' = "none"
         /\ cacheHist' = [cacheHist EXCEPT !.unexpiring = left # <<>>,
                                           !.untrimmed = cacheHist.putBack]
      \/ /\ UNCHANGED <<bucket, bucketTtl, cacheHist>>
         /\ \A e \in ToSet(reader.saw) : Stays(e)
  BY <1>1 DEF RewriteBucket
<1> HIDE DEF left
<1>4. /\ Reading \in [pc : {"idle", "rewrite"}, saw : Seq(Entry)]
      /\ Reading.saw = <<>> /\ Reading.pc = "idle" /\ Len(<<>>) = 0
  <2>1. <<>> \in Seq(Entry)
    OBVIOUS
  <2>. QED BY <2>1 DEF Reading
<1>5. /\ cacheHist' \in CacheHistory
      /\ cacheHist'.putBack = cacheHist.putBack /\ cacheHist'.missed = cacheHist.missed
  <2>1. CASE cacheHist' = [cacheHist EXCEPT !.unexpiring = left # <<>>,
                                            !.untrimmed = cacheHist.putBack]
    BY <1>3, <2>1, CacheTypes DEF CacheHistory
  <2>2. CASE UNCHANGED cacheHist
    BY <1>3, <2>2, CacheTypes
  <2>. QED BY <1>3, <2>1, <2>2
<1>6. Len(reader'.saw) <= BucketSize + cacheHist'.putBack
  BY <1>2, <1>4, <1>5, CacheTypes DEF CacheHistory
<1>7. BucketIsBounded' /\ BucketsExpire'
  <2>1. CASE /\ bucket' = left /\ bucketTtl' = "none"
             /\ cacheHist' = [cacheHist EXCEPT !.unexpiring = left # <<>>,
                                               !.untrimmed = cacheHist.putBack]
    <3>1. cacheHist'.untrimmed = cacheHist.putBack /\ cacheHist'.unexpiring = (left # <<>>)
      BY <2>1, CacheTypes DEF CacheHistory
    <3>2. Len(left) <= BucketSize + cacheHist.putBack
      <4>1. Len(reader.saw) <= BucketSize + cacheHist.putBack /\ cacheHist.putBack \in Nat
        BY CacheTypes DEF CacheInv, CacheHistory
      <4>2. Len(left) \in Nat /\ Len(reader.saw) \in Nat
        BY <1>1, CacheTypes
      <4>. QED BY <1>1, <4>1, <4>2, CacheTypes
    <3>. QED BY <2>1, <3>1, <3>2 DEF BucketIsBounded, BucketsExpire
  <2>2. CASE UNCHANGED <<bucket, bucketTtl, cacheHist>>
    BY <1>2, <2>2 DEF CacheInv, BucketIsBounded, BucketsExpire
  <2>. QED BY <1>3, <2>1, <2>2
<1>8. /\ bucket' \in Seq(Entry) /\ bucketTtl' \in {"none", "conversational", "comparison"}
  BY <1>1, <1>3 DEF CacheInv, CacheTypeOK
<1>9. CacheTypeOK'
  BY <1>2, <1>4, <1>5, <1>8 DEF CacheInv, CacheTypeOK, CacheHistory, Revision
<1>10. ~cacheHist'.missed => \A e \in ToSet(bucket') : IsOutdated(e)' => WillGo(e)'
  <2>1. \A e : IsOutdated(e)' => IsOutdated(e) /\ ~Stays(e)
    BY <1>2 DEF IsOutdated, Stays
  <2>2. CASE bucket' = left
    BY <1>1, <2>1, <2>2
  <2>3. CASE UNCHANGED bucket /\ \A e \in ToSet(reader.saw) : Stays(e)
    BY <1>2, <1>5, <2>1, <2>3 DEF CacheInv, WillGo
  <2>. QED BY <1>3, <2>2, <2>3
<1>11. mailbox' <= revision' /\ \A r \in Asker : asker'[r].of <= revision'
  BY <1>2 DEF CacheInv
<1>. QED BY <1>6, <1>7, <1>9, <1>10, <1>11 DEF CacheInv

LEMMA CacheStepKeepsInv == CacheInv /\ [CacheNext]_cacheVars => CacheInv'
<1>. SUFFICES ASSUME CacheInv, [CacheNext]_cacheVars PROVE CacheInv'
  OBVIOUS
<1>1. ASSUME NEW r \in Asker, CacheStep(r) PROVE CacheInv'
  BY <1>1, LookingUpKeepsCacheInv, PushingKeepsCacheInv, TrimmingKeepsCacheInv,
     EndingKeepsCacheInv DEF CacheStep
<1>2. CASE UNCHANGED cacheVars
  BY <1>2 DEF cacheVars, CacheInv, CacheTypeOK, BucketIsBounded, BucketsExpire, IsOutdated, WillGo
<1>. QED BY <1>1, <1>2, ExpiringKeepsCacheInv, ChangesKeepCacheInv, StoppingKeepsCacheInv,
            ReadingKeepsCacheInv, RewritingKeepsCacheInv DEF CacheNext

LEMMA CacheInvIsComplete == CacheInv => InvalidationIsComplete
<1>. SUFFICES ASSUME CacheInv, mailbox = 0, reader.pc = "idle", ~cacheHist.missed,
                     NEW i \in DOMAIN bucket, Asks[bucket[i].by] \in AboutChip, ~bucket[i].late
              PROVE  bucket[i].of = revision
  BY DEF InvalidationIsComplete
<1>1. bucket[i] \in ToSet(bucket)
  BY CacheTypes DEF ToSet
<1>2. ~WillGo(bucket[i])
  BY DEF WillGo
<1>. QED BY <1>1, <1>2 DEF CacheInv, IsOutdated

LEMMA RewriteTakesNoOther ==
  ASSUME CacheInv, [CacheNext]_cacheVars, reader.pc = "rewrite", reader'.pc = "idle",
         NEW i \in DOMAIN bucket
  PROVE  \/ Asks[bucket[i].by] \in AboutChip
         \/ Contains(bucket', bucket[i])
         \/ ~Contains(reader.saw, bucket[i])
<1>1. RewriteBucket \/ HandlerFails
  BY DEF CacheNext, CacheStep, CacheGet, MakeAnswer, CachePush, CacheTrim, CacheExpire, PutFails,
         BucketExpires, ChipChanges, StopListening, ReadBucket, cacheVars
<1>2. bucket \in Seq(Entry) /\ bucket[i] \in ToSet(bucket)
  BY CacheTypes DEF ToSet
<1>3. bucket' = bucket => Contains(bucket', bucket[i])
  BY <1>2 DEF Contains
<1>4. CASE bucket' = Remaining(reader.saw)
  <2>1. SUFFICES ASSUME Contains(reader.saw, bucket[i]), Stays(bucket[i])
                 PROVE  Contains(bucket', bucket[i])
    BY DEF Stays
  <2>2. bucket[i] \in ToSet(reader.saw)
    BY <2>1, CacheTypes DEF Contains, ToSet
  <2>3. bucket[i] \in ToSet(bucket') /\ bucket' \in Seq(Entry)
    BY <1>4, <2>1, <2>2, WhatRemains
  <2>. QED BY <2>3 DEF Contains, ToSet
<1>. QED BY <1>1, <1>3, <1>4 DEF RewriteBucket, HandlerFails

\* Whatever is asked, put, trimmed and dropped meanwhile, in any order, with any
\* command failing: once the messages are handled the bucket has no answer that
\* a change of the chip made wrong, if none was lost and none was put late; what
\* is not about the chip stays; the list is bounded and expires
\* (semantic_cache.py, cache_invalidator.py).
THEOREM CacheFollowsItsChips == CacheSpec => CacheFollowsTheChips
<1>1. CacheInv => CacheTypeOK /\ InvalidationIsComplete /\ BucketIsBounded /\ BucketsExpire
  BY CacheInvIsComplete DEF CacheInv
<1>2. CacheInv /\ [CacheNext]_cacheVars =>
        [reader.pc = "rewrite" /\ reader'.pc = "idle" =>
           \A i \in DOMAIN bucket :
             Asks[bucket[i].by] \in AboutChip \/ Contains(bucket', bucket[i])
               \/ ~Contains(reader.saw, bucket[i])]_cacheVars
  BY RewriteTakesNoOther
<1>. QED BY <1>1, <1>2, CacheInitInv, CacheStepKeepsInv, PTL
         DEF CacheSpec, CacheFollowsTheChips, OnlyRacesDropAnswers

-----------------------------------------------------------------------------
(* The retrieval tools.  RetrievalInv: the candidates are what the two     *)
(* rounds returned, none twice, those of the first round in front; the     *)
(* results are made from them by a reranker, or are the first of them.     *)
(***************************************************************************)

Searching == {"encode", "search", "dense"}

\* In s, what is in H comes first.
Leads(s, H) == \A i, j \in DOMAIN s : s[i] \in H /\ s[j] \notin H => i < j

RetrievalInv ==
  /\ RetrievalTypeOK /\ NothingTwice /\ AskedPartLeads /\ NothingMeansNothing
  /\ IsInjective(found) /\ Leads(found, hits[1]) /\ ToSet(found) = hits[1] \cup hits[2]
  /\ seeker.at \in Searching =>
       /\ hits[2] = {} /\ ranked = <<>> /\ seeker.by = "none"
       /\ seeker.round = 1 => found = <<>>
  /\ seeker.at = "rerank" => found # <<>> /\ ranked = <<>> /\ seeker.by = "none"
  /\ seeker.at \in {"rerank", "boost"} => asks.tool = "rag_search"
  /\ seeker.at = "boost" => ranked # <<>>
  /\ asks.tool = "rag_search" /\ seeker.at \in Searching => errors \subseteq {"hybrid"}

Seeker == [call : Asked, round : 1..2,
           at : {"encode", "search", "dense", "rerank", "boost", "done", "raised"},
           by : {"none", "primary", "fallback"}]

LEMMA RetrievalTypes ==
  ASSUME RetrievalInv
  PROVE  /\ asks \in Asked /\ asks.tool \in {"rag_search", "knowledge_search"}
         /\ asks.topK \in Nat /\ asks.topK # 0
         /\ found \in Seq(Chunk) /\ ranked \in Seq(Chunk) /\ Len(found) \in Nat
         /\ DOMAIN found = 1..Len(found) /\ DOMAIN ranked = 1..Len(ranked)
         /\ collection \subseteq Chunk /\ seeker.round \in {1, 2} /\ seeker \in Seeker
         /\ hits \in [1..2 -> SUBSET Chunk] /\ IsInjective(found)
<1>1. asks \in Asked /\ Asked \subseteq [tool : {"rag_search", "knowledge_search"},
             part : PartNo \cup {AnyPart}, topK : Nat \ {0}, boost : BOOLEAN]
  BY RetrievalAssumption DEF RetrievalInv, RetrievalTypeOK, asks
<1>2. found \in Seq(Chunk) /\ ranked \in Seq(Chunk)
  BY DEF RetrievalInv, RetrievalTypeOK
<1>3. Len(found) \in Nat /\ DOMAIN found = 1..Len(found) /\ DOMAIN ranked = 1..Len(ranked)
  BY <1>2
<1>4. seeker \in Seeker /\ seeker.round \in {1, 2}
  <2>1. 1..2 = {1, 2}
    OBVIOUS
  <2>. QED BY <2>1 DEF RetrievalInv, RetrievalTypeOK, Seeker
<1>. QED BY <1>1, <1>2, <1>3, <1>4 DEF RetrievalInv, RetrievalTypeOK

LEMMA RetrievalInitInv == RetrievalInit => RetrievalInv
<1>. SUFFICES ASSUME RetrievalInit PROVE RetrievalInv
  OBVIOUS
<1>1. PICK c \in Asked : seeker = [call |-> c, round |-> 1, at |-> "encode", by |-> "none"]
  BY DEF RetrievalInit
<1>2. /\ <<>> \in Seq(Chunk) /\ ToSet(<<>>) = {} /\ DOMAIN <<>> = {}
      /\ <<{}, {}>> \in [1..2 -> SUBSET Chunk] /\ <<{}, {}>>[1] = {} /\ <<{}, {}>>[2] = {}
  BY DEF ToSet
<1>3. RetrievalTypeOK
  <2>1. seeker \in Seeker
    BY <1>1 DEF Seeker
  <2>2. 0 \in 0..MaxStoreChanges
    BY RetrievalAssumption
  <2>3. /\ found \in Seq(Chunk) /\ ranked \in Seq(Chunk) /\ hits \in [1..2 -> SUBSET Chunk]
        /\ collection \subseteq Chunk /\ boosted \in BOOLEAN /\ errors = {} /\ changes = 0
    BY <1>2 DEF RetrievalInit
  <2>. QED BY <2>1, <2>2, <2>3 DEF RetrievalTypeOK, Seeker
<1>4. NothingTwice /\ AskedPartLeads /\ NothingMeansNothing
  BY <1>1, <1>2 DEF RetrievalInit, NothingTwice, AskedPartLeads, NothingMeansNothing
<1>5. IsInjective(found) /\ Leads(found, hits[1]) /\ ToSet(found) = hits[1] \cup hits[2]
  BY <1>2 DEF RetrievalInit, IsInjective, Leads
<1>. QED BY <1>1, <1>2, <1>3, <1>4, <1>5 DEF RetrievalInit, RetrievalInv, Searching

-----------------------------------------------------------------------------
\* Results that are a prefix of the candidates, in their order.
LEMMA FirstOnes ==
  ASSUME NEW s \in Seq(Chunk), NEW n \in Nat, IsInjective(s)
  PROVE  /\ First(s, n) \in Seq(Chunk) /\ IsInjective(First(s, n))
         /\ ToSet(First(s, n)) \subseteq ToSet(s)
         /\ Len(First(s, n)) <= Len(s) /\ Len(First(s, n)) = Shortest(n, Len(s))
         /\ \A i \in 1..Len(First(s, n)) : First(s, n)[i] = s[i]
<1>1. Len(s) \in Nat
  OBVIOUS
<1>2. PICK m \in Nat : m = Shortest(n, Len(s)) /\ m <= Len(s)
  BY <1>1 DEF Shortest
<1>. QED BY <1>1, <1>2, PrefixHolds DEF First

\* What Milvus returns: chunks, none twice.
LEMMA SearchesReturn ==
  ASSUME RetrievalInv, NEW m \in {"hybrid", "dense"}
  PROVE  Returned(m) \in Seq(Chunk) /\ IsInjective(Returned(m))
<1>1. Ranking[m] \in Seq(Chunk) /\ IsInjective(Ranking[m])
  BY RetrievalAssumption
<1>2. Limit \in Nat
  BY RetrievalTypes DEF Limit
<1> DEFINE T == {c \in collection : Filter \in {AnyPart, PartOf[c]}}
<1>3. Those(Ranking[m], T) \in Seq(Chunk) /\ IsInjective(Those(Ranking[m], T))
  BY <1>1, ThoseHold, ThoseInjective
<1>4. Returned(m) = First(Those(Ranking[m], T), Limit)
  BY DEF Returned
<1> HIDE DEF T
<1>. QED BY <1>2, <1>3, <1>4, FirstOnes

\* What a search adds to the candidates.
LEMMA Expanded ==
  ASSUME NEW s \in Seq(Chunk), NEW more \in Seq(Chunk), IsInjective(s), IsInjective(more)
  PROVE  /\ WithExpansion(s, more) \in Seq(Chunk) /\ IsInjective(WithExpansion(s, more))
         /\ ToSet(WithExpansion(s, more)) = ToSet(s) \cup ToSet(more)
         /\ Leads(WithExpansion(s, more), ToSet(s))
<1> DEFINE t == Those(more, Chunk \ ToSet(s))
<1>1. ToSet(more) \subseteq Chunk
  BY DEF ToSet
<1>2. t \in Seq(Chunk) /\ ToSet(t) = ToSet(more) \cap (Chunk \ ToSet(s)) /\ IsInjective(t)
  BY ThoseHold, ThoseInjective
<1>3. WithExpansion(s, more) = s \o t
  BY DEF WithExpansion
<1> HIDE DEF t
<1>4. ToSet(t) = ToSet(more) \ ToSet(s)
  BY <1>1, <1>2
<1>5. ToSet(s \o t) = ToSet(s) \cup ToSet(more)
  BY <1>2, <1>4, ConcatHolds
<1>6. s \o t \in Seq(Chunk) /\ IsInjective(s \o t)
  BY <1>2, <1>4, ConcatInjective
<1>7. Leads(s \o t, ToSet(s))
  <2> DEFINE u == s \o t
  <2>1. /\ u \in Seq(Chunk) /\ Len(u) = Len(s) + Len(t)
        /\ \A i \in 1..(Len(s) + Len(t)) : u[i] = IF i <= Len(s) THEN s[i] ELSE t[i - Len(s)]
    BY <1>2, ConcatProperties
  <2>2. /\ DOMAIN u = 1..Len(u) /\ Len(s) \in Nat /\ Len(t) \in Nat
        /\ DOMAIN s = 1..Len(s) /\ DOMAIN t = 1..Len(t)
    BY <1>2, <2>1
  <2> HIDE DEF u
  <2>3. ASSUME NEW i \in DOMAIN u, i <= Len(s) PROVE u[i] \in ToSet(s)
    <3>1. i \in DOMAIN s /\ u[i] = s[i]
      BY <2>1, <2>2, <2>3
    <3>. QED BY <3>1 DEF ToSet
  <2>4. ASSUME NEW i \in DOMAIN u, ~(i <= Len(s)) PROVE u[i] \notin ToSet(s)
    <3>1. i - Len(s) \in DOMAIN t /\ u[i] = t[i - Len(s)]
      BY <2>1, <2>2, <2>4
    <3>2. u[i] \in ToSet(t)
      BY <3>1 DEF ToSet
    <3>. QED BY <1>4, <3>2
  <2>5. \A i, j \in DOMAIN u : i <= Len(s) /\ ~(j <= Len(s)) => i < j
    BY <2>2
  <2>6. Leads(u, ToSet(s))
    BY <2>3, <2>4, <2>5 DEF Leads
  <2>. QED BY <2>6 DEF u
<1>. QED BY <1>3, <1>5, <1>6, <1>7

\* The results of a search arrive, of this round or that.
LEMMA HitsKeepInv ==
  ASSUME RetrievalInv, seeker.at \in Searching,
         NEW more \in Seq(Chunk), IsInjective(more), TakeHits(more),
         UNCHANGED <<collection, boosted, errors, changes>>
  PROVE  RetrievalInv'
<1> DEFINE all == WithExpansion(found, more)
<1>1. /\ all \in Seq(Chunk) /\ IsInjective(all)
      /\ ToSet(all) = ToSet(found) \cup ToSet(more)
      /\ Leads(all, ToSet(found))
  BY Expanded, RetrievalTypes
<1>2. hits[2] = {} /\ ranked = <<>> /\ seeker.by = "none" /\ (seeker.round = 1 => found = <<>>)
  BY DEF RetrievalInv
<1>16. ToSet(found) = hits[1]
  <2>1. ToSet(found) = hits[1] \cup hits[2]
    BY DEF RetrievalInv
  <2>. QED BY <1>2, <2>1
<1>17. seeker.round \in {1, 2} /\ seeker \in Seeker
  BY RetrievalTypes
<1>15. ToSet(more) \in SUBSET Chunk
  BY DEF ToSet
<1>3. found' = all /\ hits' = [hits EXCEPT ![seeker.round] = ToSet(more)]
  BY DEF TakeHits
<1> HIDE DEF all
<1>4. hits' \in [1..2 -> SUBSET Chunk]
  BY <1>2, <1>15, <1>3, RetrievalTypes
<1>5. ToSet(found') = hits'[1] \cup hits'[2] /\ Leads(found', hits'[1])
  <2>1. CASE seeker.round = 1
    <3>1. hits'[1] = ToSet(more) /\ hits'[2] = {}
      <4>1. hits' = [hits EXCEPT ![1] = ToSet(more)] /\ hits \in [1..2 -> SUBSET Chunk]
        BY <1>3, <2>1, RetrievalTypes
      <4>. QED BY <1>2, <4>1
    <3>2. ToSet(found) = {}
      <4>1. found = <<>> /\ DOMAIN <<>> = {}
        BY <1>2, <2>1
      <4>. QED BY <4>1 DEF ToSet
    <3>3. ToSet(found') = hits'[1]
      BY <1>1, <1>3, <3>1, <3>2
    <3>4. \A i \in DOMAIN found' : found'[i] \in ToSet(found')
      BY <1>1, <1>3 DEF ToSet
    <3>. QED BY <3>1, <3>3, <3>4 DEF Leads
  <2>2. CASE seeker.round = 2
    <3>1. hits'[2] = ToSet(more) /\ hits'[1] = hits[1]
      <4>1. hits' = [hits EXCEPT ![2] = ToSet(more)] /\ hits \in [1..2 -> SUBSET Chunk]
        BY <1>3, <2>2, RetrievalTypes
      <4>. QED BY <4>1
    <3>2. Leads(found', hits'[1])
      BY <1>1, <1>16, <1>3, <3>1 DEF Leads
    <3>. QED BY <1>1, <1>2, <1>3, <1>16, <3>1, <3>2
  <2>. QED BY <1>17, <2>1, <2>2
<1>6. \/ /\ asks.tool = "knowledge_search" /\ seeker' = [seeker EXCEPT !.at = "done"]
         /\ ranked' = found'
      \/ /\ asks.tool = "rag_search" /\ seeker' = [seeker EXCEPT !.round = 2, !.at = "encode"]
         /\ ranked' = <<>>
      \/ /\ asks.tool = "rag_search" /\ seeker' = [seeker EXCEPT !.at = "done"]
         /\ ranked' = <<>> /\ found' = <<>>
      \/ /\ asks.tool = "rag_search" /\ seeker' = [seeker EXCEPT !.at = "rerank"]
         /\ ranked' = <<>> /\ found' # <<>>
  BY <1>2, RetrievalTypes DEF TakeHits
<1>7. seeker'.by = "none" /\ asks' = asks /\ seeker' \in Seeker
  <2>1. PICK x \in Seeker : seeker' = x /\ x.call = seeker.call /\ x.by = "none"
    <3>1. CASE seeker' = [seeker EXCEPT !.at = "done"]
      BY <1>2, <1>17, <3>1 DEF Seeker
    <3>2. CASE seeker' = [seeker EXCEPT !.round = 2, !.at = "encode"]
      <4>1. 2 \in 1..2
        OBVIOUS
      <4>2. /\ [seeker EXCEPT !.round = 2, !.at = "encode"] \in Seeker
            /\ [seeker EXCEPT !.round = 2, !.at = "encode"].call = seeker.call
            /\ [seeker EXCEPT !.round = 2, !.at = "encode"].by = seeker.by
        BY <1>17, <4>1 DEF Seeker
      <4>. QED BY <1>2, <3>2, <4>2
    <3>3. CASE seeker' = [seeker EXCEPT !.at = "rerank"]
      BY <1>2, <1>17, <3>3 DEF Seeker
    <3>. QED BY <1>6, <3>1, <3>2, <3>3
  <2>. QED BY <2>1 DEF asks
<1>8. ranked' \in Seq(Chunk) /\ NothingTwice'
  <2>1. <<>> \in Seq(Chunk) /\ DOMAIN <<>> = {}
    OBVIOUS
  <2>2. CASE ranked' = found'
    BY <1>1, <1>3, <2>2 DEF NothingTwice, IsInjective
  <2>3. CASE ranked' = <<>>
    BY <2>1, <2>3 DEF NothingTwice
  <2>. QED BY <1>6, <2>2, <2>3
<1>9. RetrievalTypeOK'
  BY <1>1, <1>3, <1>4, <1>7, <1>8 DEF RetrievalInv, RetrievalTypeOK, Seeker
<1>10. AskedPartLeads'
  BY <1>7 DEF AskedPartLeads
<1>11. NothingMeansNothing'
  <2>1. SUFFICES ASSUME asks.tool = "rag_search", found' = <<>>
                 PROVE  hits' = <<{}, {}>> /\ errors' \subseteq {"hybrid"}
    <3>1. seeker' = [seeker EXCEPT !.round = 2, !.at = "encode"] => seeker'.at = "encode"
      BY <1>17 DEF Seeker
    <3>2. seeker' = [seeker EXCEPT !.at = "rerank"] => seeker'.at = "rerank"
      BY <1>17 DEF Seeker
    <3>3. asks.tool = "rag_search" /\ seeker'.at = "done" => found' = <<>>
      BY <1>6, <3>1, <3>2
    <3>. QED BY <1>7, <3>3 DEF NothingMeansNothing
  <2>2. hits'[1] = {} /\ hits'[2] = {}
    BY <1>5, <2>1 DEF ToSet
  <2>3. hits' = <<{}, {}>>
    BY <1>4, <2>2
  <2>. QED BY <2>1, <2>3 DEF RetrievalInv
<1>12. asks.tool = "rag_search" => errors' \subseteq {"hybrid"}
  BY DEF RetrievalInv
<1>13. IsInjective(found')
  BY <1>1, <1>3
<1>14. /\ seeker'.at \in Searching =>
            /\ hits'[2] = {} /\ ranked' = <<>> /\ seeker'.by = "none"
            /\ seeker'.round = 1 => found' = <<>>
       /\ seeker'.at = "rerank" => found' # <<>> /\ ranked' = <<>> /\ seeker'.by = "none"
       /\ seeker'.at \in {"rerank", "boost"} => asks'.tool = "rag_search"
       /\ seeker'.at # "boost"
  <2>1. CASE seeker' = [seeker EXCEPT !.round = 2, !.at = "encode"]
    <3>1. seeker'.at = "encode" /\ seeker'.round = 2
      BY <1>2, <1>17, <2>1 DEF Seeker
    <3>2. asks.tool = "rag_search" /\ ranked' = <<>> /\ seeker.round = 1
      BY <1>2, <1>17, <1>6, <2>1, <3>1, RetrievalTypes DEF TakeHits, Seeker
    <3>3. hits'[2] = {}
      <4>1. hits' = [hits EXCEPT ![1] = ToSet(more)] /\ hits \in [1..2 -> SUBSET Chunk]
        BY <1>3, <3>2, RetrievalTypes
      <4>. QED BY <1>2, <4>1
    <3>. QED BY <1>7, <3>1, <3>2, <3>3
  <2>2. CASE seeker' = [seeker EXCEPT !.at = "done"]
    <3>1. seeker'.at = "done"
      BY <1>2, <1>17, <2>2 DEF Seeker
    <3>. QED BY <3>1 DEF Searching
  <2>3. CASE seeker' = [seeker EXCEPT !.at = "rerank"]
    <3>1. seeker'.at = "rerank"
      BY <1>2, <1>17, <2>3 DEF Seeker
    <3>2. asks.tool = "rag_search" /\ ranked' = <<>> /\ found' # <<>>
      BY <1>2, <1>17, <1>6, <3>1 DEF Seeker
    <3>. QED BY <1>7, <3>1, <3>2 DEF Searching
  <2>. QED BY <1>6, <2>1, <2>2, <2>3
<1>. QED BY <1>5, <1>7, <1>8, <1>9, <1>10, <1>11, <1>12, <1>13, <1>14 DEF RetrievalInv

\* A call that goes on, or ends, with the candidates it has; what it has found
\* and what it answers stay as they are.
LEMMA MovesKeepInv ==
  ASSUME RetrievalInv, seeker.at \in Searching,
         NEW place \in {"search", "dense", "done", "raised"}, GoTo(place),
         errors' \subseteq {"encode", "hybrid", "dense", "rerank", "graph"},
         place \in Searching => errors' \subseteq errors \cup {"hybrid"},
         place = "done" => asks.tool = "knowledge_search",
         UNCHANGED <<collection, found, ranked, boosted, hits, changes>>
  PROVE  RetrievalInv'
<1>1. /\ seeker' \in Seeker /\ seeker'.at = place /\ seeker'.by = seeker.by
      /\ seeker'.call = seeker.call /\ seeker'.round = seeker.round
  <2>1. seeker' = [seeker EXCEPT !.at = place] /\ seeker \in Seeker
    BY RetrievalTypes DEF GoTo
  <2>. QED BY <2>1 DEF Seeker
<1>2. asks' = asks
  BY <1>1 DEF asks
<1>3. RetrievalTypeOK'
  BY <1>1 DEF RetrievalInv, RetrievalTypeOK, Seeker
<1>4. NothingTwice' /\ AskedPartLeads' /\ NothingMeansNothing'
  BY <1>1, <1>2 DEF RetrievalInv, NothingTwice, AskedPartLeads, NothingMeansNothing
<1>5. IsInjective(found') /\ Leads(found', hits'[1]) /\ ToSet(found') = hits'[1] \cup hits'[2]
  BY DEF RetrievalInv
<1>6. asks.tool = "rag_search" /\ place \in Searching => errors' \subseteq {"hybrid"}
  BY DEF RetrievalInv
<1>7. /\ hits'[2] = {} /\ ranked' = <<>> /\ seeker'.by = "none"
      /\ seeker'.round = 1 => found' = <<>>
  BY <1>1 DEF RetrievalInv
<1>. QED BY <1>1, <1>2, <1>3, <1>4, <1>5, <1>6, <1>7 DEF RetrievalInv, Searching

LEMMA EndsKeepInv ==
  ASSUME RetrievalInv, Encode \/ EncodeFails \/ HybridFails \/ DenseFails
  PROVE  RetrievalInv'
<1>1. /\ errors \subseteq {"encode", "hybrid", "dense", "rerank", "graph"}
      /\ asks.tool \in {"rag_search", "knowledge_search"}
  BY RetrievalTypes DEF RetrievalInv, RetrievalTypeOK
<1>2. CASE Encode
  <2>1. PICK place \in {"search", "dense"} : GoTo(place)
    BY <1>2 DEF Encode
  <2>2. seeker.at \in Searching /\ place \in {"search", "dense", "done", "raised"} /\ place # "done"
    BY <1>2, <2>1 DEF Encode, Searching
  <2>. QED BY <1>1, <1>2, <2>1, <2>2, MovesKeepInv DEF Encode
<1>3. CASE HybridFails
  <2>1. "dense" \in {"search", "dense", "done", "raised"} /\ seeker.at \in Searching
    BY <1>3 DEF HybridFails, Searching
  <2>. QED BY <1>1, <1>3, <2>1, MovesKeepInv DEF HybridFails
<1>4. CASE EncodeFails \/ DenseFails
  <2>1. seeker.at \in Searching /\ Fail
    BY <1>4 DEF EncodeFails, DenseFails, Searching
  <2>2. PICK place \in {"raised", "done"} :
            GoTo(place) /\ (place = "done" => asks.tool = "knowledge_search")
    BY <1>1, <2>1 DEF Fail
  <2>3. /\ place \in {"search", "dense", "done", "raised"} /\ place \notin Searching
        /\ errors' \subseteq {"encode", "hybrid", "dense", "rerank", "graph"}
        /\ UNCHANGED <<collection, found, ranked, boosted, hits, changes>>
    BY <1>1, <1>4 DEF EncodeFails, DenseFails, Searching
  <2>. QED BY <2>1, <2>2, <2>3, MovesKeepInv
<1>. QED BY <1>2, <1>3, <1>4

LEMMA SearchesKeepInv ==
  ASSUME RetrievalInv, HybridSearch \/ DenseSearch
  PROVE  RetrievalInv'
<1>1. PICK m \in {"hybrid", "dense"} : TakeHits(Returned(m))
  BY DEF HybridSearch, DenseSearch
<1>2. seeker.at \in Searching /\ UNCHANGED <<collection, boosted, errors, changes>>
  BY DEF HybridSearch, DenseSearch, Searching
<1>3. Returned(m) \in Seq(Chunk) /\ IsInjective(Returned(m))
  BY SearchesReturn
<1>. QED BY <1>1, <1>2, <1>3, HitsKeepInv

\* The first candidates, if the reranker is down.
LEMMA FallbackLeads ==
  ASSUME RetrievalInv
  PROVE  /\ Leads(First(found, asks.topK), hits[1])
         /\ \A j \in DOMAIN First(found, asks.topK) :
              First(found, asks.topK)[j] \notin hits[1] =>
                hits[1] \subseteq ToSet(First(found, asks.topK))
<1> DEFINE p == First(found, asks.topK)
<1>1. /\ p \in Seq(Chunk) /\ Len(p) <= Len(found) /\ DOMAIN p = 1..Len(p) /\ Len(p) \in Nat
      /\ \A i \in 1..Len(p) : p[i] = found[i]
  BY RetrievalTypes, FirstOnes
<1> HIDE DEF p
<1>2. DOMAIN found = 1..Len(found) /\ Len(found) \in Nat
  BY RetrievalTypes
<1>3. \A i \in DOMAIN p : i \in DOMAIN found /\ p[i] = found[i]
  BY <1>1, <1>2
<1>4. Leads(found, hits[1]) /\ hits[1] \subseteq ToSet(found)
  BY DEF RetrievalInv
<1>5. Leads(p, hits[1])
  BY <1>3, <1>4 DEF Leads
<1>6. ASSUME NEW j \in DOMAIN p, p[j] \notin hits[1], NEW c \in hits[1]
      PROVE  c \in ToSet(p)
  <2>1. PICK i \in DOMAIN found : found[i] = c
    BY <1>4 DEF ToSet
  <2>2. i < j
    BY <1>3, <1>4, <1>6, <2>1 DEF Leads
  <2>3. i \in DOMAIN p /\ p[i] = c
    BY <1>1, <1>2, <2>1, <2>2
  <2>. QED BY <2>3 DEF ToSet
<1>. QED BY <1>5, <1>6 DEF p

LEMMA RerankingKeepsInv ==
  ASSUME RetrievalInv, Rerank \/ RerankFails
  PROVE  RetrievalInv'
<1>1. /\ seeker.at = "rerank" /\ found # <<>> /\ asks.tool = "rag_search"
      /\ UNCHANGED <<collection, found, boosted, hits, changes>>
  BY DEF Rerank, RerankFails, RetrievalInv
<1>2. PICK who \in {"primary", "fallback"} :
        /\ seeker' = [seeker EXCEPT !.at = "boost", !.by = who]
        /\ who = "fallback" => ranked' = First(found, asks.topK)
  BY DEF Rerank, RerankFails
<1>3. /\ seeker' \in Seeker /\ seeker'.at = "boost" /\ seeker'.by = who
      /\ seeker'.call = seeker.call /\ asks' = asks
  <2>1. seeker \in Seeker
    BY RetrievalTypes
  <2>2. /\ [seeker EXCEPT !.at = "boost", !.by = who] \in Seeker
        /\ [seeker EXCEPT !.at = "boost", !.by = who].at = "boost"
        /\ [seeker EXCEPT !.at = "boost", !.by = who].by = who
        /\ [seeker EXCEPT !.at = "boost", !.by = who].call = seeker.call
    BY <2>1 DEF Seeker
  <2>. QED BY <1>2, <2>2 DEF asks
<1>4. /\ found \in Seq(Chunk) /\ IsInjective(found) /\ Len(found) \in Nat /\ Len(found) # 0
      /\ asks.topK \in Nat /\ asks.topK # 0
  <2>1. found \in Seq(Chunk)
    BY RetrievalTypes
  <2>2. Len(found) # 0
    BY <1>1, <2>1
  <2>. QED BY <2>2, RetrievalTypes
<1>5. PICK n \in Nat : n = Shortest(asks.topK, Len(found)) /\ n # 0
  BY <1>4 DEF Shortest
<1>6. ranked' \in Seq(Chunk) /\ NothingTwice' /\ Len(ranked') = n
  <2>1. CASE Rerank
    <3>1. /\ ranked' \in [1..n -> ToSet(found)]
          /\ \A i, j \in DOMAIN ranked' : ranked'[i] = ranked'[j] => i = j
      BY <1>5, <2>1 DEF Rerank, Orders
    <3>2. ToSet(found) \subseteq Chunk
      BY <1>4 DEF ToSet
    <3>3. ranked' \in [1..n -> Chunk]
      BY <3>1, <3>2
    <3>. QED BY <3>1, <3>3 DEF NothingTwice
  <2>2. CASE RerankFails
    <3>1. /\ ranked' = First(found, asks.topK)
      BY <2>2 DEF RerankFails
    <3>2. ranked' \in Seq(Chunk) /\ IsInjective(ranked') /\ Len(ranked') = n
      BY <1>4, <1>5, <3>1, FirstOnes
    <3>. QED BY <3>2 DEF NothingTwice, IsInjective
  <2>. QED BY <2>1, <2>2
<1>7. ranked' # <<>>
  BY <1>5, <1>6
<1>8. errors' \subseteq {"encode", "hybrid", "dense", "rerank", "graph"}
  BY DEF Rerank, RerankFails, RetrievalInv, RetrievalTypeOK
<1>9. RetrievalTypeOK'
  BY <1>1, <1>3, <1>6, <1>8 DEF RetrievalInv, RetrievalTypeOK, Seeker
<1>10. AskedPartLeads'
  <2>1. SUFFICES ASSUME who = "fallback" PROVE AskedPartLeads'
    BY <1>3 DEF AskedPartLeads
  <2>2. ranked' = First(found, asks.topK)
    BY <1>2, <2>1
  <2>. QED BY <1>1, <2>2, FallbackLeads DEF AskedPartLeads, Leads
<1>11. NothingMeansNothing'
  BY <1>7 DEF NothingMeansNothing
<1>12. IsInjective(found') /\ Leads(found', hits'[1]) /\ ToSet(found') = hits'[1] \cup hits'[2]
  BY <1>1 DEF RetrievalInv
<1>. QED BY <1>1, <1>3, <1>6, <1>7, <1>9, <1>10, <1>11, <1>12 DEF RetrievalInv, Searching

LEMMA BoostingKeepsInv ==
  ASSUME RetrievalInv, Boost
  PROVE  RetrievalInv'
<1>1. /\ seeker.at = "boost" /\ ranked # <<>> /\ GoTo("done")
      /\ UNCHANGED <<collection, found, ranked, hits, changes>>
  BY DEF Boost, RetrievalInv
<1>2. /\ seeker' \in Seeker /\ seeker'.at = "done" /\ seeker'.by = seeker.by /\ asks' = asks
  <2>1. seeker' = [seeker EXCEPT !.at = "done"] /\ seeker \in Seeker
    BY <1>1, RetrievalTypes DEF GoTo
  <2>2. seeker' \in Seeker /\ seeker'.at = "done" /\ seeker'.by = seeker.by /\ seeker'.call = seeker.call
    BY <2>1 DEF Seeker
  <2>. QED BY <2>2 DEF asks
<1>3. /\ boosted' \in BOOLEAN
      /\ errors' \subseteq {"encode", "hybrid", "dense", "rerank", "graph"}
  BY DEF Boost, RetrievalInv, RetrievalTypeOK
<1>4. RetrievalTypeOK'
  BY <1>1, <1>2, <1>3 DEF RetrievalInv, RetrievalTypeOK, Seeker
<1>5. NothingTwice' /\ AskedPartLeads' /\ NothingMeansNothing'
  BY <1>1, <1>2 DEF RetrievalInv, NothingTwice, AskedPartLeads, NothingMeansNothing
<1>6. IsInjective(found') /\ Leads(found', hits'[1]) /\ ToSet(found') = hits'[1] \cup hits'[2]
  BY <1>1 DEF RetrievalInv
<1>. QED BY <1>1, <1>2, <1>4, <1>5, <1>6 DEF RetrievalInv, Searching

LEMMA StoreChangesKeepInv ==
  ASSUME RetrievalInv, StoreChanges \/ UNCHANGED retrievalVars
  PROVE  RetrievalInv'
<1>1. UNCHANGED <<seeker, found, ranked, boosted, errors, hits>>
  BY DEF StoreChanges, retrievalVars
<1>2. collection' \subseteq Chunk /\ changes' \in 0..MaxStoreChanges
  <2>1. collection \subseteq Chunk /\ changes \in 0..MaxStoreChanges /\ MaxStoreChanges \in Nat
    BY RetrievalAssumption DEF RetrievalInv, RetrievalTypeOK
  <2>2. CASE StoreChanges
    BY <2>1, <2>2 DEF StoreChanges
  <2>. QED BY <2>1, <2>2 DEF retrievalVars
<1>3. RetrievalTypeOK'
  BY <1>1, <1>2 DEF RetrievalInv, RetrievalTypeOK
<1>. QED BY <1>1, <1>3 DEF RetrievalInv, NothingTwice, AskedPartLeads, NothingMeansNothing, asks

LEMMA RetrievalStepKeepsInv == RetrievalInv /\ [RetrievalNext]_retrievalVars => RetrievalInv'
BY EndsKeepInv, SearchesKeepInv, RerankingKeepsInv, BoostingKeepsInv, StoreChangesKeepInv
   DEF RetrievalNext

\* Two searches over a store that changes between them, in two different orders,
\* and a reranker that may be down: what is handed over was found, no chunk
\* twice, the part that was asked for first; and nothing is said to be there
\* only when no search brought anything (rag_search.py, hybrid_search.py,
\* reranker.py).
THEOREM ResultsStayTrue == RetrievalSpec => []ResultsAreWhatWasFound
<1>1. RetrievalInv => ResultsAreWhatWasFound
  BY DEF RetrievalInv, ResultsAreWhatWasFound
<1>. QED BY <1>1, RetrievalInitInv, RetrievalStepKeepsInv, PTL DEF RetrievalSpec
=================================================================================
