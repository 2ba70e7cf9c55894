------------------------------- MODULE Retrieval -------------------------------
(***************************************************************************)
(* The retrieval tools of the agent: rag_search (hybrid search, co-mention *)
(* expansion, reranking and the graph boost) and knowledge_search, over    *)
(* Milvus collections that other requests change meanwhile                 *)
(* (src/agent/tools/{rag,knowledge}_search.py, src/retrieval/,             *)
(* src/libs/vector_store/milvus_store.py).  One call is followed.          *)
(***************************************************************************)
EXTENDS Integers, Sequences, SequencesExt, Lists

CONSTANTS
  Chunk,           \* chunks of datasheets
  PartNo,          \* part numbers
  PartOf,          \* PartOf[c]: the part number stored with the chunk
  Ranking,         \* Ranking[m]: the order in which Milvus returns chunks to
                   \* search m: "hybrid" or "dense"
  Asked,           \* the calls: records of tool, part, topK, and boost
  SparseMethod,    \* retrieval.sparse_method: "bgem3", "bm25" or "dense"
  RetrievalFaults, \* subset of {"encode", "hybrid", "dense", "rerank", "graph"}
  MaxStoreChanges  \* bound: chunks added or removed meanwhile

AnyPart == "any"

ASSUME RetrievalAssumption ==
  /\ PartOf \in [Chunk -> PartNo] /\ AnyPart \notin PartNo
  /\ Ranking \in [{"hybrid", "dense"} -> Seq(Chunk)]
  /\ \A m \in DOMAIN Ranking : IsInjective(Ranking[m])
  /\ Asked \subseteq [tool : {"rag_search", "knowledge_search"}, part : PartNo \cup {AnyPart},
                      topK : Nat \ {0}, boost : BOOLEAN]
  /\ SparseMethod \in {"bgem3", "bm25", "dense"}
  /\ RetrievalFaults \subseteq {"encode", "hybrid", "dense", "rerank", "graph"}
  /\ MaxStoreChanges \in Nat

VARIABLES
  collection,  \* the chunks in datasheet_chunks
  seeker,      \* the call: what it asks, the round of its search, how it stands
  found,       \* the candidates, in order
  ranked,      \* the results, in order
  boosted,     \* whether the scores were raised by the graph
  errors,      \* the calls that failed
  hits,        \* history: what the searches of each round returned
  changes      \* changes of the store so far

retrievalVars == <<collection, seeker, found, ranked, boosted, errors, hits, changes>>

\* The fields of the two collections that a search may ask for.
Fields == [rag_search |-> {"chunk_id", "chip_id", "part_number", "page", "section", "content"},
           knowledge_search |-> {"note_id", "user_id", "chip_id", "note_type", "content", "tags"}]

OutputFields == {"chunk_id", "chip_id", "part_number", "page", "section", "content"}

RetrievalTypeOK ==
  /\ collection \subseteq Chunk
  /\ seeker \in [call : Asked, round : 1..2,
                 at : {"encode", "search", "dense", "rerank", "boost", "done", "raised"},
                 by : {"none", "primary", "fallback"}]
  /\ found \in Seq(Chunk) /\ ranked \in Seq(Chunk)
  /\ boosted \in BOOLEAN
  /\ errors \subseteq {"encode", "hybrid", "dense", "rerank", "graph"}
  /\ hits \in [1..2 -> SUBSET Chunk]
  /\ changes \in 0..MaxStoreChanges

RetrievalInit ==
  /\ collection \in SUBSET Chunk
  /\ \E c \in Asked : seeker = [call |-> c, round |-> 1, at |-> "encode", by |-> "none"]
  /\ found = <<>> /\ ranked = <<>> /\ boosted = FALSE
  /\ errors = {} /\ hits = <<{}, {}>> /\ changes = 0

-----------------------------------------------------------------------------

asks == seeker.call

GoTo(place) == seeker' = [seeker EXCEPT !.at = place]

\* rag_search lets the error of a search out; knowledge_search answers nothing.
Fail == GoTo(IF asks.tool = "rag_search" THEN "raised" ELSE "done")

Shortest(m, n) == IF m < n THEN m ELSE n

First(s, n) == SubSeq(s, 1, Shortest(n, Len(s)))

\* knowledge_search fetches top_k notes; rag_search more, for the reranker.
Limit == IF asks.tool = "rag_search" THEN 3 * asks.topK ELSE asks.topK

\* The filter of this round: the second one drops the part number.
Filter == IF seeker.round = 1 THEN asks.part ELSE AnyPart

\* What Milvus returns to a search (external).
Returned(m) == First(Those(Ranking[m], {c \in collection : Filter \in {AnyPart, PartOf[c]}}), Limit)

\* Mutant: the wider search comes first.
WithExpansionFirst(s, more) == more \o Those(s, Chunk \ ToSet(more))

\* The chunks of the wider search follow, those known already left out.
WithExpansion(s, more) == s \o Those(more, Chunk \ ToSet(s))

\* Few hits for a part number: search again without it.
Expands(n) == asks.part # AnyPart /\ n < asks.topK

\* The results of a search arrive.
TakeHits(more) ==
  /\ found' = WithExpansion(found, more)
  /\ hits' = [hits EXCEPT ![seeker.round] = ToSet(more)]
  /\ seeker' = IF asks.tool = "knowledge_search" THEN [seeker EXCEPT !.at = "done"]
               ELSE IF seeker.round = 1 /\ Expands(Len(more))
                 THEN [seeker EXCEPT !.round = 2, !.at = "encode"]
               ELSE IF found' = <<>> THEN [seeker EXCEPT !.at = "done"]
               ELSE [seeker EXCEPT !.at = "rerank"]
  /\ ranked' = IF asks.tool = "knowledge_search" THEN found' ELSE ranked

\* The query is embedded; the clients have retried already.
Encode ==
  /\ seeker.at = "encode"
  /\ GoTo(IF SparseMethod = "dense" THEN "dense" ELSE "search")
  /\ UNCHANGED <<collection, found, ranked, boosted, errors, hits, changes>>

EncodeFails ==
  /\ seeker.at = "encode" /\ "encode" \in RetrievalFaults
  /\ Fail /\ errors' = errors \cup {"encode"}
  /\ UNCHANGED <<collection, found, ranked, boosted, hits, changes>>

\* A collection without the fields the store asks for refuses every search.
Answers == OutputFields \subseteq Fields[asks.tool]

HybridSearch ==
  /\ seeker.at = "search" /\ Answers
  /\ TakeHits(Returned("hybrid"))
  /\ UNCHANGED <<collection, boosted, errors, changes>>

\* The dense search takes over.
HybridFails ==
  /\ seeker.at = "search" /\ ("hybrid" \in RetrievalFaults \/ ~Answers)
  /\ GoTo("dense") /\ errors' = errors \cup {"hybrid"}
  /\ UNCHANGED <<collection, found, ranked, boosted, hits, changes>>

DenseSearch ==
  /\ seeker.at = "dense" /\ Answers
  /\ TakeHits(Returned("dense"))
  /\ UNCHANGED <<collection, boosted, errors, changes>>

\* Nothing takes over.
DenseFails ==
  /\ seeker.at = "dense" /\ ("dense" \in RetrievalFaults \/ ~Answers)
  /\ Fail /\ errors' = errors \cup {"dense"}
  /\ UNCHANGED <<collection, found, ranked, boosted, hits, changes>>

\* Orders in which a reranker may return the best top_k candidates.
Orders ==
  {s \in [1..Shortest(asks.topK, Len(found)) -> ToSet(found)] :
     \A i, j \in DOMAIN s : s[i] = s[j] => i = j}

Rerank ==
  /\ seeker.at = "rerank"
  /\ ranked' \in Orders
  /\ seeker' = [seeker EXCEPT !.at = "boost", !.by = "primary"]
  /\ UNCHANGED <<collection, found, boosted, errors, hits, changes>>

\* NoneReranker keeps the order of the candidates.
RerankFails ==
  /\ seeker.at = "rerank" /\ "rerank" \in RetrievalFaults
  /\ ranked' = First(found, asks.topK)
  /\ seeker' = [seeker EXCEPT !.at = "boost", !.by = "fallback"]
  /\ errors' = errors \cup {"rerank"}
  /\ UNCHANGED <<collection, found, boosted, hits, changes>>

\* A chip with neighbours in the graph raises every score alike; an error of
\* the graph is logged.
Boost ==
  /\ seeker.at = "boost" /\ GoTo("done")
  /\ \/ asks.boost /\ asks.part # AnyPart /\ boosted' = TRUE /\ UNCHANGED errors
     \/ UNCHANGED <<boosted, errors>>
     \/ /\ asks.boost /\ asks.part # AnyPart /\ "graph" \in RetrievalFaults
        /\ errors' = errors \cup {"graph"} /\ UNCHANGED boosted
  /\ UNCHANGED <<collection, found, ranked, hits, changes>>

\* Another request ingests or deletes a document (external to the call).
StoreChanges ==
  /\ changes < MaxStoreChanges /\ changes' = changes + 1
  /\ \E c \in Chunk : collection' = IF c \in collection THEN collection \ {c} ELSE collection \cup {c}
  /\ UNCHANGED <<seeker, found, ranked, boosted, errors, hits>>

-----------------------------------------------------------------------------

RetrievalNext ==
  \/ Encode \/ EncodeFails
  \/ HybridSearch \/ HybridFails \/ DenseSearch \/ DenseFails
  \/ Rerank \/ RerankFails \/ Boost
  \/ StoreChanges

RetrievalSpec == RetrievalInit /\ [][RetrievalNext]_retrievalVars

\* No chunk is handed to the model twice, though two searches over a store that
\* changes between them, in two different orders, contribute to the results.
NothingTwice == \A i, j \in DOMAIN ranked : ranked[i] = ranked[j] => i = j

\* When the reranker is down, what the search for the part itself found comes
\* before what only the expansion brought, and is left out for none of it.
AskedPartLeads ==
  seeker.by = "fallback" =>
    /\ \A i, j \in DOMAIN ranked : ranked[i] \in hits[1] /\ ranked[j] \notin hits[1] => i < j
    /\ \A j \in DOMAIN ranked : ranked[j] \notin hits[1] => hits[1] \subseteq ToSet(ranked)

\* rag_search says there is nothing only when no search of it, the wider one
\* included, brought a chunk, and none of them had failed for good.
NothingMeansNothing ==
  asks.tool = "rag_search" /\ seeker.at = "done" /\ ranked = <<>> =>
    hits = <<{}, {}>> /\ errors \subseteq {"hybrid"}

\* "Search team knowledge notes and insights about chips."
\* (src/agent/tools/knowledge_search.py:25): a search of the notes that
\* meets no fault is carried out.
KnowledgeIsSearched ==
  asks.tool = "knowledge_search" /\ seeker.at = "done" => errors \subseteq RetrievalFaults

\* Results are those of the searches: no chunk twice, the part that was asked
\* for first, and none only when there is none.
ResultsAreWhatWasFound ==
  RetrievalTypeOK /\ NothingTwice /\ AskedPartLeads /\ NothingMeansNothing
=============================================================================
