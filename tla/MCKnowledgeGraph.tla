--------------------------- MODULE MCKnowledgeGraph ---------------------------
(* Instances of KnowledgeGraph for TLC. *)
EXTENDS KnowledgeGraph

\* Two documents of the same chip.  The first may name an alternative, the
\* second one that is the chip itself; the second mentions a third chip.
SameChip == [i \in Ingestion |-> "A"]
Kinds == [i \in Ingestion |-> IF i = "i1" THEN {"param", "errata"} ELSE {"param", "rule"}]
Named == [i \in Ingestion |-> IF i = "i1" THEN {"B"} ELSE {"A"}]
OftenMentioned == [i \in Ingestion |-> IF i = "i1" THEN {} ELSE {"C"}]
=============================================================================
