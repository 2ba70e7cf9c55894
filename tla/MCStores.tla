------------------------------- MODULE MCStores -------------------------------
(* The stores behind the answers, side by side: a behaviour is one of the   *)
(* part it starts with, the other parts keep one initial state.             *)
EXTENDS ConversationMemory, MCSignIn, MCKnowledgeGraph,
        LongTermMemory, SemanticCache, Retrieval

VARIABLE part  \* the part that moves

StoreParts == {"conversation", "sign in", "memory", "cache", "retrieval", "knowledge"}

Roles == {"user", "assistant"}

\* Requests 1..3 come in; 11 and 12 are in a list of an older version.
Requests == 1..3 \cup {11, 12}
OldList == <<11, 12>>

\* Turns of two characters; 1 gets no answer, 3 a long one.
Lengths ==
  [r \in Requests |-> [role \in Roles |->
     IF role = "user" THEN 2 ELSE IF r = 1 THEN 0 ELSE IF r = 3 THEN 6 ELSE 2]]

\* Two questions ask to remember something, and one answer is important.
Pins == {[of |-> r, role |-> "user"] : r \in {2, 11}}
        \cup {[of |-> 12, role |-> "assistant"]}

\* Two users, each asks once and both in almost the same words.
UserOf == [q \in Query |-> IF q = "q1" THEN "u1" ELSE "u2"]
WordsOf == [q \in Query |-> IF q = "q1" THEN {"w"} ELSE {"v"}]
AllAlike == Word \X Word

\* A question about the chip, and two times another one.
QuestionOf == [r \in Asker |-> IF r = 1 THEN "compare" ELSE "other"]
EachItself == [q \in {"compare", "other"} |-> {q}]

\* Two parts take turns, and the two searches rank in opposite orders.
PartOfChunk == [c \in Chunk |-> IF c \in {1, 3} THEN "a" ELSE "b"]
OppositeOrders == [hybrid |-> <<1, 2, 3, 4>>, dense |-> <<4, 3, 2, 1>>]

Searches ==
  [tool : {"rag_search"}, part : {"a", "any"}, topK : {1, 2}, boost : {TRUE}]
    \cup {[tool |-> "rag_search", part |-> "a", topK |-> 2, boost |-> FALSE],
          [tool |-> "knowledge_search", part |-> "any", topK |-> 2, boost |-> TRUE]}

-----------------------------------------------------------------------------
StoresInit ==
  /\ IF part = "conversation" THEN TRUE ELSE store = Nothing
  /\ Init
  /\ IF part = "sign in" THEN TRUE ELSE setup = Lacking({}, "keycloak", Same)
  /\ SignInit
  /\ KnowledgeInit /\ MemoryInit
  /\ IF part = "cache" THEN TRUE ELSE listening = TRUE
  /\ CacheInit
  /\ IF part = "retrieval" THEN TRUE
     ELSE /\ collection = {}
          /\ seeker = [call |-> CHOOSE c \in Asked : TRUE, round |-> 1, at |-> "encode", by |-> "none"]
  /\ RetrievalInit

StoresNext ==
  \/ /\ part = "conversation" /\ Next
     /\ UNCHANGED <<signVars, graphVars, memoryVars, cacheVars, retrievalVars>>
  \/ /\ part = "sign in" /\ SignNext
     /\ UNCHANGED <<vars, graphVars, memoryVars, cacheVars, retrievalVars>>
  \/ /\ part = "knowledge" /\ KnowledgeNext
     /\ UNCHANGED <<vars, signVars, memoryVars, cacheVars, retrievalVars>>
  \/ /\ part = "memory" /\ MemoryNext
     /\ UNCHANGED <<vars, signVars, graphVars, cacheVars, retrievalVars>>
  \/ /\ part = "cache" /\ CacheNext
     /\ UNCHANGED <<vars, signVars, graphVars, memoryVars, retrievalVars>>
  \/ /\ part = "retrieval" /\ RetrievalNext
     /\ UNCHANGED <<vars, signVars, graphVars, memoryVars, cacheVars>>

storesVars == <<vars, signVars, graphVars, memoryVars, cacheVars, retrievalVars>>
=============================================================================
