--------------------------- MODULE CoordinatedDelete ---------------------------
(***************************************************************************)
(* DocumentManager.delete_document of src/ingestion/document_manager.py:   *)
(* one document is deleted from PostgreSQL, Milvus, the graph and the disk *)
(* in independent steps, each of which may fail and is then recorded.      *)
(*                                                                         *)
(* Several callers may delete the same document; their steps interleave.   *)
(* The statements name tables and columns that the schema of               *)
(* alembic/versions does not have; the model gives them the meaning the    *)
(* code intends.                                                           *)
(***************************************************************************)
EXTENDS Integers, FiniteSets

CONSTANTS
  Deleter,      \* callers of delete_document, for one document
  Store,        \* the stores the manager was given: of "pg", "milvus", "graph", "redis"
  DeleteFaults  \* steps that may raise: of "lookup", "milvus", "graph", "pg", "file", "publish"

ASSUME DeleteAssumption ==
  /\ IsFiniteSet(Deleter)
  /\ Store \subseteq {"pg", "milvus", "graph", "redis"}
  /\ DeleteFaults \subseteq {"lookup", "milvus", "graph", "pg", "file", "publish"}

VARIABLES
  remains,  \* what still exists of the document
  told,     \* whether its cached answers were declared invalid
  deleter   \* each call: its step, what it knows, its result

deleteVars == <<remains, told, deleter>>

Kind == {"row", "chunks", "node", "file"}
DeleteStage == {"lookup", "milvus", "graph", "pg", "file", "publish", "done"}

DeleteTypeOK ==
  /\ remains \subseteq Kind
  /\ told \in BOOLEAN
  /\ deleter \in [Deleter -> [step : DeleteStage, known : BOOLEAN, deleted : SUBSET Kind,
                              errors : SUBSET (DeleteStage \cup {"notFound"})]]

DeleteInit ==
  /\ remains = Kind
  /\ told = FALSE
  /\ deleter = [d \in Deleter |-> [step |-> "lookup", known |-> FALSE, deleted |-> {}, errors |-> {}]]

After == [lookup |-> "milvus", milvus |-> "graph", graph |-> "pg", pg |-> "file",
          file |-> "publish", publish |-> "done"]

\* Mutant: an error ends the call.
RaisesAtOnce(d, step) ==
  [deleter EXCEPT ![d].step = "done", ![d].errors = @ \cup {step}]

\* An error is recorded, and the next step follows.
Raises(d, step) ==
  [deleter EXCEPT ![d].step = After[step], ![d].errors = @ \cup {step}]

Succeeds(d, step, gone) ==
  [deleter EXCEPT ![d].step = After[step], ![d].deleted = @ \cup gone]

IsAt(d, step) == deleter[d].step = step

\* Without the store, or without the row where it is needed, a step is passed.
Skips(d, step) ==
  /\ deleter' = [deleter EXCEPT ![d].step = After[step]]
  /\ UNCHANGED <<remains, told>>

MayRaise(d, step) ==
  /\ step \in DeleteFaults
  /\ deleter' = Raises(d, step)
  /\ UNCHANGED <<remains, told>>

\* Step 1: the row says where the file is and what the chip is called; without
\* it the call ends.
Lookup(d) ==
  /\ IsAt(d, "lookup")
  /\ IF "pg" \notin Store THEN Skips(d, "lookup")
       ELSE \/ MayRaise(d, "lookup")
            \/ /\ deleter' =
                    IF "row" \in remains
                      THEN [deleter EXCEPT ![d].step = After["lookup"], ![d].known = TRUE]
                      ELSE [deleter EXCEPT ![d].step = "done", ![d].errors = @ \cup {"notFound"}]
               /\ UNCHANGED <<remains, told>>

\* Step 2: _get_chunk_ids, then the chunks; the ids are rows of PostgreSQL that
\* go with the document.
DeleteChunks(d) ==
  /\ IsAt(d, "milvus")
  /\ IF "milvus" \notin Store \/ ~deleter[d].known THEN Skips(d, "milvus")
       ELSE \/ MayRaise(d, "milvus")
            \/ /\ remains' = IF "row" \in remains THEN remains \ {"chunks"} ELSE remains
               /\ deleter' = Succeeds(d, "milvus", remains \ remains')
               /\ UNCHANGED told

\* Step 3: the node goes, whether the row was found or not.
DeleteNode(d) ==
  /\ IsAt(d, "graph")
  /\ IF "graph" \notin Store THEN Skips(d, "graph")
       ELSE \/ MayRaise(d, "graph")
            \/ /\ remains' = remains \ {"node"}
               /\ deleter' = Succeeds(d, "graph", {"node"})
               /\ UNCHANGED told

\* Step 4: the parameters of its chips and the row, in two statements.
DeleteRow(d) ==
  /\ IsAt(d, "pg")
  /\ IF "pg" \notin Store THEN Skips(d, "pg")
       ELSE \/ MayRaise(d, "pg")
            \/ /\ remains' = remains \ {"row"}
               /\ deleter' = Succeeds(d, "pg", {"row"})
               /\ UNCHANGED told

\* Step 5: the file, where the row said it is.
DeleteFile(d) ==
  /\ IsAt(d, "file")
  /\ IF ~deleter[d].known THEN Skips(d, "file")
       ELSE \/ MayRaise(d, "file")
            \/ /\ remains' = remains \ {"file"}
               /\ deleter' = Succeeds(d, "file", remains \ remains')
               /\ UNCHANGED told

\* Step 6: cached answers are invalidated; an error is swallowed.
Publish(d) ==
  /\ IsAt(d, "publish")
  /\ deleter' = [deleter EXCEPT ![d].step = "done"]
  /\ UNCHANGED remains
  /\ IF "redis" \notin Store \/ ~deleter[d].known THEN UNCHANGED told
       ELSE told' = TRUE \/ ("publish" \in DeleteFaults /\ UNCHANGED told)

DeleteStep(d) ==
  \/ Lookup(d) \/ DeleteChunks(d) \/ DeleteNode(d) \/ DeleteRow(d) \/ DeleteFile(d) \/ Publish(d)

DeleteNext == \E d \in Deleter : DeleteStep(d)

DeleteSpec == DeleteInit /\ [][DeleteNext]_deleteVars

-----------------------------------------------------------------------------
(* Properties *)

DeleteEnded(d) == deleter[d].step = "done"

\* The stores that hold each kind; the disk is always there.
IsHeld(kind) == CASE kind = "row" -> "pg" \in Store
                [] kind = "chunks" -> {"pg", "milvus"} \subseteq Store
                [] kind = "node" -> "graph" \in Store
                [] kind = "file" -> "pg" \in Store

Cause == [row |-> "pg", chunks |-> "milvus", node |-> "graph", file |-> "file"]

\* "partial failures are recorded but don't block others" (line 52): after a
\* call that found the row, whatever is left of the document is explained by an
\* error of some call, of that store or of the look-up - except the chunks,
\* whose ids another call may have deleted first.
LeftoversAreExplained ==
  \A kind \in remains, d \in Deleter :
    DeleteEnded(d) /\ deleter[d].known /\ IsHeld(kind) =>
      \/ \E e \in Deleter : Cause[kind] \in deleter[e].errors
      \/ kind = "chunks" /\ \E e \in Deleter \ {d} : "row" \in deleter[e].deleted

\* Chunks or a file whose row is gone can not be found again: when all calls
\* have ended that only happens after an error in the look-up, in Milvus or on
\* the disk, or when one call took the row another still needed.
OrphansAreExplained ==
  (\A d \in Deleter : DeleteEnded(d)) /\ "row" \notin remains /\ IsHeld("chunks") =>
    \A kind \in remains \cap {"chunks", "file"} :
      \/ \E d \in Deleter : deleter[d].errors \cap {"lookup", Cause[kind]} # {}
      \/ Cardinality(Deleter) > 1 /\ kind = "chunks"

\* What deletes leave behind is explained by what they said went wrong.
RemainsAreExplained == DeleteTypeOK /\ LeftoversAreExplained /\ OrphansAreExplained
=============================================================================
