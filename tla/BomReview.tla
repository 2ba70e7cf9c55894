------------------------------- MODULE BomReview -------------------------------
(***************************************************************************)
(* The review of a bill of materials: reading it from a sheet or from the  *)
(* call, matching each part against the chip table while ingestion goes    *)
(* on, flagging end-of-life parts, conflicts and alternatives              *)
(* (src/agent/tools/bom_review.py, BOMReviewTool).  Statements fit the     *)
(* database here; AgentTools has the deployed columns.                     *)
(***************************************************************************)
EXTENDS Integers, Sequences, FiniteSets, Lists

CONSTANTS
  Bom,           \* sheets and inline lists: [kind, headers, rows]; an empty cell is "blank"
  Number,        \* cells that int() accepts
  Volts,         \* Volts[d]: tenths of a volt a description claims, 0 for none
  Begins,        \* pairs <<p, q>>: part number q begins with p
  Catalogs,      \* what the chip table may hold: part -> [status, vmax]
  Replaceable,   \* chips for which an alternative is known
  BomFaults,     \* subset of {"match", "conflicts", "alternative"}
  MaxNewChips    \* bound: changes of the chip table meanwhile

\* What a cell may read, what a chip may be called, and what is said of one.
CellText ==
  {"blank"} \cup
    UNION {UNION {{b.rows[r][c] : c \in DOMAIN b.rows[r]} : r \in DOMAIN b.rows} : b \in Bom}
ChipName == {"none"} \cup UNION {DOMAIN c : c \in Catalogs}
ChipStatus == {"none"} \cup UNION {{c[p].status : p \in DOMAIN c} : c \in Catalogs}

ASSUME BomAssumption ==
  /\ \A b \in Bom :
       /\ b.kind \in {"file", "inline"}
       /\ b.headers \in Seq(STRING) /\ b.rows \in Seq(Seq(CellText))
       /\ b.kind = "inline" => \A r \in DOMAIN b.rows : Len(b.rows[r]) = 3
  /\ BomFaults \subseteq {"match", "conflicts", "alternative"} /\ MaxNewChips \in Nat

VARIABLES
  bom,      \* the bill under review
  items,    \* the items read from it
  line,     \* index of the item being looked at, 0 before
  step,     \* "read", "exact", "prefix", "conflicts", "alternative", "done", "error"
  catalog,  \* the chip table: part -> [status, vmax]
  failing,  \* items for which a statement failed
  renewed   \* changes of the chip table so far

bomVars == <<bom, items, line, step, catalog, failing, renewed>>

\* An item as it was read; nothing is known of its chip yet.
BOMItem(row, part, description, quantity) ==
  [row |-> row, part |-> part, description |-> description, quantity |-> quantity,
   chip |-> "none", status |-> "none", match |-> "unmatched", flag |-> "none", conflict |-> FALSE,
   alternative |-> FALSE]

Item ==
  [row : Nat, part : CellText, description : CellText, quantity : CellText,
   chip : ChipName, status : ChipStatus, match : {"matched", "ambiguous", "unmatched"},
   flag : {"none", "eol", "nrnd"}, conflict : BOOLEAN, alternative : BOOLEAN]

BomTypeOK ==
  /\ bom \in Bom /\ catalog \in Catalogs
  /\ items \in Seq(Item)
  /\ line \in 0..(Len(items) + 1)
  /\ step \in {"read", "exact", "prefix", "conflicts", "alternative", "done", "error"}
  /\ failing \subseteq DOMAIN items
  /\ renewed \in 0..MaxNewChips

BomInit ==
  /\ bom \in Bom /\ catalog \in Catalogs
  /\ items = <<>> /\ line = 0 /\ step = "read" /\ failing = {} /\ renewed = 0

-----------------------------------------------------------------------------
(* Reading *)

\* The column of a header, counted from 0, which also stands for "not there".
Column(h) ==
  IF \E c \in DOMAIN bom.headers : bom.headers[c] = h
    THEN (CHOOSE c \in DOMAIN bom.headers : bom.headers[c] = h) - 1 ELSE 0

\* The cells are looked up one column before the header's; column 0 reads as
\* "no such column", as one beyond the row does.
Cell(row, h) == IF Column(h) \in 1..Len(row) THEN row[Column(h)] ELSE "blank"

\* A quantity that is no number raises, and ends the reading there.
Unreadable(row) == Cell(row, "quantity") \notin Number \cup {"blank"}

Names(r) == Cell(bom.rows[r], "part_number") # "blank"

\* What was read before an error counts.
Reached(r) == \A q \in 1..r : Names(q) => ~Unreadable(bom.rows[q])

\* Rows without a part number are skipped.
SheetItems ==
  LET rows == Those([r \in DOMAIN bom.rows |-> r], {r \in DOMAIN bom.rows : Names(r) /\ Reached(r)})
      Of(h, k) == Cell(bom.rows[rows[k]], h)
  IN  [k \in DOMAIN rows |->
         BOMItem(rows[k] + 1, Of("part_number", k), Of("description", k), Of("quantity", k))]

\* The fields of an inline item are taken by name.
InlineItems ==
  [r \in DOMAIN bom.rows |-> BOMItem(r, bom.rows[r][1], bom.rows[r][2], bom.rows[r][3])]

Read ==
  /\ step = "read"
  /\ items' = IF bom.kind = "file" THEN SheetItems ELSE InlineItems
  /\ step' = IF items' = <<>> THEN "error" ELSE "exact"
  /\ line' = IF items' = <<>> THEN 0 ELSE 1
  /\ UNCHANGED <<bom, catalog, failing, renewed>>

-----------------------------------------------------------------------------
(* Reviewing an item *)

item == items[line]

\* The next item, or the summary.
NextItem == line' = line + 1 /\ step' = IF line = Len(items) THEN "done" ELSE "exact"

OnTo(next) == step' = next /\ line' = line

FlagOf(status) == CASE status \in {"eol", "obsolete", "discontinued"} -> "eol"
                    [] status \in {"nrnd", "not recommended"} -> "nrnd"
                    [] OTHER -> "none"

\* A chip was found; _check_eol follows at once.
Identified(i, p, how) ==
  [i EXCEPT !.chip = p, !.status = catalog[p].status, !.match = how,
            !.flag = FlagOf(catalog[p].status)]

MatchExact ==
  /\ step = "exact"
  /\ IF item.part = "blank" THEN NextItem /\ UNCHANGED items
     ELSE IF item.part \in DOMAIN catalog
       THEN items' = [items EXCEPT ![line] = Identified(@, item.part, "matched")] /\ OnTo("conflicts")
     ELSE OnTo("prefix") /\ UNCHANGED items
  /\ UNCHANGED <<bom, catalog, failing, renewed>>

\* Chips whose number begins with the part, in any case.
Candidates == {q \in DOMAIN catalog : <<item.part, q>> \in Begins}

MatchPrefix ==
  /\ step = "prefix"
  /\ \/ /\ Candidates = {} /\ NextItem /\ UNCHANGED items
     \/ \E q \in Candidates :
          items' = [items EXCEPT ![line] = Identified(@, q, "ambiguous")] /\ OnTo("conflicts")
  /\ UNCHANGED <<bom, catalog, failing, renewed>>

\* The error is swallowed and the item stays as it is.
MatchFails ==
  /\ step \in {"exact", "prefix"} /\ "match" \in BomFaults /\ item.part # "blank"
  /\ failing' = failing \cup {line} /\ NextItem
  /\ UNCHANGED <<bom, items, catalog, renewed>>

\* A chip deleted meanwhile has no parameters any more.
Exceeds ==
  /\ item.chip \in DOMAIN catalog /\ catalog[item.chip].vmax > 0
  /\ 10 * Volts[item.description] > 11 * catalog[item.chip].vmax

AfterConflicts == IF item.flag # "none" THEN OnTo("alternative") ELSE NextItem

CheckConflicts ==
  /\ step = "conflicts"
  /\ items' = [items EXCEPT ![line].conflict = item.description # "blank" /\ Exceeds]
  /\ AfterConflicts
  /\ UNCHANGED <<bom, catalog, failing, renewed>>

ConflictsFail ==
  /\ step = "conflicts" /\ "conflicts" \in BomFaults
  /\ failing' = failing \cup {line} /\ AfterConflicts
  /\ UNCHANGED <<bom, items, catalog, renewed>>

\* The alternative of the database; the graph is asked by a key that is none of
\* its own and finds nothing.
FindAlternative ==
  /\ step = "alternative"
  /\ items' = [items EXCEPT ![line].alternative = item.chip \in Replaceable]
  /\ NextItem
  /\ UNCHANGED <<bom, catalog, failing, renewed>>

AlternativeFails ==
  /\ step = "alternative" /\ "alternative" \in BomFaults
  /\ failing' = failing \cup {line} /\ NextItem
  /\ UNCHANGED <<bom, items, catalog, renewed>>

\* Ingestion adds a chip, or somebody edits one (external).
CatalogChanges ==
  /\ renewed < MaxNewChips /\ renewed' = renewed + 1
  /\ catalog' \in Catalogs \ {catalog}
  /\ UNCHANGED <<bom, items, line, step, failing>>

-----------------------------------------------------------------------------

BomNext ==
  \/ Read
  \/ MatchExact \/ MatchPrefix \/ MatchFails
  \/ CheckConflicts \/ ConflictsFail
  \/ FindAlternative \/ AlternativeFails
  \/ CatalogChanges

BomSpec == BomInit /\ [][BomNext]_bomVars

\* A part is called unmatched only when no chip has that number or begins with
\* it, unless a statement failed or the chip table changed under the review.
UnmatchedAreUnknown ==
  step = "done" /\ renewed = 0 =>
    \A i \in DOMAIN items \ failing :
      items[i].match = "unmatched" /\ items[i].part # "blank" =>
        \A q \in DOMAIN catalog : q # items[i].part /\ <<items[i].part, q>> \notin Begins

\* A part that was found, be it by its beginning only, is warned of when its
\* chip is at its end of life, and an alternative that is known is told.
WarningsAreGiven ==
  step = "done" =>
    \A i \in DOMAIN items \ failing :
      items[i].chip # "none" =>
        /\ items[i].status \in {"eol", "nrnd"} => items[i].flag # "none"
        /\ items[i].flag # "none" /\ items[i].chip \in Replaceable => items[i].alternative

\* "Excel file parsed -> each row matched against the chip library"
\* (docs/DEVELOPMENT_PLAN.md:1904): every row that names a part is an item.
EveryRowIsReviewed ==
  step \in {"done", "error"} /\ bom.kind = "file" =>
    \A r \in DOMAIN bom.rows :
      \A c \in DOMAIN bom.headers :
        bom.headers[c] = "part_number" /\ bom.rows[r][c] # "blank" =>
          \E i \in DOMAIN items : items[i].row = r + 1 /\ items[i].part = bom.rows[r][c]

\* A review overlooks nothing that the chip table knows of a part.
ReviewsOverlookNothing == BomTypeOK /\ UnmatchedAreUnknown /\ WarningsAreGiven
=============================================================================
