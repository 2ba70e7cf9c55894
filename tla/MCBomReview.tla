----------------------------- MODULE MCBomReview -----------------------------
(* Instances of BomReview for TLC. *)
EXTENDS BomReview

\* Two chips, the number of one begins the number of the other.  Sheets whose
\* first column is the part number, or another, or has no known title, one with
\* a short row; and lists that come with the request.
Bills ==
  {[kind |-> "file", headers |-> <<"part_number", "description", "quantity">>,
    rows |-> << <<"A1", "5V", "5">>, <<"A1B", "blank", "5">> >>],
   [kind |-> "file", headers |-> <<"designator", "part_number", "quantity", "description">>,
    rows |-> << <<"U1", "A1", "5", "5V">>, <<"blank", "A1B", "5", "5V">>,
                <<"A1", "A1B", "blank", "5V">> >>],
   [kind |-> "file", headers |-> <<"A", "part_number", "B", "quantity">>,
    rows |-> << <<"A1", "A1", "5", "5">>, <<"A1">>, <<"A1", "A1B", "5V", "5">> >>],
   [kind |-> "inline", headers |-> <<>>,
    rows |-> << <<"A1", "5V", "5">>, <<"A1B", "3V", "5">> >>],
   [kind |-> "inline", headers |-> <<>>,
    rows |-> << <<"blank", "5V", "5">>, <<"A1", "blank", "5">> >>]}

Claims == [d \in {"blank", "5V", "3V", "5"} |-> CASE d = "5V" -> 50 [] d = "3V" -> 33 [] OTHER -> 0]

NumberBegins == {<<"A1", "A1B">>, <<"A1", "A1">>, <<"A1B", "A1B">>}

Entries ==
  {[status |-> "active", vmax |-> 36], [status |-> "eol", vmax |-> 0],
   [status |-> "nrnd", vmax |-> 36]}

ChipTables == UNION {[S -> Entries] : S \in SUBSET {"A1", "A1B"}}
=============================================================================
