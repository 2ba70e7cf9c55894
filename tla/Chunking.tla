------------------------------- MODULE Chunking --------------------------------
(***************************************************************************)
(* Splitting a text into chunks (src/ingestion/chunking/*.py and           *)
(* _chunk_pages of src/api/routers/documents.py).                          *)
(*                                                                         *)
(* A text is a sequence of sentences; a chunk is the interval <<lo, hi>>   *)
(* of the positions it holds.  One position separates two sentences.       *)
(***************************************************************************)
EXTENDS Lists

CONSTANTS
  SentenceLengths,
  MaxSentences,  \* bound: sentences of a text
  ChunkSize,     \* chunk_size, max_size, CHUNK_SIZE
  Overlap,       \* chunk_overlap
  ParentSize,    \* parent_size
  MinSize,       \* min_size of the semantic chunker
  MinBody        \* shortest chunk of a page that is kept

ASSUME ChunkingAssumption ==
  /\ SentenceLengths \subseteq Nat \ {0} /\ MaxSentences \in Nat
  /\ {ChunkSize, ParentSize, MinSize, MinBody} \subseteq Nat \ {0}
  /\ Overlap \in Nat /\ Overlap < ChunkSize

VARIABLE text   \* the sentences, each with what comes before it

Starts == {"sentence", "paragraph", "heading"}

ChunkingTypeOK ==
  /\ text \in Seq([length : SentenceLengths, starts : Starts, turns : BOOLEAN])
  /\ Len(text) <= MaxSentences

ChunkingInit == text = <<>>

\* A longer text: a sentence may be the first after a heading, may open a
\* paragraph, and its embedding may turn away from the one before.
Extend ==
  /\ Len(text) < MaxSentences
  /\ \E n \in SentenceLengths, s \in Starts, t \in BOOLEAN :
       text' = Append(text, [length |-> n, starts |-> s, turns |-> t])

ChunkingNext == Extend

ChunkingSpec == ChunkingInit /\ [][ChunkingNext]_text

-----------------------------------------------------------------------------
(* Positions                                                               *)

LengthUpTo(k) == Added([i \in 1..k |-> text[i].length + 1])

Start(k) == LengthUpTo(k - 1) + 1
End(k) == LengthUpTo(k) - 1
LastPosition == LengthUpTo(Len(text)) - 1

Separators == {End(k) + 1 : k \in 1..(Len(text) - 1)}
Extent(c) == c[2] - c[1] + 1
Greater(m, n) == IF m > n THEN m ELSE n
Lesser(m, n) == IF m < n THEN m ELSE n

\* strip(): no separator at either end.
Strip(c) ==
  <<IF c[1] \in Separators THEN c[1] + 1 ELSE c[1],
    IF c[2] \in Separators THEN c[2] - 1 ELSE c[2]>>

\* The last of the intervals goes on up to hi.
GoOn(s, hi) == [s EXCEPT ![Len(s)] = <<s[Len(s)][1], hi>>]

\* The sentences in groups: one of Breaks opens a group, as the first one does.
Grouped(Breaks) ==
  LET grouped[n \in 0..Len(text)] ==
        IF n = 0 THEN <<>>
        ELSE IF n = 1 \/ n \in Breaks THEN Append(grouped[n - 1], <<Start(n), End(n)>>)
        ELSE GoOn(grouped[n - 1], End(n))
  IN  grouped[Len(text)]

Opening(kinds) == {k \in DOMAIN text : text[k].starts \in kinds}

Sentences == [k \in DOMAIN text |-> <<Start(k), End(k)>>]
Paragraphs == Grouped(Opening({"paragraph", "heading"}))
Sections == Grouped(Opening({"heading"}))

-----------------------------------------------------------------------------
(* Filling a buffer piece by piece                                         *)

\* Where the next buffer begins: with the tail of the one before.
TailOf(buffer, overlap, piece) ==
  IF overlap = 0 THEN piece[1] ELSE Greater(buffer[1], buffer[2] - overlap + 1)

\* A piece that does not fit closes the buffer, unless it is empty.
FillPiece(f, piece, size, overlap) ==
  IF f.buffer = <<>> THEN [f EXCEPT !.buffer = piece]
  ELSE IF piece[2] - f.buffer[1] + 1 > size
       THEN [done |-> Append(f.done, f.buffer),
             buffer |-> <<TailOf(f.buffer, overlap, piece), piece[2]>>]
  ELSE [f EXCEPT !.buffer = <<f.buffer[1], piece[2]>>]

\* Mutant: what is in the buffer at the end is forgotten.
CloseForgets(f) == f.done

Close(f) == IF f.buffer = <<>> THEN f.done ELSE Append(f.done, f.buffer)

Fill(pieces, size, overlap) ==
  LET filled[n \in 0..Len(pieces)] ==
        IF n = 0 THEN [done |-> <<>>, buffer |-> <<>>]
        ELSE FillPiece(filled[n - 1], pieces[n], size, overlap)
      chunks == Close(filled[Len(pieces)])
  IN  [i \in DOMAIN chunks |-> Strip(chunks[i])]

FineChunks == Fill(Sentences, ChunkSize, Overlap)
CoarseChunks == Fill(Sections, ChunkSize, Overlap)
Parents == Fill(Paragraphs, ParentSize, 0)
Children(p) ==
  Fill(Those(Sentences, {s \in Int \X Int : p[1] <= s[1] /\ s[2] <= p[2]}), ChunkSize, Overlap)

\* Without embeddings the semantic chunker only looks at the size.
FallbackChunks == Fill(Sentences, ChunkSize, 0)

-----------------------------------------------------------------------------
(* Cutting what is too long                                                *)

\* The rest of s, first all of it, loses what is before the next cut until it
\* fits: from p the cut takes p..upTo[p] and the rest begins at next[p].
Cuts(s, upTo, next) ==
  LET cut[n \in 0..Extent(s)] ==
        IF n = 0 THEN [done |-> <<>>, rest |-> s[1]]
        ELSE LET before == cut[n - 1]
                 p == before.rest
             IN  IF s[2] - p + 1 <= ChunkSize THEN before
                 ELSE [done |-> Append(before.done, Strip(<<p, upTo[p]>>)), rest |-> next[p]]
      last == cut[Extent(s)]
  IN  Append(last.done, <<last.rest, s[2]>>)

\* strip() of a rest that begins at p.
Lead(p) == IF p \in Separators THEN p + 1 ELSE p

-----------------------------------------------------------------------------
(* The datasheet splitter                                                  *)

\* Where to cut the rest of a section, counted from its start: after the last
\* sentence that ends in the second half of the chunk, or at its end.
SplitPoint(lo) ==
  LET ends == {n \in {End(k) - lo : k \in DOMAIN text} : n >= ChunkSize \div 2 /\ n + 2 <= ChunkSize} IN
    IF ends = {} THEN ChunkSize ELSE 2 + CHOOSE n \in ends : \A m \in ends : m <= n

NextStart(lo) == Lead(lo + Greater(0, SplitPoint(lo) - Overlap))

SectionChunks(s) ==
  Cuts(s, [p \in 1..LastPosition |-> p + SplitPoint(p) - 1], [p \in 1..LastPosition |-> NextStart(p)])

DatasheetChunks == Flat([i \in DOMAIN Sections |-> SectionChunks(Sections[i])])

-----------------------------------------------------------------------------
(* The semantic chunker                                                    *)

\* A segment is cut to size, at the end of a sentence if one is in reach.
CutPoint(lo) ==
  LET ends == {n \in {End(k) - lo : k \in DOMAIN text} : n >= 0 /\ n + 2 <= ChunkSize} IN
    IF ends = {} THEN ChunkSize ELSE 2 + CHOOSE n \in ends : \A m \in ends : m <= n

CutSegment(s) ==
  Cuts(s, [p \in 1..LastPosition |-> p + CutPoint(p) - 1], [p \in 1..LastPosition |-> Lead(p + CutPoint(p))])

\* A small last piece of a segment joins the chunk before it.
JoinSmall(done, s) ==
  IF done # <<>> /\ Extent(s) < MinSize THEN GoOn(done, s[2]) ELSE Append(done, s)

Segments == Grouped({k \in DOMAIN text : text[k].turns})

SemanticChunks ==
  LET joined[n \in 0..Len(Segments)] ==
        IF n = 0 THEN <<>>
        ELSE LET cut == CutSegment(Segments[n])
             IN  JoinSmall(joined[n - 1] \o AllButLastN(cut, 1), cut[Len(cut)])
  IN  joined[Len(Segments)]

-----------------------------------------------------------------------------
(* Pages and tables                                                        *)

WindowStep == ChunkSize - Overlap

\* The windows of a page: the last one is the first that reaches its end.
Windows ==
  LET upTo(n) == (n - 1) * WindowStep + ChunkSize
      count == CHOOSE n \in 1..LastPosition :
                 upTo(n) >= LastPosition /\ \A m \in 1..(n - 1) : upTo(m) < LastPosition
  IN  [n \in 1..count |-> Strip(<<1 + (n - 1) * WindowStep, Lesser(upTo(n), LastPosition)>>)]

\* What is too short to be worth a vector is left out.
PageChunks ==
  IF text = <<>> THEN <<>> ELSE Those(Windows, {c \in Int \X Int : Extent(c) >= MinBody})

\* A group of rows and the header, which is repeated in each chunk.
FitsTable(group) ==
  text[1].length + 1 + Added([i \in DOMAIN group |-> text[group[i]].length + 1]) <= ChunkSize

AddRow(groups, k) ==
  IF groups = <<>> THEN << <<k>> >>
  ELSE IF FitsTable(Append(groups[Len(groups)], k))
       THEN [groups EXCEPT ![Len(groups)] = Append(@, k)]
  ELSE Append(groups, <<k>>)

\* The rows of a table after its header (here the sentences after the first
\* one) in groups; a table that fits stays whole.
Rows == [k \in 1..(Len(text) - 1) |-> k + 1]

TableGroups ==
  LET grouped[n \in 0..Len(Rows)] == IF n = 0 THEN <<>> ELSE AddRow(grouped[n - 1], Rows[n])
  IN  IF text = <<>> THEN <<>> ELSE IF FitsTable(Rows) THEN <<Rows>> ELSE grouped[Len(Rows)]

-----------------------------------------------------------------------------
(* Properties                                                              *)

Covered(chunks) == UNION {chunks[i][1]..chunks[i][2] : i \in DOMAIN chunks}

Words == 1..LastPosition \ Separators

\* Every strategy keeps every word of the text, the words between two cuts and
\* the last ones included; a page is left out only when it is short.
NothingIsLost ==
  text # <<>> =>
    /\ \A chunks \in {FineChunks, CoarseChunks, Parents, FallbackChunks, DatasheetChunks,
                      SemanticChunks} : Words \subseteq Covered(chunks)
    /\ LastPosition >= MinBody + 2 => Words \subseteq Covered(PageChunks)

Longest(S) == CHOOSE n \in S : \A m \in S : m <= n

\* No chunk outgrows its size, but for a sentence that is longer by itself, the
\* overlap put before a sentence, and a small piece joined to the chunk before.
ChunksAreBounded ==
  text # <<>> =>
    LET sentence == Longest({text[k].length : k \in DOMAIN text}) IN
      /\ \A i \in DOMAIN FineChunks :
           Extent(FineChunks[i]) <= Greater(ChunkSize, Overlap + 1 + sentence)
      /\ \A i \in DOMAIN DatasheetChunks : Extent(DatasheetChunks[i]) <= ChunkSize
      /\ \A i \in DOMAIN SemanticChunks :
           Extent(SemanticChunks[i]) <= ChunkSize + Len(text) * MinSize
      /\ \A i \in DOMAIN PageChunks : Extent(PageChunks[i]) <= ChunkSize

\* A child lies in its parent and the children of a parent make up all of it:
\* the overlap of children never reaches into the parent before.
ChildrenMakeUpTheirParent ==
  \A i \in DOMAIN Parents :
    LET children == Children(Parents[i]) IN
      /\ \A j \in DOMAIN children :
           Parents[i][1] <= children[j][1] /\ children[j][2] <= Parents[i][2]
      /\ Parents[i][1]..Parents[i][2] \ Separators \subseteq Covered(children)

\* Every row of a table is in one group, and the groups keep the order.
RowsStayInOrder ==
  text # <<>> => Flat(TableGroups) = Rows

\* "Safety: avoid infinite loop" (datasheet_splitter.py:157): each cut of a long
\* section gets further.
SplitMakesProgress ==
  \A p \in 1..(LastPosition - ChunkSize) : NextStart(p) > p

\* Chunks make up the document: whatever the strategy, nothing is lost or out
\* of order, no chunk outgrows its size, and every cut gets further.
ChunksMakeUpTheDocument ==
  /\ ChunkingTypeOK
  /\ NothingIsLost /\ ChunksAreBounded /\ ChildrenMakeUpTheirParent
  /\ RowsStayInOrder /\ SplitMakesProgress
=============================================================================
