------------------------- MODULE MCDocumentLifecycle -------------------------
(* Instances of DocumentLifecycle for TLC. *)
EXTENDS DocumentScenarios, TLC

CONSTANTS j1, j2, h1, h2, p1, p2, p3, c1, c2

OneJob == {j1}
TwoJobs == {j1, j2}
OneContent == {h1}
TwoContents == {h1, h2}
OnePath == {p1}
TwoPaths == {p1, p2}
ThreePaths == {p1, p2, p3}
OneChip == {c1}
TwoChips == {c1, c2}

JobSymmetry == Permutations(TwoJobs)

\* One content under one name, and its chip.
OwnName == [h \in OneContent |-> {p1}]
OnlyChip == [n \in OnePath |-> [h \in OneContent |-> c1]]

\* Two contents under one file name, each naming its own chip on its first page.
SharedName == [h \in TwoContents |-> {p1}]
ChipOfText == [n \in OnePath |-> [h \in TwoContents |-> IF h = h1 THEN c1 ELSE c2]]

\* Two documents about one chip, under their own names.
OwnNames == [h \in TwoContents |-> IF h = h1 THEN {p1} ELSE {p2}]
SameChip == [n \in TwoPaths |-> [h \in TwoContents |-> c1]]

\* Nothing shared: h1 may be saved under two names, both those of chip c1.
DisjointNames == [h \in TwoContents |-> IF h = h1 THEN {p1, p3} ELSE {p2}]
ChipOfName == [n \in ThreePaths |-> [h \in TwoContents |-> IF n = p2 THEN c2 ELSE c1]]
=============================================================================
