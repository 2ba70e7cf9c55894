---------------------------- MODULE AnswerGrounding ----------------------------
(***************************************************************************)
(* src/evaluation/grounding.py and _apply_grounding of                     *)
(* src/api/routers/query.py: an answer is withheld when the retrieved      *)
(* evidence is thin, and otherwise each figure in it is looked up in the   *)
(* citations; figures not found there are put in a banner above it.        *)
(*                                                                         *)
(* Figures are found by a regular expression.  Of a text only the figures  *)
(* are kept, in their order, with what decides whether the expression      *)
(* finds them.  Scores are percentages; 0 also stands for a missing or     *)
(* unreadable score.                                                       *)
(***************************************************************************)
EXTENDS Integers, Sequences, SequencesExt, Lists

CONSTANTS
  Figure,       \* figures a text may hold
  Text,         \* answers: the figures they state
  Evidence,     \* sequences of citations: the score and the figures of each
  MinCitations, \* thresholds of RetrievalGateConfig
  MinTop, MinMean, MaxUnsupported, MinUnsupported

\* A figure: its value, its unit, whether the unit is written in Latin
\* letters, whether a word such as "about" precedes it, and whether a word
\* character follows the unit with no space between.
ASSUME GroundingAssumption ==
  /\ Figure \subseteq [value : Nat, unit : {"v", "mhz", "pin", "x", "pct"},
                       latin : BOOLEAN, approx : BOOLEAN, glued : BOOLEAN]
  /\ Text \subseteq Seq(Figure)
  /\ Evidence \subseteq Seq([score : 0..100, says : SUBSET Figure])
  /\ {MinCitations, MinTop, MinMean, MaxUnsupported, MinUnsupported} \subseteq Nat

VARIABLES
  judged,  \* what is judged: answer, citations, why the agent stopped, the mode
  phase,  \* how far the check is
  report, \* the GroundingReport
  shown   \* what the user gets: "answer", "banner" (and the answer), "abstention"

groundingVars == <<judged, phase, report, shown>>

\* "off": disabled, or the settings could not be read.
Mode == {"off", "warn", "hard"}

Stopped == {"complete", "token_budget_exhausted", "max_iterations"}

Judgement == [text : Text, cited : Evidence, stopped : Stopped, mode : Mode]

GroundingTypeOK ==
  /\ judged \in Judgement
  /\ phase \in {"gate", "figures", "annotate", "shown"}
  /\ report \in [abstain : BOOLEAN, supported : Seq(Figure), unsupported : Seq(Figure)]
  /\ shown \in {"nothing", "answer", "banner", "abstention"}

NoReport == [abstain |-> FALSE, supported |-> <<>>, unsupported |-> <<>>]

GroundingInit ==
  /\ judged \in Judgement
  /\ phase = "gate" /\ report = NoReport /\ shown = "nothing"

-----------------------------------------------------------------------------
(* Finding figures *)

\* The expression ends in a word boundary: a unit of letters must not be
\* followed by a word character, a percent sign must.
Matched(f) == f.glued = (f.unit = "pct")

\* A figure of an answer counts unless it is approximate or its match holds
\* no Latin letter or percent sign after the digits.
IsFact(f) == Matched(f) /\ ~f.approx /\ (f.latin \/ f.unit = "pct")

\* The facts of a text, each as often as it is stated.
Facts(t) == Those(t, {f \in Figure : IsFact(f)})

\* What the index of the citations holds: every match.
Indexed(cited) == {f \in UNION {cited[i].says : i \in DOMAIN cited} : Matched(f)}

Bigger(a, b) == IF a < b THEN b ELSE a

Gap(a, b) == IF a < b THEN b - a ELSE a - b

\* Within one per cent of the larger; zero equals only itself.
Near(a, b) == IF a = 0 \/ b = 0 THEN a = b ELSE 100 * Gap(a, b) <= Bigger(a, b)

FactInChunks(f, index) == \E g \in index : g.unit = f.unit /\ Near(f.value, g.value)

-----------------------------------------------------------------------------
(* The check *)

\* The scores above zero.
Scored(cited) == Those([i \in DOMAIN cited |-> cited[i].score], 1..100)

\* Too few citations, or none of them relevant enough, or not on average.
ThinEvidence(cited) ==
  LET s == Scored(cited) IN
    \/ Len(cited) < MinCitations
    \/ s # <<>> /\ \A i \in DOMAIN s : s[i] < MinTop
    \/ s # <<>> /\ Added(s) < MinMean * Len(s)

\* Stages 0 and 1: an answer cut short, or thin evidence.
Gate ==
  /\ phase = "gate"
  /\ UNCHANGED <<judged, shown>>
  /\ \/ /\ judged.mode # "off"
        /\ judged.stopped # "complete" \/ ThinEvidence(judged.cited)
        /\ report' = [report EXCEPT !.abstain = TRUE] /\ phase' = "annotate"
     \/ /\ judged.mode # "off"
        /\ judged.stopped = "complete" /\ ~ThinEvidence(judged.cited)
        /\ phase' = "figures" /\ UNCHANGED report

\* Without a configuration nothing is checked, and an error in the check
\* leaves the answer as it was.
GoWithout ==
  /\ phase # "shown"
  /\ phase = "gate" \/ judged.mode # "off"
  /\ phase' = "shown" /\ shown' = "answer" /\ report' = NoReport
  /\ UNCHANGED judged

\* Only in "hard" mode do missing figures withhold an answer.
NumbersWithhold(lost, total) ==
  /\ total >= 5 /\ 100 * lost > MaxUnsupported * total /\ lost >= MinUnsupported
  /\ judged.mode = "hard"

\* Stage 2: every figure stated is looked up.
Figures ==
  /\ phase = "figures"
  /\ LET facts == Facts(judged.text)
         found == {f \in Figure : FactInChunks(f, Indexed(judged.cited))}
         missing == Those(facts, Figure \ found)
     IN report' = [abstain |-> NumbersWithhold(Len(missing), Len(facts)),
                   supported |-> Those(facts, found), unsupported |-> missing]
  /\ phase' = "annotate" /\ UNCHANGED <<judged, shown>>

\* Mutant: the banner is shown only when the answer would be withheld.
AnnotationRarely == IF report.abstain THEN "banner" ELSE "answer"

Annotation ==
  IF report.abstain THEN "abstention" ELSE IF report.unsupported # <<>> THEN "banner" ELSE "answer"

Annotate ==
  /\ phase = "annotate"
  /\ shown' = Annotation
  /\ phase' = "shown" /\ UNCHANGED <<judged, report>>

GroundingNext == Gate \/ GoWithout \/ Figures \/ Annotate

GroundingSpec == GroundingInit /\ [][GroundingNext]_groundingVars

-----------------------------------------------------------------------------
(* Properties *)

\* A figure that no citation holds in the form in which it is stated.
Unquoted == {f \in Figure : \A i \in DOMAIN judged.cited : f \notin judged.cited[i].says}

\* A correction signal, not a kill switch (lines 272-276): a complete answer
\* over enough citations that carry no score, or whose scores are all good, is
\* never withheld in "warn" mode, and in "hard" mode only if it states five
\* facts and more than the allowed share of them are in no citation.
OnlyWeakEvidenceIsWithheld ==
  /\ shown = "abstention"
  /\ judged.stopped = "complete" /\ Len(judged.cited) >= MinCitations
  /\ \A i \in DOMAIN judged.cited : judged.cited[i].score \notin 1..(Bigger(MinTop, MinMean) - 1)
  => /\ judged.mode = "hard" /\ Len(Facts(judged.text)) >= 5
     /\ 100 * Len(Those(Facts(judged.text), Unquoted)) > MaxUnsupported * Len(Facts(judged.text))

\* A figure that a citation holds in the same form is never reported missing:
\* zero volts and figures at the ends of the tolerance included.
QuotedFiguresPass == ToSet(report.unsupported) \subseteq Unquoted

\* A report accounts for every fact, as often as the answer states it.
FactsAreReportedOnce ==
  report.supported # <<>> \/ report.unsupported # <<>> =>
    Len(report.supported) + Len(report.unsupported) = Len(Facts(judged.text))

\* The user is told: a figure the answer states as a fact and no citation
\* holds within the tolerance never goes out without a banner, unless the check
\* was off or failed (which leaves no report).
MissingFiguresAreShown ==
  shown = "answer" => report.unsupported = <<>>

\* "Exact match required for integers (lane width, pin counts)."
\* (lines 223-224).
CountsMatchExactly ==
  phase = "annotate" /\ ~report.abstain =>
    \A f \in ToSet(report.supported) : f.unit \in {"pin", "x"} =>
      \E g \in Indexed(judged.cited) : g.unit = f.unit /\ g.value = f.value

\* Figures are told apart: those no citation holds are shown to the user, those
\* one holds pass, and an answer is only withheld for evidence that is weak.
FiguresAreJudged ==
  /\ GroundingTypeOK
  /\ MissingFiguresAreShown /\ QuotedFiguresPass /\ FactsAreReportedOnce
  /\ OnlyWeakEvidenceIsWithheld
=============================================================================
