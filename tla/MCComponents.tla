------------------------------ MODULE MCComponents -----------------------------
(* The stores, and what works on documents, answers, lists and records, in *)
(* one run of TLC: a behaviour is one of the part it starts with, the other *)
(* parts keep one initial state.  Only safety is checked here.             *)
EXTENDS MCStores, MCAgentTools, MCBomReview, AgentToolbox, AnswerGrounding, EvalStatistics, ReportFiles,
        Chunking, CoordinatedDelete, RateLimiter

CONSTANTS r1, r2, r3, p1, p2

AnalysisParts ==
  {"tools", "bill", "grounding", "statistics", "report", "chunking", "delete", "windows", "slots"}

\* A zero, two figures near each other of which one has a unit in Han letters,
\* one near them that an "about" precedes, and a percentage.
FiguresSeen ==
  {[value |-> 0, unit |-> "v", latin |-> TRUE, approx |-> FALSE, glued |-> FALSE],
   [value |-> 144, unit |-> "pin", latin |-> TRUE, approx |-> FALSE, glued |-> FALSE],
   [value |-> 145, unit |-> "pin", latin |-> FALSE, approx |-> FALSE, glued |-> FALSE],
   [value |-> 147, unit |-> "pin", latin |-> TRUE, approx |-> TRUE, glued |-> FALSE],
   [value |-> 3, unit |-> "pct", latin |-> TRUE, approx |-> FALSE, glued |-> TRUE]}

\* Three of one and two of another, which may be the same.
AnswerTexts == {<<>>} \cup {<<f, f, f, g, g>> : f, g \in FiguresSeen}

\* No citation, one, or two of which the second says nothing.
Citations ==
  LET first == [score : {0, 30, 80}, says : {{}} \cup {{f} : f \in FiguresSeen}]
  IN  {<<>>} \cup {<<c>> : c \in first}
        \cup {<<c, [score |-> s, says |-> {}]>> : c \in first, s \in {0, 20, 80}}

\* A score below the scale, and the scale.
ScoresSeen == {-1, 0, 3, 4, 5}

\* Two reports of each of two formats.
FormatOf == [r \in Report |-> IF r \in {"a", "b"} THEN "word" ELSE "cases csv"]

\* Two callers share a process.
HomeOf == [r \in Caller |-> IF r = r3 THEN p2 ELSE p1]

-----------------------------------------------------------------------------
\* What the parts that rest are judged.
SomeQuestion == CHOOSE q \in Judgement : TRUE
SomeBill == CHOOSE b \in Bom : b.kind = "inline"

ComponentsInit ==
  /\ part \in StoreParts \cup AnalysisParts
  /\ StoresInit
  /\ IF part = "tools" THEN TRUE
     ELSE /\ up = {} /\ holds = {}
          /\ invoked = [tool |-> "chip_compare", maker |-> "agent", step |-> 0, said |-> "pending"]
  /\ ToolsInit
  /\ IF part = "bill" THEN TRUE
     ELSE bom = SomeBill /\ catalog = [chip \in {} |-> 0]
  /\ BomInit
  /\ IF part = "grounding" THEN TRUE ELSE judged = SomeQuestion
  /\ GroundingInit
  /\ StatisticsInit /\ ReportInit /\ ChunkingInit /\ DeleteInit /\ WindowInit /\ SlotInit

AnalysisNext ==
  \/ /\ part = "tools" /\ ToolsNext
     /\ UNCHANGED <<bomVars, groundingVars, evalLog, reportVars, text,
                    deleteVars, windowVars, slotVars>>
  \/ /\ part = "bill" /\ BomNext
     /\ UNCHANGED <<toolsVars, groundingVars, evalLog, reportVars, text,
                    deleteVars, windowVars, slotVars>>
  \/ /\ part = "grounding" /\ GroundingNext
     /\ UNCHANGED <<toolsVars, bomVars, evalLog, reportVars, text,
                    deleteVars, windowVars, slotVars>>
  \/ /\ part = "statistics" /\ StatisticsNext
     /\ UNCHANGED <<toolsVars, bomVars, groundingVars, reportVars, text,
                    deleteVars, windowVars, slotVars>>
  \/ /\ part = "report" /\ ReportNext
     /\ UNCHANGED <<toolsVars, bomVars, groundingVars, evalLog, text,
                    deleteVars, windowVars, slotVars>>
  \/ /\ part = "chunking" /\ ChunkingNext
     /\ UNCHANGED <<toolsVars, bomVars, groundingVars, evalLog, reportVars,
                    deleteVars, windowVars, slotVars>>
  \/ /\ part = "delete" /\ DeleteNext
     /\ UNCHANGED <<toolsVars, bomVars, groundingVars, evalLog, reportVars,
                    text, windowVars, slotVars>>
  \/ /\ part = "windows" /\ WindowNext
     /\ UNCHANGED <<toolsVars, bomVars, groundingVars, evalLog, reportVars,
                    text, deleteVars, slotVars>>
  \/ /\ part = "slots" /\ SlotNext
     /\ UNCHANGED <<toolsVars, bomVars, groundingVars, evalLog, reportVars,
                    text, deleteVars, windowVars>>

analysisVars ==
  <<toolsVars, bomVars, groundingVars, evalLog, reportVars, text, deleteVars, windowVars,
    slotVars>>

ComponentsNext ==
  /\ UNCHANGED part
  /\ \/ StoresNext /\ UNCHANGED analysisVars
     \/ AnalysisNext /\ UNCHANGED storesVars

componentsVars == <<part, storesVars, analysisVars>>

ComponentsSpec == ComponentsInit /\ [][ComponentsNext]_componentsVars
=============================================================================
