------------------------------ MODULE AgentTools -------------------------------
(***************************************************************************)
(* The tools the agent is offered and what they do with their backends:    *)
(* src/agent/tool_registry.py, the assembly in src/api/routers/query.py,   *)
(* the tools of src/agent/tools/, and the comparison endpoint of           *)
(* src/api/routers/compare.py.  A tool is a sequence of consultations of   *)
(* backends; what it makes of the rows is formatting.  rag_search and      *)
(* knowledge_search are detailed in Retrieval, bom_review in BomReview.    *)
(***************************************************************************)
EXTENDS Integers, Sequences

CONSTANTS
  Columns,     \* columns of the deployed database, "table.column"
  Asking,      \* the calls considered: records of tool and maker
  Holdings,    \* what the stores may hold for the chips asked for
  ToolFaults   \* backends whose calls may fail

Backend == {"hybrid", "reranker", "graph", "pool", "llm"}

Tool == {"rag_search", "graph_query", "sql_query", "knowledge_search", "chip_compare",
         "chip_select", "bom_review", "design_rule_check", "test_case_gen", "report_export"}

\* Who made the tool: the registry of the agent, or POST /compare.
Maker == {"agent", "compare"}

ASSUME ToolsAssumption ==
  /\ Asking \subseteq [tool : Tool, maker : Maker]
  /\ ToolFaults \subseteq Backend

VARIABLES
  up,       \* backends whose client can be made
  offered,  \* registered tool -> the backends it was given
  invoked,  \* the call: tool, maker, how far it is, and how it ended
  holds,    \* what the stores hold for the chips asked for
  got,      \* the steps that brought rows
  failed    \* the steps that met no backend, a misfit or a fault

toolsVars == <<up, offered, invoked, holds, got, failed>>

-----------------------------------------------------------------------------
(* Assembly of the agent's registry *)

\* Tools made by hand, each when its backends could be made.
ByHand == [rag_search |-> {"hybrid", "reranker"}, graph_query |-> {"graph"},
           sql_query |-> {"pool"}, knowledge_search |-> {"hybrid"}]

\* Their classes that cannot be made without arguments.
Demanding == {"rag_search", "graph_query"}

\* skip_names of discover().
Skipped == {"sql_query", "knowledge_search"}

GivenByHand(b) == [t \in {x \in DOMAIN ByHand : ByHand[x] \subseteq b} |->
                 ByHand[t] \cup (IF t = "rag_search" THEN b \cap {"graph"} ELSE {})]

\* discover() makes an instance of every other class without arguments.
Discovered(known) == [t \in Tool \ (known \cup Demanding \cup Skipped) |-> {}]

\* Mutant: the package is scanned first, and the names are then taken.
OfferDiscoveredFirst(b) ==
  LET d == [t \in Tool \ Demanding |-> {}] IN
    [t \in DOMAIN d \cup DOMAIN GivenByHand(b) |-> IF t \in DOMAIN d THEN {} ELSE GivenByHand(b)[t]]

Offer(b) ==
  LET g == GivenByHand(b) d == Discovered(DOMAIN g) IN
    [t \in DOMAIN g \cup DOMAIN d |-> IF t \in DOMAIN g THEN g[t] ELSE d[t]]

\* The backends the tool of the call has.
Has == IF invoked.maker = "compare" THEN up \cap {"pool", "llm", "hybrid"} ELSE offered[invoked.tool]

-----------------------------------------------------------------------------
(* What the tools do *)

\* A consultation: the backend, the columns its statement reads, what it looks
\* for, the earlier steps without whose rows it is skipped, and what becomes of
\* the call when it is lost or brings no rows.
Consult(b, cols, of, after, ifLost, ifNone) ==
  [backend |-> b, reads |-> cols, of |-> of, after |-> after, ifLost |-> ifLost, ifNone |-> ifNone]

Chips == {"chips.id", "chips.part_number"}

Params == {"chip_parameters.chip_id", "chip_parameters.parameter_name",
           "chip_parameters.parameter_category", "chip_parameters.typ_value", "chip_parameters.unit"}

ByChipId == {"chips.chip_id", "chips.part_number"}

Alternatives == ByChipId \cup {"chip_alternatives.source_chip_id", "chip_alternatives.target_chip_id"}

SearchPlan == <<Consult("hybrid", {}, "chunks", {}, "error", "nothing")>>

\* The fields asked of the notes are those of datasheet_chunks.
NotesPlan == <<Consult("hybrid", {"notes.chunk_id"}, "notes", {}, "nothing", "nothing")>>

GraphPlan == <<Consult("graph", {}, "graph", {}, "error", "go on")>>

SqlPlan == <<Consult("pool", {}, "chips", {}, "error", "go on")>>

ComparePlan == <<
  Consult("pool", Chips, "chips", {}, "go on", "error"),
  Consult("pool", Params, "params", {1}, "go on", "go on"),
  Consult("pool", Chips, "chips of 2", {}, "go on", "error"),
  Consult("pool", Params, "params of 2", {3}, "go on", "go on"),
  Consult("llm", {}, "analysis", {}, "go on", "go on"),
  Consult("hybrid", {}, "chunks", {}, "go on", "go on")>>

SelectPlan == <<
  Consult("pool", ByChipId, "chips", {}, "nothing", "nothing"),
  Consult("pool", Alternatives \cup {"chip_alternatives.is_domestic"}, "alternatives", {1},
          "go on", "go on"),
  Consult("graph", {}, "graph", {1}, "go on", "go on"),
  Consult("llm", {}, "analysis", {1}, "go on", "go on")>>

ReviewPlan == <<
  Consult("pool", ByChipId, "chips", {}, "go on", "go on"),
  Consult("pool", {"chip_parameters.name"}, "params", {1}, "go on", "go on"),
  Consult("pool", Alternatives, "alternatives", {1}, "go on", "go on")>>

DesignPlan == <<
  Consult("pool", ByChipId, "rules", {}, "go on", "go on"),
  Consult("pool", ByChipId \cup {"errata.status"}, "errata", {}, "go on", "go on"),
  Consult("graph", {}, "graph", {2}, "go on", "go on"),
  Consult("hybrid", {}, "chunks", {}, "go on", "go on"),
  Consult("llm", {}, "analysis", {}, "go on", "go on")>>

TestCasePlan == <<
  Consult("pool", ByChipId \cup {"chip_parameters.name"}, "params", {}, "error", "error"),
  Consult("hybrid", {}, "chunks", {}, "go on", "go on"),
  Consult("llm", {}, "analysis", {}, "error", "go on")>>

Plan == [rag_search |-> SearchPlan, knowledge_search |-> NotesPlan, graph_query |-> GraphPlan,
         sql_query |-> SqlPlan, chip_compare |-> ComparePlan, chip_select |-> SelectPlan,
         bom_review |-> ReviewPlan, design_rule_check |-> DesignPlan,
         test_case_gen |-> TestCasePlan, report_export |-> <<>>]

Holding == {"chunks", "notes", "graph", "chips", "params", "chips of 2", "params of 2",
            "analysis", "alternatives", "rules", "errata"}

ASSUME HoldingsAssumption == Holdings \subseteq SUBSET Holding

ToolsTypeOK ==
  /\ up \subseteq Backend
  /\ DOMAIN offered \subseteq Tool /\ \A t \in DOMAIN offered : offered[t] \subseteq Backend
  /\ invoked \in [tool : Tool, maker : Maker, step : 0..7, said : {"pending", "answer", "nothing", "error"}]
  /\ holds \subseteq Holding
  /\ got \subseteq 1..6 /\ failed \subseteq 1..6

ToolsInit ==
  /\ up \in SUBSET Backend
  /\ offered = [t \in {} |-> {}]
  /\ \E a \in Asking : invoked = [tool |-> a.tool, maker |-> a.maker, step |-> 0, said |-> "pending"]
  /\ holds \in Holdings
  /\ got = {} /\ failed = {}

\* The agent is assembled and the call made; the endpoint needs no registry.
Assemble ==
  /\ invoked.step = 0
  /\ offered' = Offer(up)
  /\ invoked.maker = "compare" \/ invoked.tool \in DOMAIN offered'
  /\ invoked' = [invoked EXCEPT !.step = 1]
  /\ UNCHANGED <<up, holds, got, failed>>

Now == Plan[invoked.tool][invoked.step]

Running == invoked.step > 0 /\ invoked.said = "pending"

AtStep == Running /\ invoked.step <= Len(Plan[invoked.tool])

\* A step that goes on, or the end the step gives the call.
Proceed(rule) ==
  invoked' = IF rule = "go on" THEN [invoked EXCEPT !.step = @ + 1] ELSE [invoked EXCEPT !.said = rule]

\* Steps that depend on rows nobody brought.
SkipStep ==
  /\ AtStep /\ ~(Now.after \subseteq got)
  /\ UNCHANGED <<up, offered, holds, got, failed>>
  /\ Proceed("go on")

\* No backend was given, the statement names columns the database lacks, or
\* the backend fails: the error is swallowed as the step says.
LoseStep ==
  /\ AtStep /\ Now.after \subseteq got
  /\ \/ Now.backend \notin Has
     \/ ~(Now.reads \subseteq Columns)
     \/ Now.backend \in ToolFaults
  /\ failed' = failed \cup {invoked.step}
  /\ Proceed(Now.ifLost)
  /\ UNCHANGED <<up, offered, holds, got>>

TakeStep ==
  /\ AtStep /\ Now.after \subseteq got
  /\ Now.backend \in Has /\ Now.reads \subseteq Columns
  /\ UNCHANGED <<up, offered, holds, failed>>
  /\ \/ Now.of \in holds /\ got' = got \cup {invoked.step} /\ Proceed("go on")
     \/ Now.of \notin holds /\ got' = got /\ Proceed(Now.ifNone)

Reply ==
  /\ Running /\ invoked.step > Len(Plan[invoked.tool])
  /\ invoked' = [invoked EXCEPT !.said = "answer"]
  /\ UNCHANGED <<up, offered, holds, got, failed>>

ToolsNext == Assemble \/ SkipStep \/ LoseStep \/ TakeStep \/ Reply

ToolsSpec == ToolsInit /\ [][ToolsNext]_toolsVars

-----------------------------------------------------------------------------

\* A tool that is offered and useless without a backend was given one, however
\* many of the backends could not be made and in whatever order the two ways of
\* registration meet.
OfferedToolsHaveBackends ==
  \A t \in DOMAIN offered \cap DOMAIN ByHand : ByHand[t] \subseteq offered[t]

\* A consultation that fails costs the answer only its own rows and those that
\* can only be asked for with them: whatever else the stores hold is told.
FailuresStayLocal ==
  invoked.said = "answer" =>
    \A i \in DOMAIN Plan[invoked.tool] \ failed :
      LET s == Plan[invoked.tool][i] IN s.of \in holds /\ s.after \subseteq got => i \in got

\* "returns the complete table of the parameters and an analysis of the
\* differences" (docs/DEVELOPMENT_PLAN.md:1808): with every backend up and none
\* failing, the parameters the database holds are in the comparison.
ComparisonsAreComplete ==
  invoked.tool = "chip_compare" /\ invoked.said = "answer" /\ up = Backend =>
    /\ "params" \in holds => 2 \in got
    /\ "params of 2" \in holds => 4 \in got

\* What the tools say is what their backends hold: they have them, and one that
\* fails does not take the others with it.
ToolsTellWhatTheyFind == ToolsTypeOK /\ OfferedToolsHaveBackends /\ FailuresStayLocal
=============================================================================
