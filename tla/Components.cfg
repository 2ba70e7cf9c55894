SPECIFICATION ComponentsSpec
CONSTANTS
  r1 = r1
  r2 = r2
  r3 = r3
  p1 = p1
  p2 = p2
  Columns <- DeployedColumns
  Asking <- Calls
  Holdings <- Contents
  ToolFaults = {"pool", "graph", "llm", "hybrid"}
  Bom <- Bills
  Number = {"5"}
  Volts <- Claims
  Begins <- NumberBegins
  Catalogs <- ChipTables
  Replaceable = {"A1", "A1B"}
  BomFaults = {"match", "conflicts", "alternative"}
  MaxNewChips = 1
  Figure <- FiguresSeen
  Text <- AnswerTexts
  Evidence <- Citations
  MinCitations = 2
  MinTop = 35
  MinMean = 25
  MaxUnsupported = 40
  MinUnsupported = 2
  Top = 4
  Scores <- ScoresSeen
  Times = {0, 2, 3, 5}
  Today = 6
  Window = 3
  Bucket = 2
  Bins = 2
  OutlierLimit = 1
  MaxRecords = 3
  Report = {"a", "b", "c", "d"}
  Format <- FormatOf
  Installed = {"word", "cases csv"}
  ReportFaults = {"build", "write"}
  LastSecond = 2
  SentenceLengths = {1, 4, 9}
  MaxSentences = 3
  ChunkSize = 7
  Overlap = 3
  ParentSize = 12
  MinSize = 3
  MinBody = 2
  Deleter = {r1, r2}
  Store = {"pg", "milvus", "graph", "redis"}
  DeleteFaults = {"lookup", "milvus", "graph", "pg", "file", "publish"}
  Hit = {r1, r2, r3}
  PerMinute = 2
  PerHour = 2
  MinuteTicks = 1
  HourTicks = 2
  LastTick = 2
  Caller = {r1, r2, r3}
  Process = {p1, p2}
  Home <- HomeOf
  MaxSlots = 1
  MaxTries = 1
  SlotTtl = 2
  SlotFaults = {"redis", "crash"}
  MaxLost = 1
  Request <- Requests
  Past <- OldList
  Role <- Roles
  Length <- Lengths
  Pinned <- Pins
  MaxTurns = 2
  Threshold = 3
  CompactionBudget = 7
  SummaryMax = 2
  CheckpointLimit = 2
  PinnedLimit = 2
  PromptBudget = 6
  RecentAlways = 1
  Flow = {"f1", "f2"}
  Reloaded = {"f1"}
  Person = {"p1", "p2"}
  Email <- Addresses
  Setups <- Deployments
  Registrant = {r1}
  SchemaFits = TRUE
  SignFaults = {"redis", "provider", "pg"}
  Ingestion = {"i1", "i2"}
  Part = {"A", "B", "C"}
  ChipOf <- SameChip
  Name = {"v"}
  Printed <- Kinds
  Other <- Named
  Mentioned <- OftenMentioned
  BuildFaults = {"insert", "pg"}
  Query = {"q1", "q2"}
  AskedBy <- UserOf
  Explicit = {"q1"}
  Word = {"v", "w"}
  Says <- WordsOf
  Alike <- AllAlike
  ToolName = {"sql"}
  MemoryFaults = {"read", "procedure"}
  MaxDecisions = 1
  Asker = {1, 2, 3}
  Asks <- QuestionOf
  Resembles <- EachItself
  AboutChip = {"compare"}
  Comparison = {"compare"}
  BucketSize = 1
  MaxRevision = 1
  Chunk = {1, 2, 3, 4}
  PartNo = {"a", "b"}
  PartOf <- PartOfChunk
  Ranking <- OppositeOrders
  Asked <- Searches
  SparseMethod = "bgem3"
  RetrievalFaults = {"encode", "hybrid", "dense", "rerank", "graph"}
  MaxStoreChanges = 2
CHECK_DEADLOCK FALSE
INVARIANTS
  ToolsAreComplete
  
  DashboardsAccountForTheLog
  PromisesAreKept
  
  RemainsAreExplained
  
  SessionsKeepWhatWasSaid
  
  
  ResultsAreWhatWasFound
PROPERTIES
  
  CacheFollowsTheChips
