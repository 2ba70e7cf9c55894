SPECIFICATION ScenarioSpec
CONSTANTS
  None = None
  j1 = j1
  j2 = j2
  h1 = h1
  h2 = h2
  p1 = p1
  p2 = p2
  p3 = p3
  c1 = c1
  c2 = c2
  Job <- TwoJobs
  Content <- TwoContents
  Path <- OnePath
  Chip <- TwoChips
  UploadPaths <- SharedName
  PartNumber <- ChipOfText
  MaxDocs = 2
  Extraction = {TRUE}
  Ops = {"upload", "ingest", "ingest_async", "ingest_all", "delete"}
  Faults = {"step", "mark", "milvus", "drop", "crash"}
  Settings = {"all"}
  OverlapDocs = 0
  LoopPaths = {}
CHECK_DEADLOCK FALSE
SYMMETRY JobSymmetry
INVARIANTS
  TypeOK
  CompletedIsLinked
  DuplicatesNeedOverlap
  
  ChunksMatchTheirChip
