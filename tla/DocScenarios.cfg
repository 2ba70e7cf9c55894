SPECIFICATION ScenarioSpec
CONSTANTS
  None = None
  j1 = j1
  j2 = j2
  h1 = h1
  h2 = h2
  p1 = p1
  p2 = p2
  p3 = p3
  c1 = c1
  c2 = c2
  Job <- TwoJobs
  Content <- TwoContents
  Path <- ThreePaths
  Chip <- TwoChips
  UploadPaths <- DisjointNames
  PartNumber <- ChipOfName
  MaxDocs = 3
  Extraction = {FALSE}
  Ops = {"upload", "ingest", "ingest_async", "ingest_all", "delete"}
  Faults = {"save", "step", "unlink"}
  Settings = {"loops", "serial", "reingest"}
  OverlapDocs = 2
  LoopPaths <- TwoPaths
CHECK_DEADLOCK FALSE
INVARIANTS
  ProcessingIsOwned
  RowsFilesAndChunksAgree
PROPERTIES
  IngestionsEnd
