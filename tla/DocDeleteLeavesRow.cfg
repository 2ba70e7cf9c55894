SPECIFICATION ScenarioSpec
CONSTANTS
  None = None
  j1 = j1
  j2 = j2
  h1 = h1
  h2 = h2
  p1 = p1
  p2 = p2
  p3 = p3
  c1 = c1
  c2 = c2
  Job <- OneJob
  Content <- OneContent
  Path <- OnePath
  Chip <- OneChip
  UploadPaths <- OwnName
  PartNumber <- OnlyChip
  MaxDocs = 1
  Extraction = {TRUE}
  Ops = {"upload", "ingest", "delete"}
  Faults = {}
  Settings = {"all"}
  OverlapDocs = 0
  LoopPaths = {}
CHECK_DEADLOCK FALSE
PROPERTIES
  DeleteRemovesEverything
