SPECIFICATION BackgroundSpec
CONSTANTS
  b1 = b1
  b2 = b2
  b3 = b3
  c1 = c1
  Chain = {c1}
  Followed <- FollowedTasks
  Blank = {}
  Viewer = {v1, v2}
  ChainFaults = {"download", "file", "extract", "worker", "redis"}
  MaxRetries = 2
  MaxDeaths = 1
  File = {f1}
  Scrap = {x}
  Link = {f1, x}
  Debounce = 2
  IntakeFaults = {"download", "write", "submit", "watcher"}
  MaxCreations = 2
  Batch = {b1, b2, b3}
  Casts = {{b1, b2}, {b1, b3}}
  CliRun = {b3}
  GoldenRun = {b2}
  Sample <- SamplesOf
  ProgressEvery = 2
  Evaluation = {"a", "c", "b"}
  Online = {"a", "c"}
  Wanted <- MetricsOf
  Samples <- AnswersSeen
  Replies <- JudgeReplies
  MaxParallel = 1
  MaxK = 2
  MaxIterations = 3
  EvalFaults = {"factory", "disk", "crash"}
  MaxExits = 1
CHECK_DEADLOCK FALSE
INVARIANTS
  StoredIsExplained
  ArrivalsAreAccounted
  OnlineIsLimited
  
PROPERTIES
  OnlyRacesDamageFiles
  OnlyRacesHurtBatches
  BackgroundWorkEnds
