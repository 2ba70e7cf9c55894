SPECIFICATION ServingSpec
CONSTANTS
  r1 = r1
  r2 = r2
  p1 = p1
  p2 = p2
  Ask = {r1, r2}
  Streamed = {r2}
  Wants <- SameQuestion
  AnswerChars = 3
  ChunkChars = 2
  Client = {r1, r2}
  Streaming = {r2}
  MaxOutages = 1
  Calls <- CallsOfAllKinds
  MaxBatch = 2
  Provider <- DefaultProviders
  ServiceFaults = {"load", "crash", "slow"}
  MaxCrashes = 1
CHECK_DEADLOCK FALSE
INVARIANTS
  OneAnswerIsTold
  OnlyGoodAnswersAreShared
  ServicesAreAsTheySay
PROPERTIES
  OnlyOverlapRebuilds
  RequestsEnd
  CapacityComesBack
