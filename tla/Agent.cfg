SPECIFICATION Spec
CONSTANTS
  MaxIterations = 2
  MaxTokens = 4
  Usage = {0, 3, 5}
  Registered = {"sql_query"}
  Name = {"sql_query", "made_up"}
  CallId = {"a", "b"}
  MaxCalls = 2
CHECK_DEADLOCK FALSE
INVARIANTS
  TypeOK
  OverrunIsOneAnswer
  LogIsComplete
  RunsAreOrderly
PROPERTIES
  ImplementsContract
  RunEnds
