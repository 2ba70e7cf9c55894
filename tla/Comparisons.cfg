SPECIFICATION ToolsSpec
CONSTANTS
  Columns <- DeployedColumns
  Asking <- Calls
  Holdings <- Contents
  ToolFaults = {}
CHECK_DEADLOCK FALSE
INVARIANT ComparisonsAreComplete
