SPECIFICATION SignSpec
CONSTANTS
  Flow = {"f1"}
  Reloaded = {}
  Person = {"p1"}
  Email <- Addresses
  Setups <- Complete
  Registrant = {}
  SchemaFits = FALSE
  SignFaults = {}
CHECK_DEADLOCK FALSE
INVARIANT FirstLoginCreatesUser
