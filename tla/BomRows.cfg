SPECIFICATION BomSpec
CONSTANTS
  Bom <- Bills
  Number = {"5"}
  Volts <- Claims
  Begins <- NumberBegins
  Catalogs <- ChipTables
  Replaceable = {"A1", "A1B"}
  BomFaults = {}
  MaxNewChips = 0
CHECK_DEADLOCK FALSE
INVARIANT EveryRowIsReviewed
