SPECIFICATION KnowledgeSpec
CONSTANTS
  Ingestion = {"i1"}
  Part = {"A", "B", "C"}
  ChipOf <- SameChip
  Name = {"v"}
  Printed <- Kinds
  Other <- Named
  Mentioned <- OftenMentioned
  BuildFaults = {}
CHECK_DEADLOCK FALSE
INVARIANT ErrataAreStored
