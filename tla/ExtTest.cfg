CONSTANTS
  Names = {"a"}
  Extensions <- MCExtensions
  Files <- MCFiles
  Faults = {}
  None = None
SPECIFICATION Spec
CHECK_DEADLOCK FALSE
INVARIANTS FileVerdictExact
PROPERTIES DeleteAcknowledged
