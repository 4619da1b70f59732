SPECIFICATION Spec
CONSTANTS
  Ext = {"a", "b"}
  Targets = {"Application", "Work"}
  Specs = {"hosts", "hosts2", "users2", "bare", "stolen"}
  NoSpec = NoSpec
  SpecsOf <- Mixed
  PathsOf <- MCPathsOf
  TargetsOf <- BothTargets
  Always = {}
  Base <- MCBase
  Objects <- MCObjects
  Faulty = {"finalizer", "dial", "init", "crd", "status"}
  MaxWrites = 3
  MaxFaults = 1
  MaxRestarts = 1
INVARIANTS SchemaExact SchemaCovers QuiescentServed NoGhost
CHECK_DEADLOCK FALSE
