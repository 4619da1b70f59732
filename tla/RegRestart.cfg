SPECIFICATION FairSpec
CONSTANTS
  Ext = {"a", "b"}
  Targets = {"Application", "Work"}
  Specs = {"hosts", "users"}
  NoSpec = NoSpec
  SpecsOf <- Single
  PathsOf <- MCPathsOf
  TargetsOf <- MCTargetsOf
  Always = {}
  Base <- MCBase
  Objects <- MCObjects
  Faulty = {"dial", "crd", "list"}
  MaxWrites = 3
  MaxFaults = 1
  MaxRestarts = 1
PROPERTIES EventuallyServed OperatorStarts
CHECK_DEADLOCK FALSE
