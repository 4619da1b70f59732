CONSTANTS
  Ext = {"x", "y", "z"}
  Defaulting = {"x", "y"}
  Validating = {"y", "z"}
  RootKeys <- MCRootKeys
  Answers <- MCAnswers
  Keys <- MCKeys
  Vals <- MCVals
  None = "none"
  Null = "null"
  NoObj = NoObj
  MaxRequests = 2
  MaxChurn = 1
SPECIFICATION Spec
CHECK_DEADLOCK FALSE
INVARIANTS VerdictExact
PROPERTIES AdmittedIsChecked LastDefaultWins
