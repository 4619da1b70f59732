CONSTANTS
  WorkerCalls = {"s"}
  WebhookCalls = {"v", "w"}
  Kinds <- MCKinds
  Modules <- MCModules
  Methods = {"get"}
  MaxLoads = 2
  MaxFaults = 1
  None = None
SPECIFICATION Spec
CHECK_DEADLOCK FALSE
INVARIANTS ReadsOwnRequest VerdictOwn FreshModule PermissionsOfTag
