CONSTANTS
  Grpc = {"g"}
  Wasi = {"w"}
  Versions <- MCVersions
  PagesOf <- MCPagesOf
  Own = "own"
  Down = "down"
  None = None
  MaxEdits = 1
  MaxChurn = 2
SPECIFICATION FairSpec
CHECK_DEADLOCK FALSE
INVARIANTS PagesRender OneRelease
PROPERTIES ServedOnce DocsFollow
