CONSTANTS
  Slots = {c1, c2}
  Revisions <- MCRevisions
  Specs = {"a", "b"}
  Bad = "bad"
  Empty = ""
  Gone = "gone"
  None = None
  Shown = {"a"}
  HasWebhooks = TRUE
  UsesOwner = TRUE
  MaxFaults = 1
  MaxEnds = 2
  MaxWebhooks = 1
SPECIFICATION FairSpec
CHECK_DEADLOCK FALSE
INVARIANTS AnsweredMeansRouted
PROPERTIES NoCallCut SyncedInTheEnd
