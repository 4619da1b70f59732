CONSTANTS
  MaxMsgs = 5
  Patches <- MCPatches
  MayReuse = TRUE
  MayStop = TRUE
SPECIFICATION FairStream
CHECK_DEADLOCK FALSE
INVARIANTS EndOfStream StreamInv
PROPERTIES StreamEnds GoroutineEnds
