CONSTANTS
  Contents <- MCContents
  NoContent = "none"
  Hashes <- MCHashes
  NoHash = ""
  HashOf <- MCHashOf
  PortOf <- MCPortOf
  Ext <- MCExt
  KeysOf <- MCKeysOf
  Always <- MCAlways
  Wasi <- MCWasi
  AllowRevert = FALSE
  Faulty <- ButDelOld
  MaxAvail = 1
  MaxWrites = 2
  MaxFaults = 1
  MaxRestarts = 1
  MaxDrops = 0
  MaxRollouts = 0
  MaxChurn = 0
SPECIFICATION FairSpec
CHECK_DEADLOCK FALSE
INVARIANTS IndInv QuiescentConverged GoneMeansAlwaysDeleted
PROPERTIES EventuallyConverged DeletionCompletes ListedUnusedIsDeleted
