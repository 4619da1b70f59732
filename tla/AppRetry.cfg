CONSTANTS
  Contents <- MCContents
  NoContent = "none"
  Hashes <- MCHashes
  NoHash = ""
  HashOf <- MCHashOf
  PortOf <- MCPortOf
  Ext <- MCExt
  KeysOf <- MCKeysOf
  Always <- MCAlways
  Wasi <- MCWasi
  AllowRevert = FALSE
  Faulty <- OnlyDelOld
  MaxAvail = 1
  MaxWrites = 2
  MaxFaults = 1
  MaxRestarts = 0
  MaxDrops = 0
  MaxRollouts = 0
  MaxChurn = 0
SPECIFICATION FairSpec
CHECK_DEADLOCK FALSE
PROPERTY ListedUnusedIsDeleted
