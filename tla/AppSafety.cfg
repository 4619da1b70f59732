CONSTANTS
  Contents <- FewContents
  NoContent = "none"
  Hashes <- MCHashes
  NoHash = ""
  HashOf <- FewHashOf
  PortOf <- FewPortOf
  Ext <- MCExt
  KeysOf <- FewKeysOf
  Always <- MCAlways
  Wasi <- MCWasi
  AllowRevert = TRUE
  Faulty <- AllCalls
  MaxAvail = 1
  MaxWrites = 2
  MaxFaults = 1
  MaxRestarts = 0
  MaxDrops = 1
  MaxRollouts = 1
  MaxChurn = 1
SPECIFICATION Spec
CHECK_DEADLOCK FALSE
INVARIANT NoOrphanWorkload
PROPERTIES HashMeansDeployed HashMeansSynced
