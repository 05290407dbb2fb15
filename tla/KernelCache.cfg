SPECIFICATION Spec
CONSTANTS
  p1 = p1  p2 = p2  k1 = k1  k2 = k2
  Procs <- TwoProcs
  Keys <- TwoKeys
  Settings <- AllSettings
  MaxSize = 2
  Factor = 2
  MaxUses = 3
  MaxCrashes = 1
  MaxFailedWrites = 1
INVARIANTS MetaAccounts EntriesBacked
PROPERTIES ListedFilesStable DumpStoresUnraced SessionEnds
