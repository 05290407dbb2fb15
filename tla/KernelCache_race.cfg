SPECIFICATION Spec
CONSTANTS
  p1 = p1  p2 = p2  k1 = k1  k2 = k2
  Procs <- TwoProcs
  Keys <- TwoKeys
  Settings <- SharedLru
  MaxSize = 2
  Factor = 2
  MaxUses = 5
  MaxCrashes = 0
  MaxFailedWrites = 0
PROPERTIES DumpStores
