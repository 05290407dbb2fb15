SPECIFICATION Spec
CONSTANTS
  t1 = t1  t2 = t2
  Threads <- TwoThreads
  IntMax = 15
  Ranges <- SomeRanges
  BlockDims = {0, 2}
  Patches = {0, 5}
  Shapes <- SomeShapes
  NumCpuThreads = 2
  MinBlock = 2
  MeshBlock = 2
  MeshLoad = 1
  ListgenMax = 3
  GpuBlock = 4
  MaxLaunches = 2
  MaxWrites = 2
INVARIANTS EveryIndexOnce ActiveCellsOnce ReductionsAddUp
PROPERTIES KernelsEnd
CHECK_DEADLOCK FALSE
