SPECIFICATION Spec
CONSTANTS
  t1 = t1  t2 = t2  t3 = t3  c1 = c1  c2 = c2  c3 = c3
  Head = Head  Null = Null
  Threads <- ThreeThreads
  Cell <- ThreeCells
  ChunkSize = 2
  MaxN = 5
INVARIANTS ChunksAllocated NoChunkLost
PROPERTIES EndsInPlace OperationsEnd
