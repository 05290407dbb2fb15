SPECIFICATION Spec
CONSTANTS
  t1 = t1  t2 = t2  t3 = t3  s1 = s1  s2 = s2  s3 = s3
  Threads <- ThreeThreads
  Slots <- ThreeSlots
  ChunkElements = 2
  MaxCells = 3
  MaxTasks = 1
  Arches <- AllArches
INVARIANT PtrFound
