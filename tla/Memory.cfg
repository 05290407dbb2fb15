SPECIFICATION MemorySpec
CONSTANTS
  d1 = d1  d2 = d2  d3 = d3  d4 = d4  h1 = h1  h2 = h2  h3 = h3
  Handles <- FourHandles
  PageSize = 2
  BufferSize = 10
  ObjectSizes = {1}
  AllocSizes <- SomeSizes
  AmbientSizes = {1}
  Merging <- BothModes
  HostHandles <- ThreeHandles
  HostPage = 2
  Space = 12
  DefaultSize = 4
  PieceSizes = {1, 2, 5}
  Alignments = {1, 2}
  DeviceSizes = {1, 4}
  MaxPieces = 4
  MaxPrograms = 2
SYMMETRY Sym
INVARIANTS AllocationsDisjoint ObjectsKept NothingLost MapListsBlocks
  DeviceMemoryKept PiecesKept ChunksBacked
CHECK_DEADLOCK FALSE
