SPECIFICATION Spec
CONSTANTS
  Sizes <- MCSizes
  ChunkSize = 4
  MinFree = 2
  MaxBytes = 9
INVARIANTS
  RingSound
  ChunkExclusive
  InOrder
PROPERTIES
  NothingLeftBehind
  ImplementsChunkQueue
