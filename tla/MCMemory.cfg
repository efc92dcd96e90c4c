SPECIFICATION MemorySpec
CONSTANTS
  NPages = 8
  MaxOrder = 2
  Requests = {1, 2, 3, 5}
INVARIANTS
  RegionsExact
  HandsOverRam
  BlocksSound
  SlabsSound
PROPERTIES
  KeepsPromise
  SlabKeepsPromise
CHECK_DEADLOCK FALSE
