SPECIFICATION LibrarySpec
CONSTANTS
  MaxId = 7
  ByteBits = 3
  MaxBits = 7
INVARIANTS
  UniqueGrant
  HintIsLowestFree
  ResultIsFirstZero
  NumbersExact
  StringsExact
CHECK_DEADLOCK FALSE
