SPECIFICATION Spec
CONSTANTS
  PageSize = 16
  SlabHdr = 4
  MinSize = 4
  Threshold = 4
  NCaches = 1
  Zones <- MCZones
INVARIANT
  HeldIsNotFree
CHECK_DEADLOCK FALSE
