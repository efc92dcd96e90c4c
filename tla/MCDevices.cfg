SPECIFICATION Spec
CONSTANTS
  Lbas <- MCLbas
  Counts = {0, 1, 3, 4, 5}
  Byte = 4
  Tries = 3
  LBA = TRUE
INVARIANTS
  
  HistorySound
  TransfersExact
  DevicesSound
PROPERTIES
  CallsEnd
CHECK_DEADLOCK FALSE
