SPECIFICATION AspaceSpec
CHECK_DEADLOCK FALSE
CONSTANTS
  Tasks = {t1, t2, t3}
  Machines <- MCMachines
SYMMETRY TaskSymmetry
INVARIANTS
  MappedOnce
  NothingLost
  PrivateMemory
