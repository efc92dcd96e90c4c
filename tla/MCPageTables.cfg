SPECIFICATION Spec
CONSTANTS
  Users = {u1, u2}
  KDir = k
  NPde = 3
  NPte = 2
  PAGE_SIZE = 2
  Kde = 2
  Tables = {t1, t2, t3, t4}
  Frames = {f1, f2}
  NULL = NULL
  UserPages = {1, 2, 3}
  Walked = {1, 2, 3, 5}
SYMMETRY Symmetry
INVARIANTS
  CachesCoherent
  TablesOwnedOnce
  MappedAsAsked
  CopyChecksRange
