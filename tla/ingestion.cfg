SPECIFICATION Spec
CONSTANTS
  Callers = {upload, scan}
  Owners = {alice}
  NoOwner = NoOwner
  c1 = c1  c2 = c2
  Contents = {c1, c2}
  Size <- MCSize
  Ids = {i1, i2, i3}
  Days = {1, 2}
  StorageLimit = 2
  DailyLimit = 1
SYMMETRY CallerSymmetry
INVARIANTS TypeOK UniqueContent StorageWithinLimit CounterCoversAccepted FilesMatchRows
CHECK_DEADLOCK FALSE
