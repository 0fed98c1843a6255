SPECIFICATION Spec
CONSTANTS
  None = None
  Bad = Bad
  t1 = t1
  s1 = s1
  ip = ip
  path = path
  Streams = {t1}
  Sessions = {s1}
  MaxIssued = 2
  Calls = {c1}
  c1 = c1
  Files <- MCFiles
  Envs <- MCEnvs
CONSTRAINTS FewServed FewCredentials
INVARIANTS
  NoOwnConflict
  NothingLeft
  RevokeDeletes
PROPERTIES
  RevokedForGood
  SlotComesBack
  CloseReturns
CHECK_DEADLOCK FALSE
