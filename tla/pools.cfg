SPECIFICATION FairSpec
CONSTANTS
  i1 = i1  i2 = i2  s1 = s1  s2 = s2  s3 = s3  u1 = u1  u2 = u2
  Instance = {i1, i2}
  User = {u1, u2}
  Sid <- MCSid
  Home <- MCHome
  Owner <- MCOwner
  Cleaner = i1
  Pinger = {s1, s2}
  None = none
  Crashes = TRUE
INVARIANTS TypeOK PoolExact QuitsComplete
PROPERTIES UnusedIsDelisted
CHECK_DEADLOCK FALSE
