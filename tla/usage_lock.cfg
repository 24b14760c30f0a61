\* A lock of 7 ticks; renewals come every 2 to 5 ticks, and retries after 4 or more.
SPECIFICATION LockSpec
CONSTANTS
  Process = {i1, i2}
  NoHolder = none
  Orphan = orphan
  Timeout = 7
  Period = 2
  MaxLag = 3
INVARIANTS
  LockTypeOK
  
PROPERTIES
  ReleasesOwnKey
  GivesUpOnlyToAnother
CHECK_DEADLOCK FALSE
