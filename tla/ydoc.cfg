SPECIFICATION FairSpec
CONSTANTS
  Sid = {s1, s2}
  None = none
  Modes = {TRUE, FALSE}
  MaxUpdate = 2
  MaxShared = 2
  Overlap = FALSE
INVARIANTS TypeOK JoinersMissNothing
PROPERTIES LocallyClearedWhenEmpty 
CHECK_DEADLOCK FALSE
