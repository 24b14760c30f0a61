\* No faults. Commands that queue behind each other are in registry_safety; here
\* one command at a time keeps the graph small enough for liveness.
SPECIFICATION FairSpec
CONSTANTS
  Instance = {i1, i2}
  Task = {t1, t2}
  Item = {x1}
  None = nobody
  Faults = FALSE
  MaxInbox = 1
PROPERTIES
  StopsReach
  EndedIsForgotten
CHECK_DEADLOCK FALSE
