\* Three starts let one process come back after the other changed something; three sets are
\* one more than the two that contradict each other, the save that mends them.
SPECIFICATION Spec
CONSTANTS
  Process = {p, q}
  Key = {a, b}
  old = old
  new = new
  Value = {old, new}
  Default <- Defaults
  Absent = absent
  Whole = whole
  Deployments = {TRUE, FALSE}
  MaxSets = 3
  MaxImports = 1
  MaxStarts = 3
  MaxFailures = 1
SYMMETRY Symmetry
INVARIANTS
  TypeOK
  SettingsSurvive
CHECK_DEADLOCK FALSE
