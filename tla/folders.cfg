SPECIFICATION FoldersSpec
CONSTANTS
  f1 = f1  f2 = f2  f3 = f3  n1 = n1  n2 = n2
  Folder = {f1, f2, f3}
  Filed = {c1}
  Name = {n1, n2}
  Similar <- MCSimilar
  Root = root
  Gone = gone
  Depth = 4
  MaxPending = 2
SYMMETRY MCSymmetry
INVARIANTS FoldersTypeOK
PROPERTIES DeletionIsClean TwinsByCreationOrRescue
CHECK_DEADLOCK FALSE
