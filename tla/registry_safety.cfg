\* Every fault may happen at any time; two items, so that a stop by item can
\* hit the wrong one.
SPECIFICATION Spec
CONSTANTS
  Instance = {i1, i2}
  Task = {t1, t2}
  Item = {x1, x2}
  None = nobody
  Faults = TRUE
  MaxInbox = 2
SYMMETRY Symmetry
INVARIANTS
  TypeOK
  Cancellable
  RegistryConsistent
PROPERTIES
  ImplementsLifecycle
CHECK_DEADLOCK FALSE
