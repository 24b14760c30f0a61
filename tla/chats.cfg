SPECIFICATION Spec
CONSTANTS
  User = {alice, root}
  Admin = {root}
  Chat = {c1, c2, c3}
  Nobody = Nobody
SYMMETRY Symmetry
INVARIANTS TypeOK SharesAndCopies
PROPERTY TagLostOnlyByDeletionOrSearch
