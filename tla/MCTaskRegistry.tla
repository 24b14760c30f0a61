--------------------------- MODULE MCTaskRegistry ---------------------------
(* TaskRegistry with its symmetries, for runs that check safety alone.       *)
EXTENDS TaskRegistry, TLC

Symmetry == Permutations(Instance) \cup Permutations(Task) \cup Permutations(Item)

=============================================================================
