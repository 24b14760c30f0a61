---------------------------- MODULE MCAppConfig -----------------------------
(* Two processes, two settings and two values, one of them the default.      *)
EXTENDS AppConfig, TLC

CONSTANTS old, new
Defaults == [k \in Key |-> old]
Symmetry == Permutations(Process) \cup Permutations(Key)
=============================================================================
