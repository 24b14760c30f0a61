--------------------------- MODULE MCChatSession ---------------------------
(* Two tabs and a prompt answered by two models; tabs and models are alike. *)
EXTENDS ChatSession
CONSTANTS t1, t2, a, b
TwoTabs  == {t1, t2}
OneTab   == {t1}
OneRound == <<{a, b}>>
Alike    == Permutations({t1, t2}) \cup Permutations({a, b})
=============================================================================
