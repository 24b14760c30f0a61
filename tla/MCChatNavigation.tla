-------------------------- MODULE MCChatNavigation --------------------------
(* Two stored chats, one to be made, three requests at once, two moves. *)
EXTENDS ChatNavigation, TLC
CONSTANTS c1, c2, c3, s1, s2, s3
AllChats   == {c1, c2, c3}
TwoStored  == {c1, c2}
ThreeSlots == {s1, s2, s3}
Alike      == Permutations({c1, c2}) \cup Permutations({s1, s2, s3})
=============================================================================
