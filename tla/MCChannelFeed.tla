---------------------------- MODULE MCChannelFeed ----------------------------
(* Two channels and a thread, pages of two, three messages. *)
EXTENDS ChannelFeed, TLC
CONSTANTS c1, c2, t, s1, s2
TwoChannels == {c1, c2}
OneThread   == {t}
TwoSlots    == {s1, s2}
Alike       == Permutations({c1, c2}) \cup Permutations({s1, s2})
=============================================================================
