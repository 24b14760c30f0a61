---------------------------- MODULE MCChatLibrary ----------------------------
(***************************************************************************)
(* ChatLibrary for TLC: identifiers of chats are interchangeable.          *)
(***************************************************************************)
EXTENDS ChatLibrary, TLC

Symmetry == Permutations(Chat)
=============================================================================
