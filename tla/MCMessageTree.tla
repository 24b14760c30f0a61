--------------------------- MODULE MCMessageTree ---------------------------
(* A chat of four messages, prompts to at most two models, two requests at once. *)
EXTENDS MessageTree
=============================================================================
