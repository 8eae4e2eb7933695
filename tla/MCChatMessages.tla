--------------------------- MODULE MCChatMessages ---------------------------
(* Small instances of ChatMessages for TLC. *)
EXTENDS ChatMessages, TLC

Symmetry == Permutations(Others)
=============================================================================
