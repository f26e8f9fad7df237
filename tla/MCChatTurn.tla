----------------------------- MODULE MCChatTurn -----------------------------
(* ChatTurn for TLC: stops are alike. *)
EXTENDS ChatTurn, TLC

Symmetry == Permutations(Stops)
=============================================================================
