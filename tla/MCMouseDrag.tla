----------------------------- MODULE MCMouseDrag -----------------------------
(* The instance of MouseDrag for TLC: three buttons. *)
EXTENDS MouseDrag, TLC
CONSTANTS L, M, R
MCButton == {L, M, R}
Buttons == Permutations(MCButton)
=============================================================================
