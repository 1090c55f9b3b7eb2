---------------------------- MODULE MCHookNotify ----------------------------
(* Two threads of one process and two windows, a nyamy and its successor. *)
EXTENDS HookNotify, TLC

CONSTANTS t1, t2, w1, w2

MCThreads == {t1, t2}
MCWindows == {w1, w2}
MCSymmetry == Permutations(MCThreads) \union Permutations(MCWindows)
=============================================================================
