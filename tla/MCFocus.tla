------------------------------ MODULE MCFocus ------------------------------
(* A hooked thread with two windows and a menu, and a console.              *)
EXTENDS Focus, TLC

CONSTANTS T1, A1, A2, C1

MCOwner == (A1 :> T1) @@ (A2 :> T1) @@ (C1 :> Console)
=============================================================================
