----------------------------- MODULE MCKeyState -----------------------------
(* The instance of KeyState for TLC: a mouse button, a letter and a modifier; *)
(* the second Setting defines the modifier only, so a button passes through.  *)
EXTENDS KeyState, TLC
CONSTANTS Left, Letter, Shift, S1, S2
MCKey == {Left, Letter, Shift}
MCButton == {Left}
MCVerifiable == {Left, Letter}
MCModifier == {Shift}
MCPlain == {Left, Letter}
MCSetting == {S1, S2}
MCKeysOf == S1 :> MCKey @@ S2 :> {Shift}
=============================================================================
