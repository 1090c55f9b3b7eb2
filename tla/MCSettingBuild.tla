--------------------------- MODULE MCSettingBuild ---------------------------
(***************************************************************************)
(* A small language for the model checker: the key a, the keymaps A      *)
(* and B with every way to open them that matters, two sequences that can  *)
(* refer to each other, one modifier.  The key b is never defined.         *)
(***************************************************************************)
EXTENDS SettingBuild

\* Fields in the order TLC keeps them in, lest it sort them while it reads.
Keymap(name, parent, scope, def) ==
    [name |-> name, parent |-> parent, scope |-> scope, cmd |-> "DefKeymap",
     default |-> def]
Reg(name, actions) ==
    [name |-> name, cmd |-> "RegKeySeq", actions |-> actions]
Action(t, name) == [name |-> name, t |-> t]
Mod(op, prefix, ks) ==
    [cmd |-> "AssignMod", op |-> op, prefix |-> prefix, mod |-> "shift",
     keys |-> [i \in DOMAIN ks |-> [mode |-> "oneShot", key |-> ks[i]]]]

MCCommands ==
    { Keymap("A", "B", "Enter", 0), Keymap("B", "", "Block", 1),
      Keymap("B", "A", "Declare", 0),
      [cmd |-> "EndKeymap"],
      [name |-> "a", cmd |-> "DefKey"],
      [name |-> "c", cmd |-> "DefAlias", key |-> "a"],
      [cmd |-> "DefMod", mod |-> "shift", key |-> "a"],
      [cmd |-> "NlsKeys", items |-> <<"a", "c">>],
      Reg("", <<Action("ref", "S"), Action("key", "a")>>),
      Reg("S", <<Action("ref", "S"), Action("func", "Wait"),
                 [t |-> "sub", subs |-> <<Action("key", "b"), Action("ref", "S"),
                                            Action("key", "c")>>]>>),
      Reg("S", <<Action("key", "c"), Action("func", "Oops"),
                 Action("ref", "A")>>),
      [cmd |-> "DefSubst", lhs |-> <<"a", "b">>, rhs |-> 1],
      [cmd |-> "AssignKey", lhs |-> <<"a", "prefixed">>, rhs |-> 1],
      Mod("new", None, <<"a", "b">>), Mod("add", "oneShot", <<"c">>),
      Mod("sub", None, <<"a">>) }
=============================================================================
