-------------------------- MODULE MCSettingScript --------------------------
(***************************************************************************)
(* Instances of SettingScript with MayuText: one named sequence, two keys, *)
(* arguments within arguments and parentheses, and lines for every kind of *)
(* branch.                                                                 *)
(***************************************************************************)
EXTENDS MayuText

K(c) == [t |-> "key", key |-> c]
Func == [t |-> "func"]
Arg(q) == [t |-> "arg", lit |-> q]
Open == [t |-> "open"]
Shut == [t |-> "close"]

a == <<K("a")>>
c == <<K("c")>>
repeatA == <<Func, Arg(a)>>
repeatC == <<Func, Arg(c)>>
nested == <<K("b"), Func, Arg(repeatA), Arg(a)>>
inParens == <<Open, Func, Arg(repeatC), K("b"), Shut>>

MCKeySeqs == {a, c, repeatA, repeatC, nested, inParens}
MCSize == [q \in MCKeySeqs |-> IF q \in {a, c} THEN 0
                               ELSE IF q \in {repeatA, repeatC} THEN 1 ELSE 3]
MCLiterals == {nested, inParens}
MCSymbols == {"A", "B", "D"}

Yes(s) == [symbol |-> s, negated |-> FALSE]
No(s) == [symbol |-> s, negated |-> TRUE]
If(conds) == [t |-> "if", conds |-> conds]
ElseIf(conds) == [t |-> "elseif", conds |-> conds]
Else == [t |-> "else", conds |-> {}]
EndIf == [t |-> "endif"]
Define(s) == [t |-> "define", symbol |-> s]
Key(k, lit) == [t |-> "key", lit |-> lit, key |-> k]
KeySeq(n, lit) == [t |-> "keyseq", lit |-> lit, name |-> n]
IncludeLine(f) == [t |-> "include", file |-> f]
Bad == [t |-> "bad"]

MCLines == {
    <<If({Yes("B"), No("A")})>>, <<ElseIf({Yes("B")})>>,
    <<Else>>, <<Else, If({No("B")})>>, <<EndIf>>,
    <<If({No("B")}), Define("B")>>, <<If({Yes("A")}), If({No("B")})>>,
    <<Key("k", repeatA)>>, <<IncludeLine("sub")>>}

MCSubTexts == {
    <<<<If({Yes("A")})>>, <<If({Yes("B")}), Bad>>, <<EndIf>>>>,
    <<<<If({Yes("A")})>>, <<If({No("B")})>>, <<Define("B")>>,
      <<ElseIf({Yes("B")})>>, <<Key("j", inParens)>>, <<Else>>, <<Define("A")>>, <<EndIf>>,
      <<Else, If({Yes("B")})>>, <<KeySeq("x", a)>>, <<Else>>, <<Key("k", a)>>, <<EndIf>>,
      <<Define("B")>>, <<EndIf>>, <<If({Yes("B")}), Key("j", nested)>>>>,
    <<<<Define("A")>>, <<If({Yes("B")})>>, <<IncludeLine("gone")>>, <<EndIf>>, <<>>>>}

MCStartSymbols == {{}, {"A"}}

\* scripts are long where the text is short
MCMaxCalls == [n \in 0 .. 4 |-> IF n = 0 THEN 5 ELSE IF n <= 2 THEN 3 ELSE 2]
=============================================================================
