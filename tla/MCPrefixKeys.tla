---------------------------- MODULE MCPrefixKeys ----------------------------
(***************************************************************************)
(* Two windows; the keymap W of the first has a prefix to X, X one to Y,   *)
(* and both look other keys up where they came from.                       *)
(***************************************************************************)
EXTENDS PrefixKeys, SequencesExt

Fn(f) == [t |-> "fn", fn |-> f, when |-> Free]
PrefixTo(km, ignore) ==
    [t |-> "fn", fn |-> "Prefix", km |-> km, ignore |-> ignore, when |-> Free]
PrevPrefix(n) == [t |-> "fn", fn |-> "KeymapPrevPrefix", n |-> n, when |-> Free]
Tap(k) == [t |-> "key", key |-> k, when |-> Free]
On(k, shifted, acts) ==
    [key |-> k, shifted |-> shifted, when |-> Free, acts |-> acts]
At(when, given) == [given EXCEPT !.when = when]

MCKeys == {"p", "x", "m", "s", "t"}
MCKeymaps == {"Global", "W", "X", "Y"}
MCParent == [km \in MCKeymaps |-> IF km = "W" THEN "Global" ELSE "none"]

MCAssigned ==
    [Global |-> << On("x", "on", <<[t |-> "fn", fn |-> "EditNextModifier",
                                    shifted |-> "on", when |-> Free]>>),
                   On("after-key-up", Free, <<Tap("x")>>) >>,
     W |-> << On("p", Free, <<PrefixTo("X", TRUE)>>),
              On("m", Free, <<PrefixTo("Y", FALSE),
                              At("up", Fn("CancelPrefix"))>>),
              On("x", "on", <<At("down", Tap("p")), [t |-> "seq", acts |-> <<Tap("m")>>],
                              Fn("KeymapWindow")>>) >>,
     X |-> << On("p", Free, <<PrefixTo("Y", FALSE)>>),
              On("x", "on", <<Fn("CancelPrefix")>>),
              On("x", "off", <<PrevPrefix(2)>>),
              On("prefixed", Free, <<Tap("m")>>) >>,
     Y |-> << On("p", Free, <<PrefixTo("X", FALSE)>>),
              On("m", Free, <<Fn("CancelPrefix")>>),
              At("up", On("t", Free, <<Fn("Default")>>)),
              On("x", Free, <<PrevPrefix(1)>>),
              On("before-key-down", Free, <<Tap("m")>>) >>]

MCDefaultSeq ==
    [Global |-> <<Fn("OtherWindowClass")>>, W |-> <<Fn("KeymapParent")>>,
     X |-> <<Fn("Undefined")>>,
     Y |-> <<[t |-> "fn", fn |-> "Keymap", km |-> "W", when |-> Free]>>]

\* the actions of all sequences, with those of the sequences in them
RECURSIVE Within(_)
Within(acts) ==
    ToSet(acts) \union
    UNION {IF a.t = "seq" THEN Within(a.acts) ELSE {} : a \in ToSet(acts)}

MCModeOf ==
    [km \in MCKeymaps |-> [k \in MCKeys |->
        CASE k = "m" -> "normal"
          [] k = "t" /\ km = "W" -> "oneShot"
          [] k = "s" /\ km = "Global" -> "oneShotRepeatable"
          [] k = "s" /\ km = "W" -> "oneShot"
          [] OTHER -> "none"]]

MCKeymapsOf == [w1 |-> <<"W", "Global">>, w2 |-> <<"Global">>]

By(key, acts) == [key |-> key, acts |-> acts]
MCAdHoc == {By("s", <<Tap("p")>>), By("x", <<Tap("x"), PrefixTo("X", FALSE)>>)}
MCLooking == {By("x", <<Tap("p"), Fn("KeymapWindow")>>)}
MCActions ==
    UNION {Within(given.acts) : given \in
              {[acts |-> MCDefaultSeq[km]] : km \in MCKeymaps}
              \union UNION {ToSet(MCAssigned[km]) : km \in MCKeymaps}
              \union MCAdHoc \union MCLooking}
=============================================================================
