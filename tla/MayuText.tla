------------------------------ MODULE MayuText ------------------------------
(***************************************************************************)
(* The text of .mayu files: what the parser (mayu_parser.cpp) and the      *)
(* compiler's visits (mayu_compiler.cpp) make of it for SettingScript,     *)
(* namely a file's statements that are in force.                           *)
(*                                                                         *)
(* A file is a sequence of lines, a line a sequence of pieces: "if",       *)
(* "elseif" with conditions, "else", "endif", and statements.  "bad"       *)
(* stands for all syntax errors.  Files do not include themselves.         *)
(*                                                                         *)
(* Two definitions of what a configuration means meet in the property: the *)
(* code's (a parse tree, a compiler for each file that follows symbols and *)
(* includes), and that of a reader who goes through script and text line   *)
(* by line.                                                                *)
(***************************************************************************)
EXTENDS SettingScript

(***************************************************************************)
(* The parser.  P[kind, i, j] parses line i from piece j on: "stmt" one    *)
(* statement (parseLine), which may go on over lines; "block" the rest of  *)
(* a multi-line if (the loop of parseConditional), split into the          *)
(* statements up to the next branch and the branches; "file" the rest of   *)
(* the file (parseBuffer).  What follows a statement on its last line is   *)
(* skipped.                                                                *)
(***************************************************************************)
Branch(conds, body) == [conds |-> conds, body |-> body]

IsBranch(p) == p.t \in {"elseif", "else"}

Unbalanced(p) == IsBranch(p) \/ p.t = "endif"

Parse(text) ==
    LET N == Len(text)
        Eol(i, j) == j > Len(text[i])
        None(i) == [nodes |-> <<>>, line |-> i, err |-> FALSE, tail |-> <<>>]
        P[kind \in {"stmt", "block", "file"}, i \in 1 .. N + 1, j \in Nat] ==
            IF kind = "stmt" THEN
                LET p == text[i][j]
                    inner == IF Eol(i, j + 1) THEN P["block", i + 1, 1]
                             ELSE P["stmt", i, j + 1]
                IN  CASE p.t = "if" ->
                           [nodes |-> <<[t |-> "if", branches |->
                                <<Branch(p.conds, inner.nodes)>> \o inner.tail]>>,
                            line |-> inner.line, err |-> inner.err, tail |-> <<>>]
                      [] p.t = "bad" \/ Unbalanced(p) -> [None(i) EXCEPT !.err = TRUE]
                      [] OTHER -> [None(i) EXCEPT !.nodes = <<p>>]
            ELSE IF i > N THEN [None(N) EXCEPT !.err = kind = "block"]
            ELSE IF Eol(i, 1) THEN P[kind, i + 1, 1]
            ELSE IF kind = "block" /\ text[i][1].t = "endif" THEN None(i)
            ELSE LET p == text[i][1]
                     branch == kind = "block" /\ IsBranch(p)
                     st == IF ~branch THEN P["stmt", i, 1]
                           ELSE IF Eol(i, 2) THEN None(i) ELSE P["stmt", i, 2]
                     rest == P[kind, st.line + 1, 1]
                     body == st.nodes \o rest.nodes
                 IN  [nodes |-> IF branch THEN <<>> ELSE body,
                      tail  |-> IF branch THEN <<Branch(p.conds, body)>> \o rest.tail
                                ELSE rest.tail,
                      line  |-> rest.line, err |-> st.err \/ rest.err]
    IN  P["file", 1, 1]

-----------------------------------------------------------------------------
(***************************************************************************)
(* The compiler: the statements of the branches that are taken, with the   *)
(* symbols as they are when it gets there.                                 *)
(***************************************************************************)
Holds(conds, syms) == \A q \in conds : (q.symbol \in syms) # q.negated

TakenBody(branches, syms) ==
    LET taken == SelectInSeq(branches, LAMBDA b : Holds(b.conds, syms))
    IN  IF taken = 0 THEN <<>> ELSE branches[taken].body

\* a file that cannot be found is like one with an error in it and no tree
ParseFile(texts, f) ==
    IF f \in DOMAIN texts THEN Parse(texts[f]) ELSE [nodes |-> <<>>, err |-> TRUE]

RECURSIVE Compile(_, _, _)
Compile(texts, st, nodes) ==
    FoldLeft(LAMBDA s, n :
        IF n.t = "if" THEN Compile(texts, s, TakenBody(n.branches, s.symbols))
        ELSE IF n.t = "include" THEN
            LET parsed == ParseFile(texts, n.file)
            IN  Compile(texts, [s EXCEPT !.err = @ \/ parsed.err], parsed.nodes)
        ELSE [s EXCEPT !.symbols = IF n.t = "define" THEN @ \union {n.symbol} ELSE @,
                       !.stmts = Append(@, n)],
    st, nodes)

\* parseFile() and compile() of a file the script includes: an error of the
\* parser comes before any statement
CompileFile(texts, f, syms) ==
    LET parsed == ParseFile(texts, f)
    IN  Compile(texts, [stmts |-> <<>>, symbols |-> syms, err |-> parsed.err],
                IF parsed.err THEN <<>> ELSE parsed.nodes)

-----------------------------------------------------------------------------
(***************************************************************************)
(* What a configuration means, line by line.  An if that ends its line is  *)
(* open until its endif, another one until the end of the line.  on: the   *)
(* text is in force; done: no later branch will be.                        *)
(***************************************************************************)
On(r) == r.frames = <<>> \/ Last(r.frames).on

RECURSIVE ReadFile(_, _)
ReadFile(r, f) ==
    LET WithTop(s, on, done) ==
            [s EXCEPT !.frames = Append(Front(@),
                          [on |-> on, done |-> done, single |-> FALSE])]
        Put(s, x) == [s EXCEPT !.out = Append(@, x)]
        Piece(s, p, first, last) ==
            LET open == s.frames # <<>>
                top == Last(s.frames)
            IN  CASE p.t = "if" ->
                       LET now == Holds(p.conds, s.symbols) IN
                       [s EXCEPT !.frames = Append(@,
                            [on |-> On(s) /\ now, done |-> ~On(s) \/ now, single |-> ~last])]
                  [] IsBranch(p) /\ first /\ open ->
                       LET now == ~top.done /\ Holds(p.conds, s.symbols)
                       IN  WithTop(s, now, top.done \/ now)
                  [] p.t = "endif" /\ first /\ open -> [s EXCEPT !.frames = Front(@)]
                  [] p.t = "bad" \/ Unbalanced(p) -> [s EXCEPT !.err = TRUE]
                  [] ~On(s) -> s
                  [] p.t = "define" -> [s EXCEPT !.symbols = @ \union {p.symbol}]
                  [] p.t = "keyseq" -> Put(s, [name |-> p.name, lit |-> p.lit, key |-> ""])
                  [] p.t = "key" -> Put(s, [name |-> "", lit |-> p.lit, key |-> p.key])
                  [] p.t = "include" -> ReadFile(s, p.file)
        Line(s, l) ==
            LET cut == IF l # <<>> /\ l[1].t = "endif" THEN <<l[1]>> ELSE l
                read == FoldLeft(LAMBDA q, j :
                            Piece(q, cut[j], j = 1, j = Len(cut)),
                        s, [j \in DOMAIN cut |-> j])
                closed == SelectLastInSeq(read.frames, LAMBDA x : ~x.single)
            IN  [read EXCEPT !.frames = SubSeq(@, 1, closed)]
        end == IF f \in DOMAIN files
               THEN FoldLeft(Line, [r EXCEPT !.frames = <<>>], files[f])
               ELSE [r EXCEPT !.err = TRUE, !.frames = <<>>]
    IN  [end EXCEPT !.err = @ \/ end.frames # <<>>, !.frames = r.frames]

(***************************************************************************)
(* The script's symbols come before any text, wherever it defines them;    *)
(* of the rest what it did since the last reset counts.                    *)
(***************************************************************************)
Reading ==
    LET resets == {i \in DOMAIN calls : calls[i].t = "reset"}
        since == SubSeq(calls, Max(resets \union {0}) + 1, Len(calls))
        Of(c, t) == SelectSeq(c, LAMBDA x : x.t = t)
        named == SelectSeq(Of(since, "reg"), LAMBDA x : x.name # "")
        start == [symbols |-> calls[1].symbols \union Defaults
                              \union {x.symbol : x \in ToSet(Of(calls, "define"))},
                  out |-> [i \in DOMAIN named |->
                              [name |-> named[i].name, lit |-> named[i].lit, key |-> ""]],
                  err |-> FALSE, frames |-> <<>>]
    IN  FoldLeft(LAMBDA r, x :
            CASE x.t = "assign" ->
                   [r EXCEPT !.out = Append(@, [name |-> x.name, lit |-> x.lit, key |-> x.key])]
              [] x.t = "include" -> ReadFile(r, x.file)
              [] OTHER -> r,
        start, since)

Complete == Last(stream).c = "Commit"

(***************************************************************************)
(* A configuration is applied exactly when a reader finds no error in it,  *)
(* and then its statements are those in force, in order, with the symbols  *)
(* they define: `define` is seen by every later `if`, in nested files as   *)
(* in files the script loads one after the other (mruby-binding.md), a     *)
(* branch by the conditions at that place, and nothing of an earlier load  *)
(* or from before a reset comes through.                                   *)
(***************************************************************************)
ReadAsWritten ==
    Flushed =>
        LET r == Reading
            Written(s) == [i \in DOMAIN s |-> [name |-> s[i].name, lit |-> s[i].lit,
                                               key |-> s[i].key]]
            InStream(c) == SelectSeq(stream, LAMBDA x : x.c = c)
            Given(n) == SelectSeq(r.out, LAMBDA x : x.key = "" /\ x.name = n)
        IN  /\ Complete <=> ~r.err
            /\ Complete =>
                 /\ Written(InStream("AssignKey")) = SelectSeq(r.out, LAMBDA x : x.key # "")
                 /\ {x.symbol : x \in ToSet(InStream("DefSymbol"))} = r.symbols
                 /\ \A n \in Names :
                      meant[n] = IF Given(n) = <<>> THEN {} ELSE {Last(Given(n)).lit}
=============================================================================
