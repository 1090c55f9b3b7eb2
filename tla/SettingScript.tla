--------------------------- MODULE SettingScript ---------------------------
(***************************************************************************)
(* From a configuration to the command stream of a Setting, in the         *)
(* scripter: a script registers key sequences, assignments and .mayu files *)
(* (nyamy_scripter.cpp), and when it returns flushQueue() writes the       *)
(* stream and compiles the files as it comes to them (mayu_compiler.cpp).  *)
(* Which statements of a file are in force is MayuText's; what the reader  *)
(* of the stream makes of it is SettingBuild's.                            *)
(*                                                                         *)
(* A key sequence is a sequence of pieces: keys, references to named       *)
(* sequences, parentheses, names of functions and, after such a name, the  *)
(* arguments.  An argument [t |-> "arg", lit |-> q] is a key sequence      *)
(* itself.  "keyseq" and "key" stand for all statements with a right-hand  *)
(* side.                                                                   *)
(*                                                                         *)
(* Sequences are referred to by index, the number of RegKeySeq commands    *)
(* before theirs.  What was written is kept beside each index (name, lit), *)
(* for the properties.                                                     *)
(***************************************************************************)
EXTENDS Naturals, SequencesExt, FiniteSetsExt

CONSTANTS
    KeySeqs,        \* the key sequences that may be written
    Size,           \* of each, a bound for the pieces within its arguments
    Literals,       \* those a script registers
    Names, Keys, Symbols,   \* of key sequences, keys and symbols
    ScriptSymbols,  \* symbols a script defines
    Defaults,       \* g_defaultSymbols
    StartSymbols,   \* the symbol sets that Start may carry
    Lines,          \* the lines a file may have
    SubTexts,       \* texts of the file "sub", which "main" may include
    Compiled(_, _, _),  \* a file's statements in force, see MayuText
    MaxLines,       \* bound: lines of "main"
    MaxCalls        \* bound: calls, Start being one, by the lines of "main"

IsList(s) == s \in Seq(ToSet(s))

\* Sequences are finite, and so are the trees of their arguments.
ASSUME KeySeqsAssumption ==
    /\ Literals \subseteq KeySeqs
    /\ \A q \in KeySeqs :
        /\ IsList(q) /\ Size[q] \in Nat
        /\ \A i \in DOMAIN q :
            /\ q[i].t # "idx"
            /\ q[i].t = "arg" => /\ q[i].lit \in KeySeqs
                                 /\ Size[q[i].lit] + Len(q[i].lit) <= Size[q]

ASSUME SymbolsAssumption ==
    /\ IsFiniteSet(Symbols) /\ "" \notin Names
    /\ Defaults \subseteq Symbols /\ ScriptSymbols \subseteq Symbols
    /\ \A s \in StartSymbols : s \subseteq Symbols

ASSUME ScriptBoundsAssumption ==
    MaxLines \in Nat /\ MaxCalls \in [0 .. MaxLines -> Nat]

FileNames == {"main", "sub"}

Texts == UNION {[1 .. n -> Lines] : n \in 0 .. MaxLines}

IsStatement(s) ==
    \/ s.t = "define" /\ s.symbol \in Symbols
    \/ s.t = "keyseq" /\ s.name \in Names /\ s.lit \in KeySeqs
    \/ s.t = "key" /\ s.lit \in KeySeqs

\* Parser and compiler keep to what can be written.
ASSUME CompiledAssumption ==
    \A main \in Texts, sub \in SubTexts, f \in FileNames, more \in SUBSET (Symbols \ Defaults) :
        LET c == Compiled([main |-> main, sub |-> sub], f, Defaults \union more) IN
        /\ Defaults \subseteq c.symbols /\ c.symbols \subseteq Symbols
        /\ c.err \in BOOLEAN
        /\ IsList(c.stmts) /\ \A i \in DOMAIN c.stmts : IsStatement(c.stmts[i])

VARIABLES
    files,          \* the text of the .mayu files
    loading,        \* the script is in on_load_setting
    symbols,        \* g_symbols
    entries,        \* g_keyseqEntries; a name "" is generated
    byName,         \* g_keyseqByName: an index per name, 0 if there is none
    queue,          \* g_cmdQueue
    held,           \* the key sequences the script holds: [idx, name, lit]
    calls,          \* history: the calls of this load
    meant,          \* history: what each name was given last, if anything
    stream,         \* history: the stream of the last flush
    committed,      \* history: the last stream with a Commit
    made            \* calls made so far, for the bounds

scriptVars == <<files, loading, symbols, entries, byName, queue, held, calls,
                meant, stream, committed, made>>

NoIndex == [n \in Names |-> 0]

Nothing == [n \in Names |-> {}]

ScriptInit ==
    /\ files \in {[main |-> <<>>, sub |-> t] : t \in SubTexts}
    /\ loading = FALSE /\ symbols = {} /\ entries = <<>> /\ byName = NoIndex
    /\ queue = <<>> /\ held = <<>> /\ calls = <<>> /\ meant = Nothing
    /\ stream = <<>> /\ committed = <<>> /\ made = 0

-----------------------------------------------------------------------------
(***************************************************************************)
(* Key sequences.  A sequence that is the argument of a function becomes a *)
(* sequence of its own, numbered before the one it is in; what is in       *)
(* parentheses stays in place (compileAction).                             *)
(***************************************************************************)
Entry(name, lit, acts) == [name |-> name, lit |-> lit, acts |-> acts]

\* Mutant of IndexAfter: an index is taken before the arguments take theirs.
IndexBefore(base, regs) == base

IndexAfter(base, regs) == base + Len(regs)

\* x = <<q, n, base>>: of the first n pieces of q, base sequences being
\* registered already, the actions, and what is registered for arguments
Pieces[x \in KeySeqs \X Nat \X Nat] ==
    LET q == x[1]
        n == x[2]
        base == x[3]
        r == Pieces[<<q, n - 1, base>>]
        p == q[n]
        at == base + Len(r.regs)
        arg == Pieces[<<p.lit, Len(p.lit), at>>]
    IN  IF n \notin DOMAIN q THEN [acts |-> <<>>, regs |-> <<>>]
        ELSE IF p.t # "arg" THEN [r EXCEPT !.acts = Append(@, p)]
        ELSE [acts |-> Append(r.acts, [t |-> "idx", idx |-> IndexAfter(at, arg.regs)]),
              regs |-> r.regs \o arg.regs \o <<Entry("", p.lit, arg.acts)>>]

Flat(lit, base) == Pieces[<<lit, Len(lit), base>>]

-----------------------------------------------------------------------------
(***************************************************************************)
(* Commands, and those of a statement that the compiler visits.            *)
(***************************************************************************)
Reg(e) == [c |-> "RegKeySeq", name |-> e.name, lit |-> e.lit, acts |-> e.acts]
Symbol(s) == [c |-> "DefSymbol", symbol |-> s]
Assign(k, h) ==
    [c |-> "AssignKey", key |-> k, rhs |-> h.idx, name |-> h.name, lit |-> h.lit]

RegAll(es) == [i \in DOMAIN es |-> Reg(es[i])]

\* a key sequence, with its arguments before it, in the stream
CompileSeq(st, name, lit) ==
    LET f == Flat(lit, st.idx)
    IN  [st EXCEPT !.cmds = @ \o RegAll(f.regs \o <<Entry(name, lit, f.acts)>>),
                   !.idx = IndexAfter(@, f.regs) + 1]

Emit(st, s) ==
    CASE s.t = "define" -> [st EXCEPT !.cmds = Append(@, Symbol(s.symbol))]
      [] s.t = "keyseq" -> [CompileSeq(st, s.name, s.lit) EXCEPT !.meant[s.name] = {s.lit}]
      [] s.t = "key" ->
           LET r == CompileSeq(st, "", s.lit)
           IN  [r EXCEPT !.cmds =
                   Append(@, Assign(s.key, [idx |-> r.idx - 1, name |-> "", lit |-> s.lit]))]

(***************************************************************************)
(* flushQueue().                                                           *)
(***************************************************************************)
\* Mutant of Carried: each file has the symbols the script left.
NotCarried(old, new) == old

Carried(old, new) == old \union new

\* parseFile and compile of one queued file; an error ends it all
Include(st, f) ==
    LET c == Compiled(files, f, st.symbols)
        s == FoldLeft(Emit, st, c.stmts)
    IN  IF c.err THEN [s EXCEPT !.err = TRUE]
        ELSE [s EXCEPT !.symbols = Carried(@, c.symbols)]

Dequeue(st, e) ==
    IF st.err THEN st
    ELSE IF e.t = "include" THEN Include(st, e.file)
    ELSE [st EXCEPT !.cmds = Append(@, e.cmd)]

\* names of anonymous sequences play no part and are left empty
FlushStart ==
    LET defined == SetToSeq(symbols)
    IN  [symbols |-> symbols, idx |-> Len(entries), err |-> FALSE, meant |-> meant,
         cmds |-> <<[c |-> "Reset"]>> \o [i \in DOMAIN defined |-> Symbol(defined[i])]
                  \o RegAll(entries)]

Flush == FoldLeft(Dequeue, FlushStart, queue)

-----------------------------------------------------------------------------
(***************************************************************************)
(* The text is written before the first load.                              *)
(***************************************************************************)
EditLine(l) ==
    /\ made = 0 /\ Len(files.main) < MaxLines
    /\ files' = [files EXCEPT !.main = Append(@, l)]
    /\ UNCHANGED <<loading, symbols, entries, byName, queue, held, calls, meant,
                   stream, committed, made>>

(***************************************************************************)
(* Start: the symbols are replaced, everything else is forgotten           *)
(* (resetQueue), and on_load_setting is called.                            *)
(***************************************************************************)
ResetQueue ==
    /\ entries' = <<>> /\ byName' = NoIndex /\ queue' = <<>>
    /\ held' = <<>> /\ meant' = Nothing

Called ==
    /\ made < MaxCalls[Len(files.main)]
    /\ made' = made + 1

StartScript(syms) ==
    /\ ~loading /\ Called
    /\ loading' = TRUE
    /\ symbols' = syms \union Defaults
    /\ ResetQueue
    /\ calls' = <<[t |-> "start", symbols |-> syms]>>
    /\ UNCHANGED <<files, stream, committed>>

(***************************************************************************)
(* What the script may call while it loads.  It does not use a key         *)
(* sequence it registered before a reset.                                  *)
(***************************************************************************)
Call(r) == loading /\ Called /\ calls' = Append(calls, r)

\* nys_define_symbol
DefineSymbol(s) ==
    /\ Call([t |-> "define", symbol |-> s])
    /\ symbols' = symbols \union {s}
    /\ UNCHANGED <<files, loading, entries, byName, queue, held, meant, stream,
                   committed>>

(***************************************************************************)
(* nys_reg_keyseq: the arguments are collected with indexes of their own   *)
(* from 0, then each is registered and the indexes mapped to those in      *)
(* g_keyseqEntries (remapKeySeqIdx).  A name that is registered already    *)
(* keeps its index.                                                        *)
(***************************************************************************)
Remap(e, base) ==
    [e EXCEPT !.acts = [i \in DOMAIN @ |->
        IF @[i].t = "idx" THEN [t |-> "idx", idx |-> base + @[i].idx] ELSE @[i]]]

RegKeySeq(name, lit) ==
    LET f == Flat(lit, 0)
        base == Len(entries)
        subs == [i \in DOMAIN f.regs |-> Remap(f.regs[i], base)]
        entry == Remap(Entry(name, lit, f.acts), base)
        known == name # "" /\ byName[name] # 0
        idx == IF known THEN byName[name] - 1 ELSE base + Len(subs)
    IN  /\ Call([t |-> "reg", name |-> name, lit |-> lit])
        /\ entries' = IF known THEN [entries \o subs EXCEPT ![idx + 1] = entry]
                      ELSE entries \o subs \o <<entry>>
        /\ IF name = "" THEN UNCHANGED <<byName, meant>>
           ELSE /\ byName' = [byName EXCEPT ![name] = idx + 1]
                /\ meant' = [meant EXCEPT ![name] = {lit}]
        /\ held' = Append(held, [idx |-> idx, name |-> name, lit |-> lit])
        /\ UNCHANGED <<files, loading, symbols, queue, stream, committed>>

\* nys_assign_key
AssignKey(k, h) ==
    /\ Call([t |-> "assign", key |-> k, name |-> h.name, lit |-> h.lit])
    /\ queue' = Append(queue, [t |-> "direct", cmd |-> Assign(k, h)])
    /\ UNCHANGED <<files, loading, symbols, entries, byName, held, meant,
                   stream, committed>>

\* nys_include_mayu, nys_load_mayu
IncludeMayu(f) ==
    /\ Call([t |-> "include", file |-> f])
    /\ queue' = Append(queue, [t |-> "include", file |-> f])
    /\ UNCHANGED <<files, loading, symbols, entries, byName, held, meant,
                   stream, committed>>

\* nys_reset_setting
ResetSetting ==
    /\ Call([t |-> "reset"])
    /\ ResetQueue
    /\ UNCHANGED <<files, loading, symbols, stream, committed>>

(***************************************************************************)
(* The script returns.  What it registered is kept after a Commit only by  *)
(* name.                                                                   *)
(***************************************************************************)
ReturnTrue ==
    LET r == Flush IN
    /\ loading /\ loading' = FALSE
    /\ symbols' = r.symbols
    /\ held' = <<>> /\ meant' = r.meant
    /\ stream' = IF r.err THEN r.cmds ELSE Append(r.cmds, [c |-> "Commit"])
    /\ IF r.err THEN UNCHANGED <<entries, queue, committed>>
       ELSE /\ entries' = [i \in DOMAIN entries |-> [entries[i] EXCEPT !.acts = <<>>]]
            /\ queue' = <<>> /\ committed' = stream'
    /\ UNCHANGED <<files, byName, calls, made>>

ReturnFalse ==
    /\ loading /\ loading' = FALSE
    /\ ResetQueue
    /\ calls' = <<>> /\ stream' = <<>>
    /\ UNCHANGED <<files, symbols, committed, made>>

ScriptNext ==
    \/ \E l \in Lines : EditLine(l)
    \/ \E s \in StartSymbols : StartScript(s)
    \/ \E s \in ScriptSymbols : DefineSymbol(s)
    \/ \E n \in Names \union {""}, l \in Literals : RegKeySeq(n, l)
    \/ \E k \in Keys, h \in ToSet(held) : AssignKey(k, h)
    \/ \E f \in FileNames : IncludeMayu(f)
    \/ ResetSetting \/ ReturnTrue \/ ReturnFalse

ScriptSpec == ScriptInit /\ [][ScriptNext]_scriptVars

-----------------------------------------------------------------------------
Flushed == ~loading /\ stream # <<>>

IsReg(c) == c.c = "RegKeySeq"

\* the sequences as a reader of commands numbers them
Number(regs, c) == IF IsReg(c) THEN Append(regs, c) ELSE regs

Registered(cmds) == FoldLeft(Number, <<>>, cmds)

\* an argument is where its index says
Refers(act, piece, regs) ==
    IF piece.t # "arg" THEN act = piece
    ELSE /\ act.t = "idx" /\ act.idx \in 0 .. Len(regs) - 1
         /\ LET arg == regs[act.idx + 1] IN arg.name = "" /\ arg.lit = piece.lit

Resolves(e, regs) ==
    /\ DOMAIN e.acts = DOMAIN e.lit
    /\ \A i \in DOMAIN e.lit : Refers(e.acts[i], e.lit[i], regs)

\* a handle, or an assignment, leads to its sequence
LeadsTo(h, idx, regs) ==
    /\ idx \in 0 .. Len(regs) - 1
    /\ regs[idx + 1].name = h.name
    /\ h.name = "" => regs[idx + 1].lit = h.lit

\* what a name stands for in the end
LastOf(n, regs) ==
    LET of == {i \in DOMAIN regs : regs[i].name = n}
    IN  {regs[i].lit : i \in {i \in of : \A j \in of : j <= i}}

(***************************************************************************)
(* Indexes are told by counting, on both sides of the stream and from      *)
(* three counters in the scripter.  Each one, in an assignment or in an    *)
(* argument at any depth, finds the very sequence that was written there,  *)
(* and a name what was last given to it; an assignment finds it at once    *)
(* (SettingBuilder::getKeySeqRef), an argument at the Commit.              *)
(***************************************************************************)
IndexesResolve ==
    Flushed =>
        LET regs == Registered(stream) IN
        /\ \A i \in DOMAIN regs : Resolves(regs[i], regs)
        /\ \A p \in DOMAIN stream : stream[p].c = "AssignKey" =>
             /\ stream[p].rhs < Len(Registered(SubSeq(stream, 1, p)))
             /\ LeadsTo(stream[p], stream[p].rhs, regs)
        /\ \A n \in Names : LastOf(n, regs) = meant[n]

(***************************************************************************)
(* "g_keyseqEntries.name and g_keyseqByName persist so that                *)
(* nys_get_keyseq_idx() remains valid during on_exec_user_func calls"      *)
(* (nyamy_scripter.cpp:442).  A reload that fails refutes it: the Setting  *)
(* in force is the earlier one, the names are those of the failed load.    *)
(***************************************************************************)
NamesOfTheSettingInForce ==
    ~loading /\ committed # <<>> =>
        \A n \in Names : byName[n] # 0 =>
            LET regs == Registered(committed)
            IN  byName[n] <= Len(regs) /\ regs[byName[n]].name = n
=============================================================================
