---------------------------- MODULE SettingBuild ----------------------------
(***************************************************************************)
(* CmdProcessor and SettingBuilder (cmd_processor.cpp, setting_builder.cpp,*)
(* keymap.cpp): how the stream of commands that a script produces becomes  *)
(* a Setting.                                                              *)
(*                                                                         *)
(* Commands come one at a time between Reset and Commit.  Keymaps are      *)
(* created by the first command that names them, be it only as a parent.   *)
(* A key sequence is registered as an empty shell, so that a later command *)
(* can point to it, and is filled at Commit, when whatever it refers to    *)
(* exists; then the substitutes are applied, which read those sequences,   *)
(* and the modifiers of the keymaps are folded in the order in which the   *)
(* keymaps were created.                                                   *)
(*                                                                         *)
(* `script' is a history variable: the commands since Reset.  The          *)
(* properties compare the Setting with what the script says.  A keymap, a  *)
(* key sequence and a shell are indexes, as they are stable pointers in    *)
(* the code; 0 stands for a null pointer.  A window condition, a modifier  *)
(* of a key and the arguments of a function are left out.                  *)
(***************************************************************************)
EXTENDS Naturals, Sequences, SequencesExt, FiniteSets

CONSTANTS
    Commands,       \* the commands a script may send (a set of records)
    Modifiers,      \* the modifier types
    KnownFunctions, \* the names createFunctionData() knows
    Events,         \* the names of the pseudo keys of `event'
    MaxSent         \* bound: commands up to the Commit, which is the last

None == "none"      \* no key, no name

\* a sequence, whatever it is of
IsList(s) == s \in Seq(ToSet(s))

ASSUME BoundsAssumption ==
    /\ MaxSent \in Nat
    /\ \A c \in Commands : c.cmd \in STRING

\* Lists are lists, and an action is of one of four kinds (cmd_stream.h).
ASSUME CommandsAssumption ==
    \A c \in Commands :
        /\ c.cmd = "DefSubst" => c.lhs \in Seq(STRING)
        /\ c.cmd = "RegKeySeq" =>
              /\ IsList(c.actions)
              /\ \A a \in ToSet(c.actions) :
                    /\ a.t \in {"key", "ref", "func", "sub"}
                    /\ a.t = "sub" => IsList(a.subs)
        /\ c.cmd = "AssignMod" =>
              IsList(c.keys) /\ c.op \in {"new", "add", "sub"}

VARIABLES
    open,           \* m_builder exists: inside Reset..Commit
    keymaps,        \* m_keymaps in the order of creation
    seqs,           \* m_keySeqs: [name, body]
    refs,           \* SettingBuilder::m_keySeqs: index -> key sequence
    keys,           \* m_keyboard: names of the keys
    aliases,        \* m_keyboard.m_aliases
    defmods,        \* m_keyboard.m_mods
    substs,         \* m_keyboard.m_substitutes, oldest first
    nls,            \* m_nlsKeys
    current,        \* m_currentKeymap
    stack,          \* m_keymapStack, innermost last
    pendingSeqs,    \* m_pendingKeySeqs: [shell, name, actions]
    pendingSubsts,  \* m_pendingSubsts
    committed,      \* the tables above are a committed Setting
    crashed,        \* the process ended (endless recursion)
    sent,           \* number of commands so far
    script          \* history: the commands since Reset

building == <<keymaps, seqs, refs, keys, aliases, defmods, substs, nls,
              current, stack, pendingSeqs, pendingSubsts>>
vars == <<open, building, committed, crashed, sent, script>>

(***************************************************************************)
(* The tables of the Setting being built.                                  *)
(***************************************************************************)
NewKeymap(name, def) ==
    [name |-> name, def |-> def, parent |-> 0, assigned |-> <<>>,
     mods |-> [m \in Modifiers |-> <<>>]]

KeymapNamed(kms, name) == SelectInSeq(kms, LAMBDA k : k.name = name)

\* Keymaps::add: a keymap that exists is returned as it is.
AddKeymap(kms, name) ==
    IF KeymapNamed(kms, name) # 0 THEN kms
    ELSE Append(kms, NewKeymap(name, 0))

SeqNamed(ss, name) ==
    IF name = "" THEN 0 ELSE SelectInSeq(ss, LAMBDA s : s.name = name)

\* KeySeqs::add: a named sequence that exists is overwritten in place.
AddKeySeq(ss, name, body) ==
    IF SeqNamed(ss, name) # 0
    THEN [ss EXCEPT ![SeqNamed(ss, name)].body = body]
    ELSE Append(ss, [name |-> name, body |-> body])

\* the index AddKeySeq gives to its sequence
AddedSeq(ss, name) ==
    IF SeqNamed(ss, name) # 0 THEN SeqNamed(ss, name) ELSE Len(ss) + 1

\* SettingBuilder::getKeySeqRef
KeySeqRef(i) == IF i \in DOMAIN refs THEN refs[i] ELSE 0

SearchKey(name) ==
    IF name \in DOMAIN aliases THEN aliases[name]
    ELSE IF name \in keys THEN name ELSE None

KeyAct(k) == [t |-> "key", key |-> k]
FuncAct(f) == [t |-> "func", func |-> f]
SeqAct(id) == [t |-> "seq", seq |-> id]

(***************************************************************************)
(* Reset (beginSetting): whatever was being built is thrown away.          *)
(***************************************************************************)
Global ==
    LET ss == <<[name |-> "", body |-> <<FuncAct("OtherWindowClass")>>]>>
    IN  [kms |-> <<NewKeymap("Global", 1)>>, ss |-> ss]

Started ==
    /\ keymaps' = Global.kms /\ seqs' = Global.ss
    /\ refs' = <<>> /\ keys' = {} /\ aliases' = <<>>
    /\ defmods' = [m \in Modifiers |-> <<>>]
    /\ substs' = <<>> /\ nls' = {}
    /\ current' = 1 /\ stack' = <<>>
    /\ pendingSeqs' = <<>> /\ pendingSubsts' = <<>>

Init ==
    /\ open = FALSE /\ keymaps = <<>> /\ seqs = <<>> /\ refs = <<>>
    /\ keys = {} /\ aliases = <<>>
    /\ defmods = [m \in Modifiers |-> <<>>]
    /\ substs = <<>> /\ nls = {} /\ current = 0 /\ stack = <<>>
    /\ pendingSeqs = <<>> /\ pendingSubsts = <<>>
    /\ committed = FALSE /\ crashed = FALSE
    /\ sent = 0 /\ script = <<>>

Reset ==
    /\ ~crashed /\ ~committed /\ sent < MaxSent
    /\ Started
    /\ open' = TRUE /\ sent' = sent + 1 /\ script' = <<>>
    /\ UNCHANGED <<committed, crashed>>

(***************************************************************************)
(* The commands of an open block.  A command that arrives outside of one   *)
(* is an error and changes nothing, as does one that throws.               *)
(***************************************************************************)
Take(c) ==
    /\ open /\ ~crashed /\ sent < MaxSent
    /\ script' = Append(script, c) /\ sent' = sent + 1
    /\ UNCHANGED <<open, committed, crashed>>

Is(kind) == {c \in Commands : c.cmd = kind}

DefKey(c) ==
    /\ Take(c)
    /\ keys' = keys \union {c.name}
    /\ UNCHANGED <<keymaps, seqs, refs, aliases, defmods, substs, nls,
                   current, stack, pendingSeqs, pendingSubsts>>

\* An alias that exists is kept; an unknown key is an error.
DefAlias(c) ==
    /\ Take(c)
    /\ aliases' = IF c.key \in keys /\ c.name \notin DOMAIN aliases
                  THEN [x \in DOMAIN aliases \union {c.name} |->
                          IF x = c.name THEN c.key ELSE aliases[x]]
                  ELSE aliases
    /\ UNCHANGED <<keymaps, seqs, refs, keys, defmods, substs, nls, current,
                   stack, pendingSeqs, pendingSubsts>>

\* Keyboard::addModifier: a key is added once.
DefMod(c) ==
    /\ Take(c)
    /\ defmods' = IF c.key \in keys \ ToSet(defmods[c.mod])
                  THEN [defmods EXCEPT ![c.mod] = Append(@, c.key)]
                  ELSE defmods
    /\ UNCHANGED <<keymaps, seqs, refs, keys, aliases, substs, nls, current,
                   stack, pendingSeqs, pendingSubsts>>

DefSubst(c) ==
    /\ Take(c)
    /\ pendingSubsts' = Append(pendingSubsts, c)
    /\ UNCHANGED <<keymaps, seqs, refs, keys, aliases, defmods, substs, nls,
                   current, stack, pendingSeqs>>

\* parseNlsKeys: one unknown item empties the whole set.
NlsKeys(c) ==
    /\ Take(c)
    /\ nls' = LET found == {SearchKey(k) : k \in ToSet(c.items)}
              IN  IF None \in found THEN {} ELSE found
    /\ UNCHANGED <<keymaps, seqs, refs, keys, aliases, defmods, substs,
                   current, stack, pendingSeqs, pendingSubsts>>

(***************************************************************************)
(* DefKeymap: creates the keymap and, if need be, its parent; gives it a   *)
(* default sequence and the parent unless it has a default already         *)
(* (setIfNotYet); and makes it current as the scope says.  A keymap that   *)
(* was only named as a parent keeps a null default.  The implied default   *)
(* bears the name of the keymap.                                           *)
(***************************************************************************)
DefKeymap(c) ==
    LET own == AddKeymap(keymaps, c.name)
        all == IF c.parent = "" THEN own ELSE AddKeymap(own, c.parent)
        km == KeymapNamed(all, c.name)
        implied == KeySeqRef(c.default) = 0
        def == IF implied THEN AddedSeq(seqs, c.name)
                          ELSE KeySeqRef(c.default)
    IN  /\ Take(c)
        /\ seqs' = IF implied
                   THEN AddKeySeq(seqs, c.name, <<FuncAct("KeymapParent")>>)
                   ELSE seqs
        /\ keymaps' = IF all[km].def # 0 THEN all
                      ELSE [all EXCEPT
                              ![km].def = def,
                              ![km].parent = KeymapNamed(all, c.parent)]
        /\ stack' = IF c.scope = "Block" THEN Append(stack, current)
                                         ELSE stack
        /\ current' = IF c.scope = "Declare" THEN current ELSE km
        /\ UNCHANGED <<refs, keys, aliases, defmods, substs, nls,
                       pendingSeqs, pendingSubsts>>

\* Mutant of EndKeymap: the outermost displaced keymap comes back.
EndKeymapToOutermost(c) ==
    /\ Take(c)
    /\ current' = IF stack = <<>> THEN current ELSE stack[1]
    /\ stack' = IF stack = <<>> THEN stack ELSE Front(stack)
    /\ UNCHANGED <<keymaps, seqs, refs, keys, aliases, defmods, substs, nls,
                   pendingSeqs, pendingSubsts>>

\* An EndKeymap without its Block is an error: the current keymap stays.
EndKeymap(c) ==
    /\ Take(c)
    /\ current' = IF stack = <<>> THEN current ELSE Last(stack)
    /\ stack' = IF stack = <<>> THEN stack ELSE Front(stack)
    /\ UNCHANGED <<keymaps, seqs, refs, keys, aliases, defmods, substs, nls,
                   pendingSeqs, pendingSubsts>>

(***************************************************************************)
(* Assignments land in the current keymap.  An unknown key is skipped      *)
(* without a word.                                                         *)
(***************************************************************************)
\* toModifiedKey, and the search through Event::events of AssignEvent
Assignable(name) == IF name \in Events THEN name ELSE SearchKey(name)

\* AssignKey and AssignEvent; Keymap::addAssignment replaces what was there.
AssignKey(c) ==
    LET found == {Assignable(k) : k \in ToSet(c.lhs)} \ {None}
    IN  /\ Take(c)
        /\ keymaps' = [keymaps EXCEPT ![current].assigned =
                         [k \in found \union DOMAIN @ |->
                            IF k \in found THEN KeySeqRef(c.rhs) ELSE @[k]]]
        /\ UNCHANGED <<seqs, refs, keys, aliases, defmods, substs, nls,
                       current, stack, pendingSeqs, pendingSubsts>>

\* Keymap::addModifier; an entry of `overwrite' has no key.
AddModifier(list, entry) ==
    IF entry.op = "new" THEN <<entry>>
    ELSE LET i == SelectInSeq(list, LAMBDA e : e.key = entry.key)
         IN  IF i = 0 THEN Append(list, entry)
                      ELSE [list EXCEPT ![i] = entry]

\* "=" counts for the first key only; the others are added.
OpAt(c, p) == IF c.op = "new" /\ p > 1 THEN "add" ELSE c.op

\* what the statement c makes of the list, the first n keys read
WithModifiers(list, c) ==
    LET prefixed ==
            IF c.prefix = None THEN list
            ELSE AddModifier(list, [op |-> "overwrite", mode |-> c.prefix,
                                    key |-> None])
        upTo[n \in 0 .. Len(c.keys)] ==
            IF n = 0 THEN prefixed
            ELSE LET k == SearchKey(c.keys[n].key)
                 IN  IF k = None THEN upTo[n - 1]
                     ELSE AddModifier(upTo[n - 1],
                                      [op |-> OpAt(c, n),
                                       mode |-> c.keys[n].mode, key |-> k])
    IN  upTo[Len(c.keys)]

AssignMod(c) ==
    /\ Take(c)
    /\ keymaps' = [keymaps EXCEPT ![current].mods[c.mod] =
                     WithModifiers(@, c)]
    /\ UNCHANGED <<seqs, refs, keys, aliases, defmods, substs, nls,
                   current, stack, pendingSeqs, pendingSubsts>>

(***************************************************************************)
(* Commit: first the key sequences (fillKeySeq).  An action that does not  *)
(* resolve is dropped with a warning; a sub-sequence becomes a sequence of *)
(* its own, of keys and functions: anything else in it is passed over.     *)
(***************************************************************************)
Resolved(ss, a) ==
    CASE a.t = "key" -> IF SearchKey(a.name) = None THEN <<>>
                        ELSE <<KeyAct(SearchKey(a.name))>>
      [] a.t = "ref" -> IF SeqNamed(ss, a.name) = 0 THEN <<>>
                        ELSE <<SeqAct(SeqNamed(ss, a.name))>>
      [] a.t = "func" -> IF a.name \notin KnownFunctions THEN <<>>
                         ELSE <<FuncAct(a.name)>>

\* acc: [ss, body]
FillAction(acc, a) ==
    IF a.t # "sub" THEN [acc EXCEPT !.body = @ \o Resolved(acc.ss, a)]
    ELSE LET sub == FlattenSeq([i \in DOMAIN a.subs |->
                                  IF a.subs[i].t \notin {"key", "func"} THEN <<>>
                                  ELSE Resolved(acc.ss, a.subs[i])])
         IN  [ss |-> AddKeySeq(acc.ss, "", sub),
              body |-> Append(acc.body, SeqAct(AddedSeq(acc.ss, "")))]

FillKeySeq(ss, p) ==
    LET acc == FoldLeft(FillAction, [ss |-> ss, body |-> <<>>], p.actions)
    IN  [acc.ss EXCEPT ![p.shell].body = acc.body]

\* Mutant of RegKeySeq: filled on arrival, when much is not defined yet.
RegKeySeqFilledAtOnce(c) ==
    /\ Take(c)
    /\ seqs' = FillKeySeq(AddKeySeq(seqs, c.name, <<>>),
                          [shell |-> AddedSeq(seqs, c.name),
                           actions |-> c.actions])
    /\ refs' = Append(refs, AddedSeq(seqs, c.name))
    /\ UNCHANGED <<keymaps, keys, aliases, defmods, substs, nls, current,
                   stack, pendingSeqs, pendingSubsts>>

\* A shell now, its contents at Commit.
RegKeySeq(c) ==
    /\ Take(c)
    /\ seqs' = AddKeySeq(seqs, c.name, <<>>)
    /\ refs' = Append(refs, AddedSeq(seqs, c.name))
    /\ pendingSeqs' = Append(pendingSeqs,
                             [shell |-> AddedSeq(seqs, c.name),
                              actions |-> c.actions])
    /\ UNCHANGED <<keymaps, keys, aliases, defmods, substs, nls, current,
                   stack, pendingSubsts>>

Filled == FoldLeft(FillKeySeq, seqs, pendingSeqs)

(***************************************************************************)
(* Then the substitutes.  KeySeq::getFirstModifiedKey follows a leading    *)
(* reference to another sequence; the recursion has no end ("endless")     *)
(* when sequences lead with each other.                                    *)
(***************************************************************************)
FirstKey(ss, id) ==
    LET first[n \in 0..Len(ss), s \in DOMAIN ss] ==
            IF n = 0 THEN "endless"
            ELSE IF ss[s].body = <<>> THEN None
            ELSE LET a == ss[s].body[1]
                 IN  CASE a.t = "key"  -> a.key
                       [] a.t = "seq"  -> first[n - 1, a.seq]
                       [] a.t = "func" -> None
    IN  IF id = 0 THEN None ELSE first[Len(ss), id]

\* applyDefSubst: an unknown key on the left abandons the keys after it.
ApplyDefSubst(ss, d) ==
    LET rhs == FirstKey(ss, KeySeqRef(d.rhs))
        bad == SelectInSeq(d.lhs, LAMBDA k : SearchKey(k) = None)
        good == IF bad = 0 THEN d.lhs ELSE SubSeq(d.lhs, 1, bad - 1)
    IN  IF rhs = None THEN <<>>
        ELSE [i \in DOMAIN good |-> [lhs |-> SearchKey(good[i]), rhs |-> rhs]]

Endless(ss) ==
    \E d \in ToSet(pendingSubsts) : FirstKey(ss, KeySeqRef(d.rhs)) = "endless"

(***************************************************************************)
(* Last the modifiers (Keymap::adjustModifier): the parent's list, or the  *)
(* keys of `def mod', changed by the keymap's own statements, less the     *)
(* first redundant entry.                                                  *)
(***************************************************************************)
Inherited(kms, i, m) ==
    IF kms[i].parent # 0 THEN kms[kms[i].parent].mods[m]
    ELSE [j \in DOMAIN defmods[m] |->
            [op |-> "add", mode |-> "normal", key |-> defmods[m][j]]]

Adjust(mos, ma) ==
    CASE ma.op = "new" -> <<ma>>
      [] ma.op = "add" -> Append(mos, [ma EXCEPT !.op = "new"])
      [] ma.op = "sub" -> RemoveFirstMatch(mos, LAMBDA e : e.key = ma.key)
      [] ma.op = "overwrite" ->
            [i \in DOMAIN mos |-> [mos[i] EXCEPT !.mode = ma.mode]]

LessRedundant(mos) ==
    LET again == {j \in DOMAIN mos :
                    \E k \in DOMAIN mos : k > j /\ mos[k].key = mos[j].key}
    IN  IF again = {} THEN mos ELSE RemoveAt(mos, Min(again))

AdjustModifier(kms, i) ==
    [kms EXCEPT ![i].mods = [m \in Modifiers |->
        LessRedundant(FoldLeft(Adjust, Inherited(kms, i, m),
                               kms[i].mods[m]))]]

\* Mutant of AdjustAll: the list is walked from its front, newest first.
AdjustNewestFirst(kms) == FoldRight(LAMBDA i, ks : AdjustModifier(ks, i),
                                    [i \in DOMAIN kms |-> i], kms)

\* Keymaps::adjustModifier: oldest keymap first
AdjustAll(kms) ==
    LET upTo[n \in 0 .. Len(kms)] ==
            IF n = 0 THEN kms ELSE AdjustModifier(upTo[n - 1], n)
    IN  upTo[Len(kms)]

\* Mutant of CommitTables: the substitutes are applied to empty shells.
CommitSubstsFirst ==
    /\ substs' = FlattenSeq([i \in DOMAIN pendingSubsts |->
                               ApplyDefSubst(seqs, pendingSubsts[i])])
    /\ seqs' = Filled
    /\ keymaps' = AdjustAll(keymaps)

CommitTables ==
    /\ seqs' = Filled
    /\ substs' = FlattenSeq([i \in DOMAIN pendingSubsts |->
                               ApplyDefSubst(Filled, pendingSubsts[i])])
    /\ keymaps' = AdjustAll(keymaps)

Commit ==
    /\ open /\ ~crashed
    /\ IF Endless(Filled)
       THEN /\ crashed' = TRUE
            /\ UNCHANGED <<open, committed, building>>
       ELSE /\ CommitTables
            /\ open' = FALSE /\ committed' = TRUE
            /\ pendingSeqs' = <<>> /\ pendingSubsts' = <<>>
            /\ UNCHANGED <<crashed, refs, keys, aliases, defmods, nls,
                           current, stack>>
    /\ UNCHANGED <<sent, script>>

Next ==
    \/ Reset
    \/ Commit
    \/ \E c \in Is("RegKeySeq") : RegKeySeq(c)
    \/ \E c \in Is("DefKey") : DefKey(c)
    \/ \E c \in Is("DefAlias") : DefAlias(c)
    \/ \E c \in Is("DefMod") : DefMod(c)
    \/ \E c \in Is("DefSubst") : DefSubst(c)
    \/ \E c \in Is("NlsKeys") : NlsKeys(c)
    \/ \E c \in Is("DefKeymap") : DefKeymap(c)
    \/ \E c \in Is("EndKeymap") : EndKeymap(c)
    \/ \E c \in Is("AssignKey") : AssignKey(c)
    \/ \E c \in Is("AssignMod") : AssignMod(c)

Spec == Init /\ [][Next]_vars

-----------------------------------------------------------------------------
(***************************************************************************)
(* What the script says, read without the builder's state.                 *)
(***************************************************************************)
At(kind) == {i \in DOMAIN script : script[i].cmd = kind}
Blocks(a, b) == {i \in At("DefKeymap") \cap (a .. b) :
                    script[i].scope = "Block"}
Ends(a, b) == At("EndKeymap") \cap (a .. b)

\* The EndKeymap at e closes the block opened at b: they are balanced.
Closes(b, e) ==
    /\ \A x \in b + 1 .. e - 1 :
          Cardinality(Ends(b + 1, x)) <= Cardinality(Blocks(b + 1, x))
    /\ Cardinality(Ends(b + 1, e - 1)) = Cardinality(Blocks(b + 1, e - 1))

\* The keymap statement at j no longer holds at i: a block around it, or the
\* one it opens, was closed in between.
Left(j, i) == \E b \in Blocks(1, j), e \in Ends(j + 1, i - 1) : Closes(b, e)

\* The name of the keymap whose statements stand at i.
Here(i) ==
    LET inEffect == {j \in At("DefKeymap") \cap (1 .. i - 1) :
                        script[j].scope # "Declare" /\ ~Left(j, i)}
    IN  IF inEffect = {} THEN "Global" ELSE script[Max(inEffect)].name

Defined(name, i) == \E j \in At("DefKey") : j < i /\ script[j].name = name

\* The key a name denotes at i: the oldest alias, else the key itself.
Denotes(name, i) ==
    LET named == {j \in At("DefAlias") : /\ j < i
                                         /\ script[j].name = name
                                         /\ Defined(script[j].key, j)}
    IN  IF named # {} THEN script[Min(named)].key
        ELSE IF Defined(name, i) THEN name ELSE None

Target(name, i) == IF name \in Events THEN name ELSE Denotes(name, i)

AtEnd == Len(script) + 1

\* The sequence an index denotes at i: one that was registered by then.
Denoted(idx, i) ==
    IF idx \in 1 .. Cardinality({j \in At("RegKeySeq") : j < i})
    THEN refs[idx] ELSE 0

\* The key and the operator of a statement: <<the command, its position there>>.
KeyOf(s) == Denotes(script[s[1]].keys[s[2]].key, s[1])
OpOf(s) == OpAt(script[s[1]], s[2])

\* The statements of keymap `name' about modifier m, one for each key that was
\* known when it was read.
Statements(name, m) ==
    {s \in UNION {{i} \X DOMAIN script[i].keys : i \in At("AssignMod")} :
        /\ script[s[1]].mod = m /\ Here(s[1]) = name
        /\ KeyOf(s) # None}

Before(s, t) == s[1] < t[1] \/ (s[1] = t[1] /\ s[2] < t[2])
Final(S) == {s \in S : \A t \in S : ~Before(s, t)}

\* the statements that count: from the last "=" on
InForce(name, m) ==
    LET S == Statements(name, m)
        news == Final({s \in S : OpOf(s) = "new"})
    IN  {s \in S : \A n \in news : ~Before(s, n)}

Replaces(name, m) == \E s \in InForce(name, m) : OpOf(s) = "new"

\* The key of that "=" is not named again: if it is, the code forgets the "=".
KeepsReplacing(name, m) ==
    \A s, t \in InForce(name, m) :
        OpOf(s) = "new" /\ KeyOf(t) = KeyOf(s) => t = s

KeysOf(list) == {e.key : e \in ToSet(list)}
NamesOnce(list) == \A p, q \in DOMAIN list : list[p].key = list[q].key => p = q

-----------------------------------------------------------------------------
(***************************************************************************)
(* Every index is in range: no pointer into a Setting that was thrown away.*)
(***************************************************************************)
SeqIds == DOMAIN seqs \union {0}

TypeOK ==
    /\ open \in BOOLEAN /\ committed \in BOOLEAN /\ crashed \in BOOLEAN
    /\ sent \in 0 .. MaxSent /\ Len(script) <= sent
    /\ current \in DOMAIN keymaps \union {0}
    /\ ToSet(stack) \subseteq DOMAIN keymaps
    /\ ToSet(refs) \subseteq DOMAIN seqs
    /\ \A k \in ToSet(keymaps) :
          /\ k.def \in SeqIds /\ k.parent \in DOMAIN keymaps \union {0}
          /\ \A x \in DOMAIN k.assigned : k.assigned[x] \in SeqIds
    /\ \A p \in ToSet(pendingSeqs) : p.shell \in DOMAIN seqs
    /\ \A s \in ToSet(seqs) : \A a \in ToSet(s.body) :
          a.t = "seq" => a.seq \in DOMAIN seqs

(***************************************************************************)
(* An assignment belongs to the innermost keymap statement it stands under *)
(* (CmdProcessor::operator()(CmdArgsDefKeymap &), CmdArgsEndKeymap): a     *)
(* block keeps what follows it out of its keymap, whatever is declared,    *)
(* entered or closed once too often in between; and the last assignment of *)
(* a key in a keymap is the one that stays.                                *)
(***************************************************************************)
AssignmentsInTheirBlock ==
    \A k \in ToSet(keymaps) :
        LET about(x) == {i \in At("AssignKey") :
                           /\ Here(i) = k.name
                           /\ x \in {Target(l, i) : l \in ToSet(script[i].lhs)}}
            known == (UNION {{Target(l, i) : l \in ToSet(script[i].lhs)} :
                                i \in At("AssignKey")}) \ {None}
        IN  /\ DOMAIN k.assigned = {x \in known : about(x) # {}}
            /\ \A x \in DOMAIN k.assigned :
                  LET i == Max(about(x))
                  IN  k.assigned[x] = Denoted(script[i].rhs, i)

(***************************************************************************)
(* In a committed Setting every registered sequence has the actions of the *)
(* last registration of its name, in order, less those that name nothing   *)
(* at all: a reference forward, to itself, or to a name that is registered *)
(* twice finds what it means (SettingBuilder::fillKeySeq).                 *)
(***************************************************************************)
Means(item, a) ==
    CASE a.t = "key"  -> item = KeyAct(Denotes(a.name, AtEnd))
      [] a.t = "ref"  -> item.t = "seq" /\ seqs[item.seq].name = a.name
      [] a.t = "func" -> item = FuncAct(a.name)
      [] a.t = "sub"  -> /\ item.t = "seq" /\ seqs[item.seq].name = ""
                         /\ Len(seqs[item.seq].body) <= Len(a.subs)

MeansSomething(a) ==
    CASE a.t = "key"  -> Denotes(a.name, AtEnd) # None
      [] a.t = "ref"  -> \E i \in At("RegKeySeq") \union At("DefKeymap") :
                            script[i].name = a.name /\ SeqNamed(seqs, a.name) # 0
      [] a.t = "func" -> a.name \in KnownFunctions
      [] a.t = "sub"  -> TRUE

SequencesFilled ==
    committed =>
        \A i \in At("RegKeySeq") :
            LET same == {j \in At("RegKeySeq") :
                            \/ j = i
                            \/ /\ script[i].name # ""
                               /\ script[j].name = script[i].name}
                said == script[Max(same)].actions
                meant == {n \in DOMAIN said : MeansSomething(said[n])}
                body == seqs[Denoted(Cardinality({j \in At("RegKeySeq") :
                                                     j <= i}), AtEnd)].body
            IN  /\ Len(body) = Cardinality(meant)
                /\ \A n \in meant :
                      Means(body[Cardinality(meant \cap (1 .. n))], said[n])

(***************************************************************************)
(* A substitute sends the key that the finished sequence begins with, and  *)
(* of several for one key the last one that is valid is found first        *)
(* (applyDefSubst, Keyboard::addSubstitute, searchSubstitute).             *)
(***************************************************************************)
LastSubstWins ==
    committed =>
        \A x \in keys :
            LET valid(i) ==
                    \E n \in DOMAIN script[i].lhs :
                       /\ Denotes(script[i].lhs[n], AtEnd) = x
                       /\ \A m \in 1 .. n :
                             Denotes(script[i].lhs[m], AtEnd) # None
                       /\ FirstKey(seqs, Denoted(script[i].rhs, AtEnd)) # None
                about == {i \in At("DefSubst") : valid(i)}
                found == {n \in DOMAIN substs : substs[n].lhs = x}
            IN  IF about = {} THEN found = {}
                ELSE /\ found # {}
                     /\ substs[Max(found)].rhs =
                          FirstKey(seqs, Denoted(script[Max(about)].rhs, AtEnd))

(***************************************************************************)
(* In a committed Setting the modifier keys of a keymap are those of its   *)
(* parent, or of `def mod', as changed by its own statements: the last     *)
(* "=" replaces them all, and after it the last word about a key counts    *)
(* (Keymap::addModifier, Keymap::adjustModifier).  Three cases are left    *)
(* out, which the code gets wrong: a parent that was created after its     *)
(* child, an "=" whose key is named again later, and a parent whose list   *)
(* still has a key twice, of which "-=" would take one.                    *)
(***************************************************************************)
ModifiersFolded ==
    committed =>
        \A i \in DOMAIN keymaps, m \in Modifiers :
            LET k == keymaps[i]
                S == InForce(k.name, m)
                above == IF k.parent = 0 THEN <<>> ELSE keymaps[k.parent].mods[m]
                base == IF Replaces(k.name, m) THEN {}
                        ELSE IF k.parent = 0 THEN ToSet(defmods[m])
                        ELSE KeysOf(above)
                last(x) == Final({s \in S : KeyOf(s) = x})
            IN  k.parent < i /\ KeepsReplacing(k.name, m) /\ NamesOnce(above) =>
                  \A x \in keys :
                     x \in KeysOf(k.mods[m]) <=>
                        IF last(x) = {} THEN x \in base
                        ELSE \A s \in last(x) : OpOf(s) # "sub"

(***************************************************************************)
(* "ASSERT( keySeq );" (engine.cpp:669): a keymap that a key can be looked *)
(* up in has a default sequence.  One that was only named as a parent has  *)
(* none.                                                                   *)
(***************************************************************************)
EveryKeymapAnswers ==
    committed => \A k \in ToSet(keymaps) : k.def # 0
=============================================================================
