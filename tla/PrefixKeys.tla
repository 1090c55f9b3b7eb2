----------------------------- MODULE PrefixKeys -----------------------------
(***************************************************************************)
(* From a key to what is sent for it (engine.cpp: keyboardHandler,         *)
(* beginGeneratingKeyboardEvents, generateKeyboardEvents and the functions *)
(* of function.cpp that choose a keymap).                                  *)
(*                                                                         *)
(* The engine looks a key up in the current keymap, which is the first     *)
(* keymap of the window in front unless a &Prefix has made another one     *)
(* current for the next key.  What is assigned is a sequence of keys and   *)
(* functions; a function may look the same key up in another keymap, and   *)
(* so on, up to a limit.                                                   *)
(*                                                                         *)
(* These functions call each other.  `todo' is the C++ stack: the calls    *)
(* that are still to be made for the event in hand, the next one first.  A *)
(* step makes one call and puts the calls it makes in its place; the next  *)
(* event is taken when none are left.  &Sync and &Wait, which let others   *)
(* in, are in EngineSync, the marks of the keys in KeyState.  There is one *)
(* modifier: `shifted' is "on" or "off", or Free for a key that is itself  *)
(* a modifier; `when' is "down" (D-) or "up" (U-) for what is assigned to, *)
(* or done at, the press or the release of a key only.                     *)
(***************************************************************************)
EXTENDS Integers, Sequences

CONSTANTS
    Keys,           \* the keys of the keyboard
    Actions,        \* what key sequences are made of
    Keymaps,        \* the keymaps
    Parent,         \* keymap -> its parent or None
    Assigned,       \* keymap -> sequence of [key, shifted, when, acts], the
                    \* first that matches counts
    DefaultSeq,     \* keymap -> its default sequence
    ModeOf,         \* keymap -> key -> "none" or how it is a modifier
    Windows,        \* the windows
    KeymapsOf,      \* window -> the keymaps that match it, in order
    AdHoc,          \* what scripts send: [acts, key], key starting the script
    MaxHistory,     \* MAX_KEYMAP_PREFIX_HISTORY
    MaxRecursion,   \* MAX_GENERATE_KEYBOARD_EVENTS_RECURSION_COUNT
    Delay           \* m_oneShotRepeatableDelay

None == "none"
Free == "any"
Shifts == {"on", "off", Free}
Whens == {"down", "up", Free}
KeyEvents == {"before-key-down", "after-key-up", "prefixed"}

ASSUME LimitsAssumption ==
    MaxHistory \in Nat \ {0} /\ MaxRecursion \in Nat \ {0} /\ Delay \in Nat

ASSUME ActionsAssumption ==
    \A a \in Actions :
        /\ a.t \in {"key", "seq", "fn"}
        /\ a.t # "seq" => a.when \in Whens
        /\ a.t = "seq" => a.acts \in Seq(Actions)
        /\ a.t = "fn" /\ a.fn \in {"Prefix", "Keymap"} => a.km \in Keymaps
        /\ a.t = "fn" /\ a.fn = "Prefix" => a.ignore \in BOOLEAN
        /\ a.t = "fn" /\ a.fn = "EditNextModifier" => a.shifted \in Shifts
        /\ a.t = "fn" /\ a.fn = "KeymapPrevPrefix" => a.n \in Int

ASSUME KeymapsAssumption ==
    /\ \A km \in Keymaps :
          /\ Parent[km] \in Keymaps \union {None}
          /\ DefaultSeq[km] \in Seq(Actions)
          /\ Assigned[km] \in Seq([key : Keys \union KeyEvents,
                                   shifted : Shifts, when : Whens,
                                   acts : Seq(Actions)])
    /\ \A w \in Windows : KeymapsOf[w] \in Seq(Keymaps) \ {<<>>}
    /\ None \notin Keymaps \union Keys

ASSUME AdHocAssumption == AdHoc \subseteq [key : Keys, acts : Seq(Actions)]

VARIABLES
    window,         \* the window in front (m_currentFocusOfThread)
    pressed,        \* keys with m_isPressed
    eng,            \* the engine's fields, see Engine below
    todo,           \* the calls to be made for the event in hand
    sent,           \* the key event generated by the last step
    oneShot,        \* m_oneShotKey: [key, shifted]
    repeats,        \* m_oneShotRepeatableRepeatCount
    used            \* history: the keys held while another one was typed

prefixVars == <<window, pressed, eng, todo, sent, oneShot, repeats, used>>
keyVars == <<window, pressed, oneShot, repeats, used>>

Home == KeymapsOf[window][1]

\* cur: m_currentKeymap     prefix: m_isPrefix
\* ignore: m_doesIgnoreModifierForPrefix
\* edit, next: m_doesEditNextModifier, m_modifierForNextKey
\* history: m_keymapPrefixHistory     depth: the recursion guard
\* and two that only record: chain, the keymaps the prefix in force was
\* reached through (the latest MaxHistory); late, a modifier key cancelled
\* the prefix
Engine(cur) ==
    [cur |-> cur, prefix |-> FALSE, ignore |-> FALSE, edit |-> FALSE,
     next |-> Free, history |-> <<>>, depth |-> 0,
     chain |-> <<>>, late |-> FALSE]

NoOneShot == [key |-> None, shifted |-> Free]
Nothing == [key |-> None, shifted |-> Free, press |-> FALSE]

PrefixInit ==
    /\ window \in Windows
    /\ pressed = {} /\ eng = Engine(Home)
    /\ todo = <<>> /\ sent = Nothing
    /\ oneShot = NoOneShot /\ repeats = 0
    /\ used = {}

-----------------------------------------------------------------------------
(***************************************************************************)
(* Calls.  c is the key being looked up (Current): its keymap, its place   *)
(* among the window's keymaps, the key, its modifiers, whether it is       *)
(* pressed, and the sequence of a script if it is for one.                 *)
(***************************************************************************)
Begin(c, isModifier) == [do |-> "begin", c |-> c, isModifier |-> isModifier]
End(press, isModifier) ==
    [do |-> "end", press |-> press, isModifier |-> isModifier, cur |-> eng.cur]
LookUp(c) == [do |-> "lookup", c |-> c]
Return == [do |-> "return"]
Event(c, km, event) ==
    [do |-> "event", c |-> [c EXCEPT !.km = km, !.key = event]]
Prefixed(ignore) == [do |-> "prefixed", ignore |-> ignore]
Act(a, c, press) == [do |-> "act", act |-> a, c |-> [c EXCEPT !.press = press]]

\* generateKeySeqEvents: a key is pressed and released for each action but the
\* last; the last follows the key (down, up), or is complete too (all)
Run(c, acts, part) ==
    LET n == Len(acts)
        taps == [i \in 1 .. 2 * n |-> Act(acts[(i + 1) \div 2], c, i % 2 = 1)]
    IN  IF n = 0 THEN <<>>
        ELSE CASE part = "all"  -> taps
               [] part = "down" -> SubSeq(taps, 1, 2 * n - 1)
               [] part = "up"   -> SubSeq(taps, 2 * n, 2 * n)

\* is it for the press, or the release, of the key?
Due(a, press) == a.when \in {Free, IF press THEN "down" ELSE "up"}

Call == Head(todo)
Calling(do) == todo # <<>> /\ Call.do = do
CallingFn(fn) ==
    /\ Calling("act") /\ Call.act.t = "fn" /\ Call.act.fn = fn
    /\ Due(Call.act, Call.c.press)

\* the calls that the one in hand makes come before those after it
Making(calls) == todo' = calls \o Tail(todo) /\ UNCHANGED keyVars
Sending(key, shifted, press) ==
    sent' = [key |-> key, shifted |-> shifted, press |-> press]

Matches(a, c) ==
    /\ a.key = c.key /\ Due(a, c.press)
    /\ a.shifted = Free \/ c.shifted = Free \/ a.shifted = c.shifted

\* Keymap::searchAssignment: where c is assigned, the first place counts
Places(c) == {i \in DOMAIN Assigned[c.km] : Matches(Assigned[c.km][i], c)}
Found(c) ==
    Assigned[c.km][CHOOSE i \in Places(c) : \A j \in Places(c) : i <= j]

-----------------------------------------------------------------------------
\* beginGeneratingKeyboardEvents, up to the events it generates
BeginGenerating ==
    /\ Calling("begin")
    /\ LET c == Call.c
           isModifier == Call.isModifier
           event == IF c.press THEN <<Event(c, c.km, "before-key-down"), LookUp(c)>>
                    ELSE <<LookUp(c), Event(c, c.km, "after-key-up")>>
       IN  /\ eng' = [eng EXCEPT
                        !.depth = 0,
                        !.prefix = @ /\ (isModifier \/ ~c.press),
                        !.cur = IF eng.prefix /\ ~isModifier /\ ~c.press
                                THEN Home ELSE @,
                        !.chain = IF eng.prefix THEN @ ELSE <<>>,
                        !.late = @ /\ isModifier]
           /\ Making(Append(event, End(c.press, isModifier)))
    /\ sent' = Nothing

\* Mutant of EndGenerating: the keymap a chain of prefixes started from is
\* restored.
EndKeepsLast ==
    /\ Calling("end")
    /\ eng' = IF Call.isModifier \/ eng.prefix THEN eng
              ELSE [eng EXCEPT !.cur = Call.cur, !.late = FALSE]
    /\ Making(<<>>) /\ sent' = Nothing

\* ... and what it does after them
EndGenerating ==
    /\ Calling("end")
    /\ eng' = IF Call.isModifier THEN eng
              ELSE [eng EXCEPT !.late = FALSE,
                               !.cur = IF ~eng.prefix THEN Home
                                       ELSE IF ~Call.press THEN Call.cur ELSE @]
    /\ Making(<<>>) /\ sent' = Nothing

\* generateKeyboardEvents: the sequence of the script, if it is for one; else
\* what is assigned to the key, completely if to its press or release only,
\* else the default of the keymap
Generate ==
    /\ Calling("lookup")
    /\ eng.depth + 1 # MaxRecursion
    /\ eng' = [eng EXCEPT !.depth = @ + 1]
    /\ LET c == Call.c
           part == IF c.press THEN "down" ELSE "up"
       IN  Making(Append(IF c.adhoc THEN Run(c, c.acts, "all")
                         ELSE IF Places(c) # {}
                         THEN Run(c, Found(c).acts,
                                  IF Found(c).when = Free THEN part ELSE "all")
                         ELSE Run(c, DefaultSeq[c.km], part),
                         Return))
    /\ sent' = Nothing

TooDeep ==
    /\ Calling("lookup")
    /\ eng.depth + 1 = MaxRecursion
    /\ Making(<<>>) /\ sent' = Nothing /\ UNCHANGED eng

Generated ==
    /\ Calling("return")
    /\ eng' = [eng EXCEPT !.depth = @ - 1]
    /\ Making(<<>>) /\ sent' = Nothing

\* generateEvents: `event' statements of a keymap
GenerateEvent ==
    /\ Calling("event")
    /\ Making(IF Places(Call.c) = {} THEN <<>>
              ELSE Run(Call.c, Found(Call.c).acts, "all"))
    /\ sent' = Nothing /\ UNCHANGED eng

\* generateActionEvents: a key, or a sequence within a sequence
ActKey ==
    /\ Calling("act") /\ Call.act.t = "key"
    /\ Making(<<>>) /\ UNCHANGED eng
    /\ IF Due(Call.act, Call.c.press)
       THEN Sending(Call.act.key, Call.c.shifted, Call.c.press)
       ELSE sent' = Nothing

ActSeq ==
    /\ Calling("act") /\ Call.act.t = "seq"
    /\ Making(Run(Call.c, Call.act.acts, IF Call.c.press THEN "down" ELSE "up"))
    /\ sent' = Nothing /\ UNCHANGED eng

-----------------------------------------------------------------------------
(***************************************************************************)
(* The functions.  Some look the key up in another keymap.                 *)
(***************************************************************************)
LookUpIn(km) == Making(<<LookUp([Call.c EXCEPT !.km = km])>>)
                /\ sent' = Nothing /\ UNCHANGED eng

\* generateModifierEvents and generateKeyEvent of funcDefault
Default == Making(<<>>) /\ Sending(Call.c.key, Call.c.shifted, Call.c.press)
           /\ UNCHANGED eng

KeymapParent ==
    /\ CallingFn("KeymapParent")
    /\ LET parent == Parent[Call.c.km]
       IN  IF parent = None THEN Default ELSE LookUpIn(parent)

KeymapWindow ==
    /\ CallingFn("KeymapWindow")
    /\ Making(<<LookUp([Call.c EXCEPT !.km = Home, !.i = 1])>>)
    /\ sent' = Nothing /\ UNCHANGED eng

OtherWindowClass ==
    /\ CallingFn("OtherWindowClass")
    /\ LET next == Call.c.i + 1
       IN  IF next > Len(KeymapsOf[window]) THEN Default
           ELSE /\ Making(<<LookUp([Call.c EXCEPT !.km = KeymapsOf[window][next],
                                                  !.i = next])>>)
                /\ sent' = Nothing /\ UNCHANGED eng

\* size() is unsigned: with n beyond the history the end of the list is read,
\* and whatever was stored there is taken for a keymap
KeymapPrevPrefix ==
    /\ CallingFn("KeymapPrevPrefix")
    /\ LET n == Call.act.n
           history == eng.history
           previous == IF n > Len(history) THEN Keymaps
                       ELSE {history[Len(history) - n + 1]}
       IN  IF n <= 0 THEN Making(<<>>) /\ sent' = Nothing /\ UNCHANGED eng
           ELSE \E km \in previous : LookUpIn(km)

Keymap == CallingFn("Keymap") /\ LookUpIn(Call.act.km)

\* Mutant of Remember: a full history takes no more.
RememberUntilFull(history, km) ==
    IF Len(history) = MaxHistory THEN history ELSE Append(history, km)

\* setCurrentKeymap, adding to the history
Remember(history, km) ==
    LET h == Append(history, km)
    IN  IF Len(h) > MaxHistory THEN Tail(h) ELSE h

\* what is recorded of a way, so that there are finitely many states
Latest(way) ==
    SubSeq(way, IF Len(way) > MaxHistory THEN Len(way) - MaxHistory + 1 ELSE 1,
           Len(way))

Prefix ==
    /\ CallingFn("Prefix")
    /\ LET a == Call.act
       IN  IF Call.c.press
           THEN /\ eng' = [eng EXCEPT !.history = Remember(@, eng.cur),
                                      !.chain = Latest(Append(@, eng.cur)),
                                      !.cur = a.km]
                /\ Making(<<Event(Call.c, a.km, "prefixed"),
                            Prefixed(a.ignore)>>)
           ELSE Making(<<>>) /\ UNCHANGED eng
    /\ sent' = Nothing

\* ... and what &Prefix does after the event
PrefixSet ==
    /\ Calling("prefixed")
    /\ eng' = [eng EXCEPT !.prefix = TRUE, !.edit = FALSE, !.late = FALSE,
                          !.ignore = Call.ignore]
    /\ Making(<<>>) /\ sent' = Nothing

EditNextModifier ==
    /\ CallingFn("EditNextModifier")
    /\ eng' = IF ~Call.c.press THEN eng
              ELSE [eng EXCEPT !.prefix = TRUE, !.edit = TRUE, !.ignore = TRUE,
                               !.next = Call.act.shifted, !.late = FALSE]
    /\ Making(<<>>) /\ sent' = Nothing

CancelPrefix ==
    /\ CallingFn("CancelPrefix")
    /\ eng' = [eng EXCEPT !.prefix = FALSE, !.late = @ \/ eng.prefix]
    /\ Making(<<>>) /\ sent' = Nothing

SendDefault == CallingFn("Default") /\ Default

Undefined ==
    CallingFn("Undefined") /\ Making(<<>>) /\ sent' = Nothing /\ UNCHANGED eng

NotDue ==
    /\ Calling("act") /\ Call.act.t = "fn" /\ ~Due(Call.act, Call.c.press)
    /\ Making(<<>>) /\ sent' = Nothing /\ UNCHANGED eng

CallFunction ==
    \/ NotDue
    \/ KeymapParent \/ KeymapWindow \/ OtherWindowClass
    \/ KeymapPrevPrefix \/ Keymap
    \/ Prefix \/ EditNextModifier \/ CancelPrefix \/ SendDefault \/ Undefined

Step ==
    \/ BeginGenerating \/ EndGenerating
    \/ Generate \/ TooDeep \/ Generated \/ GenerateEvent
    \/ ActKey \/ ActSeq \/ CallFunction \/ PrefixSet

-----------------------------------------------------------------------------
(***************************************************************************)
(* keyboardHandler: one event of a key of the Setting.                     *)
(***************************************************************************)
Current(km, k, shifted, press) ==
    [km |-> km, i |-> 1, key |-> k, shifted |-> shifted, press |-> press,
     adhoc |-> FALSE, acts |-> <<>>]

\* isPressed(Modifier::Type_Shift)
Shifted(keys) == \E k \in keys : ModeOf[eng.cur][k] # "none"

\* fixModifierKey, and what a prefix changes of it
Mode(k) ==
    IF ModeOf[eng.cur][k] # "none" /\ eng.prefix /\ eng.ignore THEN "true"
    ELSE ModeOf[eng.cur][k]

\* The key with its modifiers; &EditNextModifier has the last word.
Looked(k, press, keys) ==
    LET own == IF ModeOf[eng.cur][k] = "none"
              THEN IF Shifted(keys) THEN "on" ELSE "off"
              ELSE Free
    IN  Current(eng.cur, k,
                IF eng.prefix /\ eng.edit /\ eng.next # Free THEN eng.next
                ELSE own, press)

KeysAfter(k, press) == IF press THEN pressed \union {k} ELSE pressed \ {k}

IsOneShot(mode) == mode \in {"oneShot", "oneShotRepeatable"}

\* resetModifiersIfIdle, once the event is done with
ResetIfIdle(shot, keys) == IF keys = {} THEN [shot EXCEPT !.key = None] ELSE shot

\* a true modifier sends nothing
TrueModifier(k, press) ==
    /\ Mode(k) = "true"
    /\ oneShot' = ResetIfIdle(oneShot, KeysAfter(k, press))
    /\ UNCHANGED <<todo, repeats>>

\* pressed, or repeating: remembered; once the delay is over it is sent
OneShotDown(k) ==
    LET c == Looked(k, TRUE, KeysAfter(k, TRUE))
        again == Mode(k) = "oneShotRepeatable" /\ oneShot.key = k
    IN  /\ IsOneShot(Mode(k))
        /\ IF again
           THEN /\ todo' = IF repeats < Delay THEN <<>> ELSE <<Begin(c, FALSE)>>
                /\ repeats' = IF repeats < Delay THEN repeats + 1 ELSE repeats
                /\ UNCHANGED oneShot
           ELSE /\ oneShot' = [key |-> k, shifted |-> c.shifted]
                /\ repeats' = 0
                /\ UNCHANGED todo

\* released with a one-shot key remembered: pressed and released at once
OneShotUp(k) ==
    LET c(press) == Current(eng.cur, k, oneShot.shifted, press)
    IN  /\ IsOneShot(Mode(k))
        /\ todo' = IF oneShot.key = None THEN <<>>
                   ELSE <<Begin(c(TRUE), FALSE), Begin(c(FALSE), FALSE)>>
        /\ oneShot' = NoOneShot
        /\ repeats' = 0

\* Mutant of NormalKey: the remembered one-shot key survives other keys.
NormalKeyKeepsOneShot(k, press) ==
    /\ Mode(k) \in {"none", "normal"}
    /\ todo' = <<Begin(Looked(k, press, KeysAfter(k, press)), Mode(k) = "normal")>>
    /\ UNCHANGED <<oneShot, repeats>>

NormalKey(k, press) ==
    /\ Mode(k) \in {"none", "normal"}
    /\ todo' = <<Begin(Looked(k, press, KeysAfter(k, press)), Mode(k) = "normal")>>
    /\ oneShot' = IF press THEN [oneShot EXCEPT !.key = None]
                  ELSE ResetIfIdle(oneShot, KeysAfter(k, press))
    /\ UNCHANGED repeats

Key(k, press) ==
    /\ todo = <<>>
    /\ press \/ k \in pressed
    /\ \/ TrueModifier(k, press)
       \/ press /\ OneShotDown(k)
       \/ ~press /\ OneShotUp(k)
       \/ NormalKey(k, press)
    /\ pressed' = KeysAfter(k, press)
    /\ used' = IF ~press THEN used \ {k}
               ELSE IF IsOneShot(Mode(k)) THEN {}
               ELSE IF Mode(k) = "true" THEN used
               ELSE pressed \ {k}
    /\ sent' = Nothing /\ UNCHANGED <<window, eng>>

(***************************************************************************)
(* A sequence of a script (ExecKeySeq) goes the way of a key, in the       *)
(* current keymap or that of the window the script was called for.         *)
(***************************************************************************)
RunAdHoc(a, km) ==
    /\ todo = <<>>
    /\ todo' = <<Begin([Current(km, a.key, Free, TRUE)
                           EXCEPT !.adhoc = TRUE, !.acts = a.acts], FALSE)>>
    /\ oneShot' = ResetIfIdle(oneShot, pressed)
    /\ sent' = Nothing /\ UNCHANGED <<window, pressed, eng, repeats, used>>

(***************************************************************************)
(* Another window comes to the front, or a Setting is applied: the history *)
(* is cleared, but not the prefix.                                         *)
(***************************************************************************)
ChangeWindow(w) ==
    /\ todo = <<>>
    /\ window' = w
    /\ eng' = [eng EXCEPT !.cur = KeymapsOf[w][1], !.history = <<>>,
                          !.chain = <<>>, !.late = FALSE]
    /\ sent' = Nothing /\ UNCHANGED <<todo, pressed, oneShot, repeats, used>>

PrefixNext ==
    \/ Step
    \/ \E k \in Keys, press \in BOOLEAN : Key(k, press)
    \/ \E a \in AdHoc : RunAdHoc(a, eng.cur)
    \/ \E a \in AdHoc, w \in Windows : RunAdHoc(a, KeymapsOf[w][1])
    \/ \E w \in Windows : ChangeWindow(w)

PrefixSpec == PrefixInit /\ [][PrefixNext]_prefixVars

-----------------------------------------------------------------------------
Lookups ==
    [km : Keymaps, i : Nat \ {0}, key : Keys \union KeyEvents, shifted : Shifts,
     press : BOOLEAN, adhoc : BOOLEAN, acts : Seq(Actions)]

Engines ==
    [cur : Keymaps, prefix : BOOLEAN, ignore : BOOLEAN, edit : BOOLEAN,
     next : Shifts, history : Seq(Keymaps), depth : Int,
     chain : Seq(Keymaps), late : BOOLEAN]

Calls ==
    [do : {"begin"}, c : Lookups, isModifier : BOOLEAN]
    \union [do : {"end"}, press : BOOLEAN, isModifier : BOOLEAN, cur : Keymaps]
    \union [do : {"lookup", "event"}, c : Lookups]
    \union [do : {"return"}]
    \union [do : {"act"}, act : Actions, c : Lookups]
    \union [do : {"prefixed"}, ignore : BOOLEAN]

PrefixTypeOK ==
    /\ window \in Windows /\ pressed \subseteq Keys
    /\ eng \in Engines /\ Len(eng.history) <= MaxHistory
    /\ todo \in Seq(Calls)
    /\ oneShot \in [key : Keys \union {None}, shifted : Shifts]
    /\ repeats \in 0 .. Delay
    /\ used \subseteq pressed

(***************************************************************************)
(* When no prefix waits for a key the keymap in force is the window's: a   *)
(* chain of prefixes, a key released in the middle of it, a sequence of a  *)
(* script or a cancelled prefix all find back (the table in                *)
(* beginGeneratingKeyboardEvents).  A modifier key that cancels a prefix   *)
(* does so one key late.                                                   *)
(***************************************************************************)
PrefixEndsAtHome ==
    todo = <<>> /\ ~eng.prefix /\ ~eng.late => eng.cur = Home

(***************************************************************************)
(* &KeymapPrevPrefix(n) in a keymap that was reached by prefixes finds the *)
(* n-th keymap back on that way: the end of m_keymapPrefixHistory is the   *)
(* way, however much older history there is and whatever was dropped from  *)
(* its front.                                                              *)
(***************************************************************************)
HistoryFollowsChain ==
    \A n \in 1 .. Len(eng.chain) :
        /\ n <= Len(eng.history)
        /\ eng.history[Len(eng.history) - n + 1] =
               eng.chain[Len(eng.chain) - n + 1]

(***************************************************************************)
(* "LShift + A: only X is sent" (doc/src/manual-ja/05-customize.md:417): a *)
(* one-shot key that was held while another key was typed sends nothing    *)
(* when it is released, unless a second one-shot key was pressed later.    *)
(***************************************************************************)
OneShotAlone ==
    [][\A k \in used \ pressed' : IsOneShot(Mode(k)) =>
          todo' = <<>> /\ sent' = Nothing]_prefixVars

(***************************************************************************)
(* "m_adhocKeySeq: run directly with Part_all" (doc/event-flow.md:49): a   *)
(* script's sequence is run once, and not again by what it looks up.       *)
(***************************************************************************)
AdHocSentOnce ==
    Calling("lookup") /\ Call.c.adhoc => eng.depth = 0
=============================================================================
