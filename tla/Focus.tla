------------------------------- MODULE Focus -------------------------------
(***************************************************************************)
(* How nyamy learns which window has the keyboard and picks its keymap.    *)
(*                                                                         *)
(* The hook DLL reports, under the thread that saw it, every change of the *)
(* focus window (hook.cpp); the report travels through the mailslot to the *)
(* notify reader, which records it per thread (Engine::setFocus).  Before  *)
(* each event the engine looks up the thread that has the focus            *)
(* (Engine::checkFocusWindow).  A Setting replaces every keymap            *)
(* (Engine::applySetting), a thread that ends takes its entry with it, and *)
(* a report that arrives while a &Sync or &Wait parks the engine is        *)
(* dropped.                                                                *)
(*                                                                         *)
(* The list of keymaps of a window is abstracted to its first one: the     *)
(* list is empty before the first Setting and never afterwards, because    *)
(* the global keymap matches every window.                                 *)
(***************************************************************************)
EXTENDS Naturals, Sequences, FiniteSets

CONSTANTS Hooked,       \* UI threads the hook DLL is injected into
          Console,      \* a thread owning a console window, which has no hook
          Windows,      \* windows that can take the keyboard
          Owner,        \* the thread each window belongs to
          WithMenu,     \* bound: hooked threads that open a menu
          Mortal,       \* bound: hooked threads that end
          Nothing,      \* NULL: no thread, no window, no keymap
          Global,       \* m_globalFocus
          MaxSetting,   \* bound: Settings applied
          MaxMail,      \* bound: notifications in the mailslot
          MaxEnds       \* bound: threads that end

Faces == [hwnd : Windows, menu : BOOLEAN]
Keymaps == [of : Faces \cup {Global}, setting : 1..MaxSetting] \cup {Nothing}
FocusOfThreads == [face : Faces, keymap : Keymaps]

ASSUME BoundsAssumption ==
    /\ MaxSetting \in Nat /\ MaxMail \in Nat /\ MaxEnds \in Nat
    /\ IsFiniteSet(Hooked) /\ Console \notin Hooked
    /\ WithMenu \subseteq Hooked /\ Mortal \subseteq Hooked
    /\ Owner \in [Windows -> Hooked \cup {Console}]
    /\ {Nothing, Global} \cap (Hooked \cup {Console} \cup Windows) = {}
    /\ Nothing # Global
    /\ Nothing \notin [of : Faces \cup {Global}, setting : 1..MaxSetting]
    /\ Nothing \notin FocusOfThreads

Threads == Hooked \cup {Console}

VARIABLES
    \* Windows and the hook DLL
    fore,        \* thread that has the keyboard, or Nothing
    focus,       \* its focus window (GetFocus), or Nothing
    alive,       \* hooked threads that run
    inMenu,      \* hooked threads inside a menu loop (t.m_isInMenu)
    reported,    \* focus window each thread last reported (t.m_hwndFocus)
    mail,        \* the mailslot
    ends,        \* threads that ended so far
    \* Engine
    setting,     \* number of the Setting in use, 0 before the first
    isSync,      \* m_isSynchronizing
    entries,     \* m_focusOfThreads
    detached,    \* m_detachedThreadIds
    current,     \* m_currentFocusOfThread: a thread, Global or Nothing
    hwndFocus,   \* m_hwndFocus
    erased,      \* the entry m_currentFocusOfThread points to, once it is
                 \* erased; Nothing while that pointer is good
    keymap,      \* m_currentKeymap
    \* the engine thread inside one round of its loop
    pc,          \* where it is
    seen,        \* focusThreadOf(GetForegroundWindow())
    again,       \* checkFocusWindow has restarted (2 <= count)
    \* history, for the properties
    taken,       \* threads whose last report was not dropped
    reborn       \* ids Windows used again after their thread ended

desktopVars == <<fore, focus, alive, inMenu, reported, ends, reborn>>
entryVars   == <<entries, detached>>
pointerVars == <<current, erased>>
engineVars  == <<setting, isSync, hwndFocus, keymap>>
roundVars   == <<pc, seen, again>>
engineState == <<entryVars, pointerVars, engineVars, roundVars, taken>>
vars == <<desktopVars, mail, engineState>>

Face(w, m) == [hwnd |-> w, menu |-> m]
Lookup(face) == [of |-> face, setting |-> setting]
GlobalKeymap == IF setting = 0 THEN Nothing ELSE Lookup(Global)

Init ==
    /\ fore = Nothing /\ focus = Nothing
    /\ alive = Hooked
    /\ inMenu = {}
    /\ reported = [t \in Hooked |-> Nothing]
    /\ mail = << >>
    /\ ends = 0
    /\ setting = 0
    /\ isSync = FALSE
    /\ entries = << >>
    /\ detached = {}
    /\ current = Nothing /\ erased = Nothing
    /\ hwndFocus = Nothing /\ keymap = Nothing
    /\ pc = "idle" /\ seen = Nothing /\ again = FALSE
    /\ taken = {} /\ reborn = {}

-----------------------------------------------------------------------------
(* The desktop and the hook DLL *)

Notify(msg) ==
    /\ Len(mail) < MaxMail
    /\ mail' = Append(mail, msg)

Report(t, w, m) == Notify([type |-> "setFocus", thread |-> t, face |-> Face(w, m)])

\* A report is sent on a change only, unless forced, and never for no window.
NotifySetFocus(t, w, m, force) ==
    IF force \/ w # reported[t]
    THEN /\ reported' = [reported EXCEPT ![t] = w]
         /\ IF w = Nothing THEN UNCHANGED mail ELSE Report(t, w, m)
    ELSE UNCHANGED <<reported, mail>>

\* Another thread gets the keyboard.  WM_ACTIVATEAPP reaches the hook before
\* the focus is assigned, if it reaches this thread at all.
Activate(t) ==
    /\ t # fore
    /\ t \in Hooked => t \in alive
    /\ fore' = t
    /\ focus' = Nothing
    /\ \/ UNCHANGED <<reported, mail>>
       \/ t \in Hooked /\ NotifySetFocus(t, Nothing, t \in inMenu, FALSE)
    /\ UNCHANGED <<alive, inMenu, ends, reborn, engineState>>

\* WM_SETFOCUS
TakeFocus(w) ==
    /\ fore \in Hooked /\ Owner[w] = fore /\ w # focus
    /\ focus' = w
    /\ inMenu' = inMenu \ {fore}
    /\ NotifySetFocus(fore, w, FALSE, FALSE)
    /\ UNCHANGED <<fore, alive, ends, reborn, engineState>>

\* WM_ENTERMENULOOP and WM_EXITMENULOOP: same window, another name
MenuLoop(m) ==
    /\ fore \in WithMenu
    /\ m # (fore \in inMenu)
    /\ inMenu' = IF m THEN inMenu \cup {fore} ELSE inMenu \ {fore}
    /\ NotifySetFocus(fore, focus, m, TRUE)
    /\ UNCHANGED <<fore, focus, alive, ends, reborn, engineState>>

\* DLL_THREAD_DETACH
ThreadEnds(t) ==
    /\ t \in alive \cap Mortal /\ ends < MaxEnds
    /\ ends' = ends + 1
    /\ alive' = alive \ {t}
    /\ IF t = fore THEN fore' = Nothing /\ focus' = Nothing
                   ELSE UNCHANGED <<fore, focus>>
    /\ inMenu' = inMenu \ {t}
    /\ reported' = [reported EXCEPT ![t] = Nothing]
    /\ Notify([type |-> "threadDetach", thread |-> t])
    /\ UNCHANGED <<reborn, engineState>>

\* A new thread, which Windows may give the id of one that has ended.
ThreadStarts(t) ==
    /\ t \in Hooked \ alive
    /\ alive' = alive \cup {t}
    /\ reborn' = reborn \cup {t}
    /\ UNCHANGED <<fore, focus, inMenu, reported, mail, ends, engineState>>

Desktop ==
    \/ \E t \in Threads \cup {Nothing} : Activate(t)
    \/ \E w \in Windows : TakeFocus(w)
    \/ \E m \in BOOLEAN : MenuLoop(m)
    \/ \E t \in Hooked : ThreadEnds(t) \/ ThreadStarts(t)

-----------------------------------------------------------------------------
(* Notifications arriving at the engine *)

KeymapFor(face) == IF setting = 0 THEN Nothing ELSE Lookup(face)

\* m_focusOfThreads with thread t's entry put in
Entered(t, entry) ==
    [u \in DOMAIN entries \cup {t} |-> IF u = t THEN entry ELSE entries[u]]

\* An entry that already says so is left as it is, keymap included.
Recorded(t, face) ==
    IF t \in DOMAIN entries /\ entries[t].face = face
    THEN entries
    ELSE Entered(t, [face |-> face, keymap |-> KeymapFor(face)])

\* A new entry may be put where the erased one was: m_currentFocusOfThread
\* then points to it.
Allocated(t) ==
    \/ UNCHANGED pointerVars
    \/ /\ erased # Nothing /\ t \notin DOMAIN entries
       /\ current' = t /\ erased' = Nothing

\* Mutant of SetFocus: an id that is in use again stays on the list of the dead.
SetFocusKeepsDetached(t, face) ==
    IF isSync THEN UNCHANGED <<entryVars, pointerVars>>
              ELSE /\ entries' = Recorded(t, face)
                   /\ Allocated(t)
                   /\ UNCHANGED detached

\* Engine::setFocus
SetFocus(t, face) ==
    IF isSync THEN UNCHANGED <<entryVars, pointerVars>>
              ELSE /\ detached' = detached \ {t}
                   /\ entries' = Recorded(t, face)
                   /\ Allocated(t)

\* The notify reader hands over one message (Mayu::notifyHandler).
Deliver ==
    /\ mail # << >> /\ pc # "crashed"
    /\ mail' = Tail(mail)
    /\ LET n == Head(mail) IN
         IF n.type = "setFocus"
         THEN /\ SetFocus(n.thread, n.face)
              /\ taken' = IF isSync THEN taken \ {n.thread} ELSE taken \cup {n.thread}
         ELSE /\ detached' = detached \cup {n.thread}
              /\ UNCHANGED <<entries, pointerVars, taken>>
    /\ UNCHANGED <<desktopVars, engineVars, roundVars>>

-----------------------------------------------------------------------------
(* Engine::checkFocusWindow *)

ReadForeground ==
    /\ pc = "idle"
    /\ seen' = fore
    /\ again' = FALSE
    /\ pc' = IF fore = Nothing THEN "global" ELSE "look"
    /\ UNCHANGED <<desktopVars, mail, entryVars, pointerVars, engineVars, taken>>

\* The entry m_currentFocusOfThread points to, and what it still says after
\* the previous pass erased it
Pointed == IF erased = Nothing THEN entries[current] ELSE erased

Unchanged == current = seen /\ Pointed.face.hwnd = hwndFocus

\* The dead are erased, the one m_currentFocusOfThread points to among them.
PointerAfterErasing ==
    IF erased = Nothing /\ current \in DOMAIN entries \cap detached
    THEN entries[current] ELSE erased

Known == [t \in DOMAIN entries \ detached |-> entries[t]]

\* Mutant of LookUp: the entry is found before the dead are erased.
LookUpBeforeErasing ==
    /\ entries' = Known
    /\ detached' = {}
    /\ IF seen \in DOMAIN entries
       THEN /\ current' = seen
            /\ erased' = IF seen \in detached THEN entries[seen] ELSE Nothing
            /\ IF seen # Console \/ again
               THEN /\ keymap' = entries[seen].keymap
                    /\ hwndFocus' = entries[seen].face.hwnd
                    /\ pc' = "event"
               ELSE /\ UNCHANGED <<keymap, hwndFocus>>
                    /\ pc' = "unlocked"
       ELSE /\ erased' = PointerAfterErasing
            /\ UNCHANGED <<current, keymap, hwndFocus>>
            /\ pc' = "unlocked"

\* The dead are erased, and the thread is looked up among the rest; a console
\* has to be asked first.
LookUp ==
    /\ entries' = Known
    /\ detached' = {}
    /\ IF seen \in DOMAIN Known
       THEN /\ current' = seen /\ erased' = Nothing
            /\ IF seen # Console \/ again
               THEN /\ keymap' = Known[seen].keymap
                    /\ hwndFocus' = Known[seen].face.hwnd
                    /\ pc' = "event"
               ELSE /\ UNCHANGED <<keymap, hwndFocus>>
                    /\ pc' = "unlocked"
       ELSE /\ erased' = PointerAfterErasing
            /\ UNCHANGED <<current, keymap, hwndFocus>>
            /\ pc' = "unlocked"

CheckFocusWindow ==
    /\ pc = "look"
    /\ \/ /\ Unchanged
          /\ pc' = "event"
          /\ UNCHANGED <<entryVars, pointerVars, keymap, hwndFocus>>
       \/ /\ ~Unchanged \/ erased # Nothing   \* its memory may be used again
          /\ LookUp
    /\ UNCHANGED <<desktopVars, mail, setting, isSync, seen, again, taken>>

\* The engine reads a console's name itself, without the mutex, and restarts.
AskConsole ==
    /\ pc = "unlocked" /\ seen = Console
    /\ \E w \in {v \in Windows : Owner[v] = Console} : SetFocus(Console, Face(w, FALSE))
    /\ again' = TRUE
    /\ seen' = fore
    /\ pc' = IF fore = Nothing THEN "global" ELSE "look"
    /\ UNCHANGED <<desktopVars, mail, engineVars, taken>>

\* No entry for this thread: the global focus, or none before the first Setting
FallBack ==
    /\ current' = IF GlobalKeymap = Nothing THEN Nothing ELSE Global
    /\ erased' = Nothing
    /\ keymap' = IF current = Global THEN keymap ELSE GlobalKeymap
    /\ hwndFocus' = Nothing

NoEntry ==
    /\ pc = "global" \/ (pc = "unlocked" /\ seen # Console)
    /\ FallBack
    /\ pc' = "event"
    /\ UNCHANGED <<desktopVars, mail, entryVars, setting, isSync, seen, again, taken>>

-----------------------------------------------------------------------------
(* The event the round is for *)

EndRound ==
    /\ pc' = "idle"
    /\ seen' = Nothing /\ again' = FALSE

CurrentKeymap ==
    IF current = Global THEN GlobalKeymap ELSE Pointed.keymap

Ready == setting # 0 /\ current # Nothing /\ keymap # Nothing

\* A key before the first Setting, or with no keymap, goes to the system; so
\* does a modifier in that it leaves the keymap alone.
HandlePlain ==
    /\ pc = "event"
    /\ EndRound
    /\ UNCHANGED <<desktopVars, mail, entryVars, pointerVars, engineVars, taken>>

\* beginGeneratingKeyboardEvents leaves the first keymap of the current window.
HandleKey ==
    /\ pc = "event" /\ Ready
    /\ keymap' = CurrentKeymap
    /\ EndRound
    /\ UNCHANGED <<desktopVars, mail, entryVars, pointerVars, setting, isSync,
                   hwndFocus, taken>>

\* A key sequence with &Sync or &Wait: the mutex is released while it waits.
BeginSync ==
    /\ pc = "event" /\ Ready
    /\ isSync' = TRUE
    /\ pc' = "sync"
    /\ UNCHANGED <<desktopVars, mail, entryVars, pointerVars, setting, hwndFocus,
                   keymap, seen, again, taken>>

EndSync ==
    /\ pc = "sync"
    /\ isSync' = FALSE
    /\ keymap' = CurrentKeymap
    /\ EndRound
    /\ UNCHANGED <<desktopVars, mail, entryVars, pointerVars, setting, hwndFocus, taken>>

\* Mutant of Refreshed: only the window in use gets its new keymap.
RefreshedCurrentOnly(s) ==
    IF current \in DOMAIN entries
    THEN [entries EXCEPT ![current].keymap = [of |-> entries[current].face, setting |-> s]]
    ELSE entries

\* Every entry is looked up again, if there is a current one.
Refreshed(s) ==
    IF current = Nothing THEN entries
    ELSE [t \in DOMAIN entries |->
             [entries[t] EXCEPT !.keymap = [of |-> entries[t].face, setting |-> s]]]

\* Engine::applySetting
ApplySetting ==
    /\ pc = "event" /\ setting < MaxSetting
    /\ setting' = setting + 1
    /\ entries' = Refreshed(setting')
    /\ current' = Global /\ erased' = Nothing
    /\ keymap' = [of |-> Global, setting |-> setting']
    /\ hwndFocus' = Nothing
    /\ EndRound
    /\ UNCHANGED <<desktopVars, mail, detached, isSync, taken>>

\* An erased entry may not even be readable.
Crash ==
    /\ erased # Nothing /\ pc \in {"look", "event", "sync"}
    /\ pc' = "crashed" /\ isSync' = FALSE
    /\ UNCHANGED <<desktopVars, mail, entryVars, pointerVars, setting, hwndFocus,
                   keymap, seen, again, taken>>

Engine ==
    \/ ReadForeground \/ CheckFocusWindow \/ AskConsole \/ NoEntry
    \/ HandlePlain \/ HandleKey \/ BeginSync \/ EndSync \/ ApplySetting
    \/ Crash

Next == Desktop \/ Deliver \/ Engine

Spec == Init /\ [][Next]_vars

-----------------------------------------------------------------------------
Messages == [type : {"setFocus"}, thread : Hooked, face : Faces]
            \cup [type : {"threadDetach"}, thread : Hooked]

(***************************************************************************)
(* Every variable has a value its declaration in the code allows.          *)
(***************************************************************************)
TypeOK ==
    /\ fore \in Threads \cup {Nothing}
    /\ focus \in Windows \cup {Nothing}
    /\ alive \subseteq Hooked /\ inMenu \subseteq Hooked
    /\ reported \in [Hooked -> Windows \cup {Nothing}]
    /\ mail \in Seq(Messages) /\ Len(mail) <= MaxMail
    /\ ends \in 0..MaxEnds
    /\ setting \in 0..MaxSetting
    /\ isSync = (pc = "sync")
    /\ DOMAIN entries \subseteq Threads
    /\ \A t \in DOMAIN entries : entries[t] \in FocusOfThreads
    /\ detached \subseteq Hooked
    /\ current \in Threads \cup {Global, Nothing}
    /\ erased \in FocusOfThreads \cup {Nothing}
    /\ hwndFocus \in Windows \cup {Nothing}
    /\ keymap \in Keymaps
    /\ pc \in {"idle", "look", "unlocked", "global", "event", "sync", "crashed"}
    /\ seen \in Threads \cup {Nothing}
    /\ again \in BOOLEAN
    /\ taken \subseteq Hooked /\ reborn \subseteq Hooked

(***************************************************************************)
(* While an event is handled, through every wait it contains,              *)
(* m_currentFocusOfThread points to an entry that exists: it dangles from  *)
(* the erasing of the dead (engine.cpp:87) until it is set again, which is *)
(* before the event, unless the id of the thread that ended went to        *)
(* another one and that has the keyboard (engine.cpp:65).                  *)
(***************************************************************************)
CurrentIsLive ==
    pc \in {"event", "sync"} =>
        \/ erased = Nothing /\ current \in DOMAIN entries \cup {Global, Nothing}
        \/ current \in reborn /\ seen = current

(***************************************************************************)
(* No keymap of a Setting that was replaced is left in any entry, nor as   *)
(* the current one: it went with its Setting (engine.cpp:1914).            *)
(***************************************************************************)
KeymapsOfThisSetting ==
    \A k \in {entries[t].keymap : t \in DOMAIN entries} \cup {keymap} :
        k # Nothing => k.setting = setting

(***************************************************************************)
(* A key that starts a key sequence ends it on the first keymap of the     *)
(* current window, read after every wait: that list is never empty then,   *)
(* whatever was reported or applied before (engine.cpp:729, 750).          *)
(***************************************************************************)
FrontExists ==
    (pc \in {"event", "sync"} /\ Ready) => CurrentKeymap # Nothing

\* The thread with the keyboard reported its focus window, and nyamy has no
\* message of it left to read.
Announced ==
    /\ fore \in Hooked /\ focus # Nothing /\ reported[fore] = focus
    /\ \A i \in DOMAIN mail : mail[i].thread # fore

(***************************************************************************)
(* A focus window whose report was taken in is the one the next event acts *)
(* on: neither a thread that had the keyboard before, nor an id used again *)
(* after its thread ended, nor a Setting applied in between hides it       *)
(* (engine.cpp:67, 2079).  Not claimed of a look that compares with an     *)
(* entry erased before.                                                    *)
(***************************************************************************)
FollowsFocus ==
    [][(CheckFocusWindow /\ seen = fore /\ Announced /\ fore \in taken
           /\ erased = Nothing)
          => current' = fore /\ hwndFocus' = focus]_vars

(***************************************************************************)
(* "internal error: m_currentKeymap == NULL" (engine.cpp:1582) reports a   *)
(* state that must not arise: once there is a Setting, an event finds a    *)
(* keymap.                                                                 *)
(***************************************************************************)
KeymapOnceSetting ==
    (pc = "event" /\ setting # 0) => keymap # Nothing

(***************************************************************************)
(* No event acts on an erased entry: checkFocusWindow erases the entry     *)
(* m_currentFocusOfThread points to (engine.cpp:87) and compares with it   *)
(* after the restart (engine.cpp:65).                                      *)
(***************************************************************************)
NothingErasedIsUsed == pc \in {"event", "sync"} => erased = Nothing

(***************************************************************************)
(* "Nothing re-sends it: focus recovers because checkFocusWindow()         *)
(* re-derives it on the next event" (engine.h:308): with no report left to *)
(* read, the next event acts on the focus window the thread reported.      *)
(***************************************************************************)
FocusRecovers ==
    [][(CheckFocusWindow /\ seen = fore /\ Announced) => hwndFocus' = focus]_vars
=============================================================================
