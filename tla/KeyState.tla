------------------------------ MODULE KeyState ------------------------------
(***************************************************************************)
(* What the engine believes of the keys: m_isPressed, m_isPressedOnWin32   *)
(* and the two counters, from the hooks to SendInput().                    *)
(*                                                                         *)
(* The engine thread takes one event at a time from the input queue, drops *)
(* stale marks, looks the key up, runs the key sequences of the keymaps    *)
(* and, when no key is pressed, releases everything.  Around it the hooks  *)
(* push, the UI thread flips m_isEnabled and m_isLogMode and schedules     *)
(* Settings, and the foreground window or the secure desktop keeps events  *)
(* away from the hooks and injections away from the system.                *)
(*                                                                         *)
(* Keymaps are the user's: a key sequence is any sequence of presses and   *)
(* releases of keys that are not Plain, and a Plain key gives itself.      *)
(***************************************************************************)
EXTENDS Integers, Sequences, FiniteSets

CONSTANTS
  Key,          \* keys, mouse buttons included
  Button,       \* the mouse buttons among them (isMouseButtonKey)
  Verifiable,   \* keys scanCodeToVKey() knows
  Modifier,     \* keys that generateModifierEvents() releases
  Plain,        \* keys without an assignment, in no key sequence
  Setting,
  KeysOf,       \* the keyboard definition of each Setting
  NoSetting,
  MaxQueue,     \* bound: events in the input queue
  MaxSwitch     \* bound: switches of mode, reloads, unlocks

ASSUME KeysAssumption ==
  /\ IsFiniteSet(Key)
  /\ Button \subseteq Key
  /\ Verifiable \subseteq Key
  /\ Modifier \subseteq Key
  /\ Plain \subseteq Key
  /\ KeysOf \in [Setting -> SUBSET Key]
  /\ NoSetting \notin Setting

VARIABLES
  setting, enabled, logMode,   \* m_setting, m_isEnabled, m_isLogMode
  resyncForceRequested,
  inputQueue,
  away,          \* an elevated window or the secure desktop is in front
  physical,      \* keys that are down on the hardware
  os,            \* keys that are down for the applications (GetAsyncKeyState)
  pressed,       \* keys with m_isPressed
  onWin32,       \* keys with m_isPressedOnWin32
  pressCount,    \* m_currentKeyPressCount
  win32Count,    \* m_currentKeyPressCountOnWin32
  pc,            \* where the engine thread is
  after,         \* where it goes once the idle reset is done
  event,         \* the event in hand
  owed,          \* what the key sequence of a Plain key still has to generate
  switches,      \* history: how many switches there were
  bypassed,      \* history: an event or an injection missed the bookkeeping
  overtaken,     \* history: an event got past those still in the queue
  undelivered,   \* history: an injection was dropped by the system
  keyLost,       \* history: a marked key was not in the next Setting
  gained         \* history: a Setting gave a button that was down an assignment

mode    == <<setting, enabled, logMode, resyncForceRequested>>
world   == <<away, physical>>
marks   == <<pressed, onWin32, pressCount, win32Count>>
thread  == <<pc, after, event, owed>>
history == <<bypassed, overtaken, undelivered, keyLost, gained>>
vars == <<mode, inputQueue, world, os, marks, thread, switches, history>>

KeyEvent(k, press) == [type |-> "key", key |-> k, press |-> press]
SettingEvent(s)    == [type |-> "setting", setting |-> s]
AdHocEvent(s)      == [type |-> "adhoc", origin |-> s]
Events == {KeyEvent(k, press) : k \in Key, press \in BOOLEAN}
          \cup {SettingEvent(s) : s \in Setting} \cup {AdHocEvent(s) : s \in Setting}
NoEvent == [type |-> "none"]

Defined == IF setting = NoSetting THEN {} ELSE KeysOf[setting]

\* nothing is pressed yet, and the first Setting has been loaded or has not
Init ==
  /\ setting \in Setting \cup {NoSetting}
  /\ enabled = TRUE
  /\ logMode = FALSE
  /\ resyncForceRequested = FALSE
  /\ inputQueue = <<>>
  /\ away = FALSE
  /\ physical = {}
  /\ os = {}
  /\ pressed = {}
  /\ onWin32 = {}
  /\ pressCount = 0
  /\ win32Count = 0
  /\ pc = "boundary"
  /\ after = "boundary"
  /\ event = NoEvent
  /\ owed = {}
  /\ switches = 0
  /\ bypassed = FALSE
  /\ overtaken = FALSE
  /\ undelivered = FALSE
  /\ keyLost = FALSE
  /\ gained = FALSE

With(set, k, press) == IF press THEN set \cup {k} ELSE set \ {k}

-----------------------------------------------------------------------------
(* The hooks. *)

Push(e) ==
  /\ Len(inputQueue) < MaxQueue
  /\ inputQueue' = Append(inputQueue, e)

\* what the hardware can do to a key next; a key that is held repeats its make,
\* a button does not
Possible(k, press) == press # (k \in physical) \/ (press /\ k \notin Button)

\* keyboardDetour, mouseDetour: swallowed and queued
HookQueues(k, press) ==
  /\ enabled /\ ~away
  /\ Possible(k, press)
  /\ physical' = With(physical, k, press)
  /\ Push(KeyEvent(k, press))
  /\ UNCHANGED <<mode, away, os, marks, thread, switches, history>>

\* disabled, or not called: the system sees the event itself.  A button also
\* goes by without a Setting, or with one without mouse events (mouseDetour());
\* for the button that is being disabled and enabled again.
HookBypassed(k, press) ==
  /\ ~(enabled /\ ~away)
  /\ Possible(k, press)
  /\ physical' = With(physical, k, press)
  /\ os' = With(os, k, press)
  /\ bypassed' = TRUE
  /\ overtaken' = (overtaken \/ inputQueue # <<>> \/ pc # "boundary")
  /\ UNCHANGED <<mode, inputQueue, away, marks, thread, switches, undelivered, keyLost,
                 gained>>

-----------------------------------------------------------------------------
(* The UI thread, the scripter's data thread and the desktop. *)

Switch ==
  /\ switches < MaxSwitch
  /\ switches' = switches + 1

Enable ==
  /\ Switch
  /\ enabled' = ~enabled
  /\ UNCHANGED <<setting, logMode, resyncForceRequested, inputQueue, world, os,
                 marks, thread, history>>

EnableLogMode ==
  /\ Switch
  /\ logMode' = ~logMode
  /\ UNCHANGED <<setting, enabled, resyncForceRequested, inputQueue, world, os,
                 marks, thread, history>>

ChangeForeground ==
  /\ Switch
  /\ away' = ~away
  /\ UNCHANGED <<mode, inputQueue, physical, os, marks, thread, history>>

\* Engine::unlocked(), on the way back from the secure desktop
Unlocked ==
  /\ ~away
  /\ Switch
  /\ resyncForceRequested' = TRUE
  /\ UNCHANGED <<setting, enabled, logMode, inputQueue, world, os, marks, thread, history>>

ScheduleSetting(s) ==
  /\ Switch
  /\ Push(SettingEvent(s))
  /\ UNCHANGED <<mode, world, os, marks, thread, history>>

ScheduleAdHocKeySeq(s) ==
  /\ Switch
  /\ Push(AdHocEvent(s))
  /\ UNCHANGED <<mode, world, os, marks, thread, history>>

-----------------------------------------------------------------------------
(* Injection and its bookkeeping. *)

\* SendInput(), which UIPI drops while a window out of reach is in front
Inject(k, press) ==
  /\ os' = IF away THEN os ELSE With(os, k, press)
  /\ undelivered' = (undelivered \/ away)

\* the press count and the mark, as generateKeyEvent() and injectInputThrough()
\* keep them
Mark(k, press) ==
  /\ onWin32' = With(onWin32, k, press)
  /\ win32Count' = IF press = (k \in onWin32) THEN win32Count
                   ELSE win32Count + (IF press THEN 1 ELSE -1)

\* Mutant of GenerateKeyEvent: a release without a press is never sent.
GenerateUnlessReleased(k, press) ==
  /\ Mark(k, press)
  /\ IF press \/ k \in onWin32
     THEN Inject(k, press)
     ELSE UNCHANGED <<os, undelivered>>

\* a release of a key that is not marked is not sent, except for a button
GenerateKeyEvent(k, press) ==
  /\ Mark(k, press)
  /\ IF press \/ k \in onWin32 \cup Button
     THEN Inject(k, press)
     ELSE UNCHANGED <<os, undelivered>>

\* Mutant of IdleOr: the idle reset is skipped.
NeverIdle(count, next) == next

\* resetModifiersIfIdle(): where to go with this count, on the way to next
IdleOr(count, next) == IF count <= 0 THEN "modifiers" ELSE next

-----------------------------------------------------------------------------
(* The engine thread: resyncKeyStates. *)

\* marks that GetAsyncKeyState() contradicts, and those nothing can verify
Stale(force) ==
  {k \in pressed : IF k \in onWin32 /\ k \in Verifiable THEN k \notin os ELSE force}

Resync(force, next) ==
  LET drop == IF pressCount <= 0 /\ ~force THEN {} ELSE Stale(force) IN
  /\ pressed' = pressed \ drop
  /\ pressCount' = pressCount - Cardinality(drop)
  /\ pc' = IF drop = {} THEN next ELSE IdleOr(pressCount', next)
  /\ after' = next
  /\ UNCHANGED <<onWin32, win32Count>>

\* Mutant of ForceResync: what the system cannot verify is kept.
ResyncUnforced ==
  /\ pc = "boundary"
  /\ resyncForceRequested
  /\ resyncForceRequested' = FALSE
  /\ Resync(FALSE, "boundary")
  /\ UNCHANGED <<setting, enabled, logMode, inputQueue, world, os, event, owed,
                 switches, history>>

\* with an event in hand or without: in both cases before it is looked at
ForceResync ==
  /\ pc = "boundary"
  /\ resyncForceRequested
  /\ resyncForceRequested' = FALSE
  /\ IF setting = NoSetting THEN UNCHANGED <<marks, pc, after>>
                            ELSE Resync(TRUE, "boundary")
  /\ UNCHANGED <<setting, enabled, logMode, inputQueue, world, os, event, owed,
                 switches, history>>

-----------------------------------------------------------------------------
(* The engine thread: one event. *)

Take(type) ==
  /\ pc = "boundary"
  /\ ~resyncForceRequested
  /\ inputQueue # <<>>
  /\ Head(inputQueue).type = type
  /\ inputQueue' = Tail(inputQueue)

\* the marks move to the keys of the new Setting that have the same scan codes
ApplySetting ==
  /\ Take("setting")
  /\ setting' = Head(inputQueue).setting
  /\ pressed' = pressed \cap KeysOf[setting']
  /\ onWin32' = onWin32 \cap KeysOf[setting']
  /\ keyLost' = (keyLost \/ ~(pressed \cup onWin32 \subseteq KeysOf[setting']))
  /\ gained' = (gained \/ (Button \cap os \cap KeysOf[setting']) \ (Plain \cup Defined) # {})
  /\ UNCHANGED <<enabled, logMode, resyncForceRequested, world, os, pressCount,
                 win32Count, thread, switches, bypassed, overtaken, undelivered>>

\* a key sequence of the scripter: dropped when its Setting is gone, when the
\* engine is disabled, and when no window has the focus
StartAdHoc ==
  /\ Take("adhoc")
  /\ \/ /\ enabled /\ Head(inputQueue).origin = setting
        /\ pc' = "generate"
        /\ after' = "boundary"
     \/ UNCHANGED <<pc, after>>
  /\ UNCHANGED <<mode, world, os, marks, event, owed, switches, history>>

\* no Setting, disabled, or no focus: injected raw; in log mode only a button is
HandleRaw ==
  LET e == Head(inputQueue) IN
  /\ Take("key")
  /\ \/ /\ setting = NoSetting \/ ~enabled
        /\ IF logMode /\ e.key \notin Button
           THEN UNCHANGED <<os, undelivered>>
           ELSE Inject(e.key, e.press)
        /\ UNCHANGED switches
     \/ /\ setting # NoSetting /\ enabled
        /\ Switch
        /\ Inject(e.key, e.press)
  /\ bypassed' = TRUE
  /\ UNCHANGED <<mode, world, marks, thread, overtaken, keyLost,
                 gained>>

\* resyncKeyStates(false), before the key is looked up
StartKey ==
  /\ Take("key")
  /\ setting # NoSetting
  /\ enabled
  /\ event' = Head(inputQueue)
  /\ Resync(FALSE, "lookup")
  /\ UNCHANGED <<mode, world, os, owed, switches, history>>

\* "press the key and update counter"
CountPress(k, press) ==
  /\ pressed' = With(pressed, k, press)
  /\ pressCount' = IF press = (k \in pressed) THEN pressCount
                   ELSE pressCount + (IF press THEN 1 ELSE -1)

\* a key of the Setting: counted, then kept for the log window or generated
Lookup ==
  LET k == event.key press == event.press IN
  /\ pc = "lookup"
  /\ k \in Defined
  /\ CountPress(k, press)
  /\ \/ /\ logMode /\ k \in Button
        /\ Mark(k, press) /\ Inject(k, press)
        /\ pc' = IdleOr(pressCount', "boundary")
        /\ UNCHANGED owed
     \/ /\ logMode /\ k \notin Button
        /\ pc' = IdleOr(pressCount', "boundary")
        /\ UNCHANGED <<os, onWin32, win32Count, undelivered, owed>>
     \/ /\ ~logMode
        /\ pc' = "generate"
        /\ owed' = IF k \in Plain THEN {event} ELSE {}
        /\ UNCHANGED <<os, onWin32, win32Count, undelivered>>
  /\ after' = "boundary"
  /\ event' = NoEvent
  /\ UNCHANGED <<mode, inputQueue, world, switches, bypassed, overtaken, keyLost,
                 gained>>

\* an undefined key: only a button passes
LookupUndefined ==
  LET k == event.key press == event.press IN
  /\ pc = "lookup"
  /\ k \notin Defined
  /\ IF k \in Button THEN Inject(k, press) ELSE UNCHANGED <<os, undelivered>>
  /\ pc' = IdleOr(pressCount, "boundary")
  /\ after' = "boundary"
  /\ event' = NoEvent
  /\ UNCHANGED <<mode, inputQueue, world, marks, owed, switches, bypassed,
                 overtaken, keyLost, gained>>

\* one call of generateKeyEvent() in the middle of a key sequence
Generate ==
  /\ pc = "generate"
  /\ \/ \E k \in Defined \ Plain, press \in BOOLEAN :
          GenerateKeyEvent(k, press) /\ UNCHANGED owed
     \/ \E e \in owed :
          GenerateKeyEvent(e.key, e.press) /\ owed' = owed \ {e}
  /\ UNCHANGED <<mode, inputQueue, world, pressed, pressCount, pc, after, event,
                 switches, bypassed, overtaken, keyLost, gained>>

EndGenerate ==
  /\ pc = "generate"
  /\ owed = {}
  /\ pc' = IdleOr(pressCount, after)
  /\ UNCHANGED <<mode, inputQueue, world, os, marks, after, event, owed, switches,
                 history>>

-----------------------------------------------------------------------------
(* The engine thread: resetModifiersIfIdle with no key pressed. *)

\* generateModifierEvents(Modifier()); the tap of Shift that hides a lone Alt or
\* Windows key from the menus leaves behind what one release of Shift leaves
ReleaseModifier ==
  /\ pc = "modifiers"
  /\ \E k \in Modifier \cap onWin32 : GenerateKeyEvent(k, FALSE)
  /\ UNCHANGED <<mode, inputQueue, world, pressed, pressCount, thread, switches,
                 bypassed, overtaken, keyLost, gained>>

\* Mutant of ResetOnWin32: the marks are cleared, the releases are not sent.
ResetMarksOnly ==
  /\ \/ pc = "rest"
     \/ pc = "modifiers" /\ Modifier \cap onWin32 = {} /\ win32Count > 0
  /\ \E k \in onWin32 : Mark(k, FALSE)
  /\ pc' = "rest"
  /\ UNCHANGED <<mode, inputQueue, world, os, pressed, pressCount, after, event, owed,
                 switches, history>>

\* keyboardResetOnWin32(), if the count says that there is something to release
ResetOnWin32 ==
  /\ \/ pc = "rest"
     \/ pc = "modifiers" /\ Modifier \cap onWin32 = {} /\ win32Count > 0
  /\ \E k \in onWin32 : GenerateKeyEvent(k, FALSE)
  /\ pc' = "rest"
  /\ UNCHANGED <<mode, inputQueue, world, pressed, pressCount, after, event, owed,
                 switches, bypassed, overtaken, keyLost, gained>>

\* Mutant of ResetCounts: the keys that were left pressed are forgotten.
ResetCountsOnly ==
  /\ pc = "modifiers"
  /\ pc' = after
  /\ pressCount' = 0
  /\ win32Count' = 0
  /\ UNCHANGED <<mode, inputQueue, world, os, pressed, onWin32, after, event, owed,
                 switches, history>>

\* nothing is left to release: both counters are cleared
ResetCounts ==
  /\ pc \in {"modifiers", "rest"}
  /\ Modifier \cap onWin32 = {}
  /\ onWin32 = {} \/ (pc = "modifiers" /\ win32Count <= 0)
  /\ pc' = after
  /\ pressCount' = 0
  /\ win32Count' = 0
  /\ UNCHANGED <<mode, inputQueue, world, os, pressed, onWin32, after, event, owed,
                 switches, history>>

-----------------------------------------------------------------------------
EngineStep ==
  \/ ForceResync \/ ApplySetting \/ StartAdHoc \/ HandleRaw \/ StartKey
  \/ Lookup \/ LookupUndefined \/ Generate \/ EndGenerate
  \/ ReleaseModifier \/ ResetOnWin32 \/ ResetCounts

Next ==
  \/ \E k \in Key, press \in BOOLEAN : HookQueues(k, press) \/ HookBypassed(k, press)
  \/ Enable \/ EnableLogMode \/ ChangeForeground \/ Unlocked
  \/ \E s \in Setting : ScheduleSetting(s) \/ ScheduleAdHocKeySeq(s)
  \/ EngineStep

Spec == Init /\ [][Next]_vars

-----------------------------------------------------------------------------
TypeOK ==
  /\ setting \in Setting \cup {NoSetting}
  /\ enabled \in BOOLEAN /\ logMode \in BOOLEAN /\ resyncForceRequested \in BOOLEAN
  /\ inputQueue \in Seq(Events)
  /\ away \in BOOLEAN
  /\ physical \subseteq Key
  /\ os \subseteq Key
  /\ pressed \subseteq Defined
  /\ onWin32 \subseteq Defined
  /\ pressCount \in Nat
  /\ win32Count \in Nat
  /\ pc \in {"boundary", "lookup", "generate", "modifiers", "rest"}
  /\ after \in {"boundary", "lookup"}
  /\ event \in Events \cup {NoEvent}
  /\ owed \subseteq Events
  /\ switches \in Nat
  /\ bypassed \in BOOLEAN /\ overtaken \in BOOLEAN /\ undelivered \in BOOLEAN
  /\ keyLost \in BOOLEAN /\ gained \in BOOLEAN

\* "a stale pressed mark always keeps the count above zero": the counters never
\* fall below the marks they count, in the middle of a key sequence, across
\* reloads and whatever the hooks missed.  resyncKeyStates() returns early and
\* resetModifiersIfIdle() releases everything on the strength of this.
CountsCoverMarks ==
  /\ pressCount >= Cardinality(pressed)
  /\ win32Count >= Cardinality(onWin32)

\* While no Setting lost a marked key the counters are exact.
CountsExact ==
  ~keyLost =>
    /\ pressCount = Cardinality(pressed)
    /\ win32Count = Cardinality(onWin32)

\* Between two events nothing is held down for the applications by an engine
\* that thinks no key is pressed: every path that generates key events reaches
\* resetModifiersIfIdle().
IdleHoldsNothing == (pc = "boundary" /\ pressCount = 0) => onWin32 = {}

\* With every event seen, every Setting holding the marked keys and none giving an
\* assignment to a button held down without one, the engine is back at rest when
\* the last key is up: no stuck key for the applications, through log mode,
\* reloads and forced resyncs.
NothingStuck ==
  (/\ pc = "boundary" /\ inputQueue = <<>> /\ physical = {}
   /\ ~bypassed /\ ~undelivered /\ ~keyLost /\ ~gained)
    => pressed = {} /\ onWin32 = {} /\ os = {}

\* A plain mouse button that is up is up for the applications too, once the
\* queue is empty, even if the engine was disabled, in log mode, without focus
\* or reloaded between its press and its release.
ButtonsReleased ==
  (pc = "boundary" /\ inputQueue = <<>> /\ ~overtaken /\ ~undelivered)
    => (Button \cap Plain \cap os) \subseteq physical

\* A forced resync that finds nothing down drops every mark.
UnlockedForgets ==
  [][(pc = "boundary" /\ resyncForceRequested /\ ~resyncForceRequested' /\ os = {})
       => pressed' = {}]_vars

-----------------------------------------------------------------------------
(* What the sources say of the counters, and the code does not do. *)

\* "release modifiers and reset counters when no key is pressed"
ReleasedWhenIdle ==
  (/\ pc = "boundary" /\ inputQueue = <<>> /\ physical = {}
   /\ ~bypassed /\ ~undelivered /\ setting # NoSetting)
    => onWin32 = {}
=============================================================================
