------------------------------ MODULE MouseDrag ------------------------------
(***************************************************************************)
(* The mouse hook: Engine::mouseDetour() and Engine::endDrag(), their      *)
(* bitmask of pressed buttons and the drag pseudo key they synthesise.     *)
(*                                                                         *)
(* The hook thread is alone with these variables.  What makes them hard is *)
(* the hook not being called, or handing the event back to the system: the *)
(* engine can be disabled, a Setting without mouse events can be active,   *)
(* and an elevated foreground window disables injection (UIPI).  A button  *)
(* can then go down without coming up, or come up without having gone down.*)
(* The distance of a move from the press is not kept: a move is beyond the *)
(* threshold or does nothing here.                                         *)
(***************************************************************************)
EXTENDS Naturals, Sequences

CONSTANTS
  Button,     \* the buttons with an E1 scan code: 1, 2, 3, 6, 7
  Wheel,      \* the wheel pseudo keys: 4, 5, 8, 9
  Drag,       \* the drag pseudo key: 0
  NoButton    \* m_dragButton = 0

ASSUME KeysAssumption ==
  /\ Wheel \notin Button
  /\ Drag \notin Button \cup {Wheel}
  /\ NoButton \notin Button

VARIABLES
  held,            \* the buttons that are physically down
  enabled,         \* m_isEnabled, and a Setting with m_mouseEvent is active
  blocked,         \* the foreground process is out of reach of SendInput()
  dragWanted,      \* the active Setting has a drag threshold other than 0
  buttonsPressed,
  dragging,
  dragButton,
  dragThreshold,   \* m_dragThresholdPx # 0
  queued,          \* what the last call pushed into the input queue
  keyDown,         \* history: the keys those events leave pressed
  missed,          \* history: a button changed without this bookkeeping
  several          \* history: two buttons were down at once

system  == <<held, enabled, blocked, dragWanted>>
hook    == <<buttonsPressed, dragging, dragButton, dragThreshold>>
mouseHistory == <<keyDown, missed, several>>
mouseVars == <<system, hook, queued, mouseHistory>>

Key == Button \cup {Wheel, Drag}
Make(k)  == [key |-> k, press |-> TRUE]
Break(k) == [key |-> k, press |-> FALSE]

MouseInit ==
  /\ held = {}
  /\ enabled \in BOOLEAN
  /\ blocked \in BOOLEAN
  /\ dragWanted \in BOOLEAN
  /\ buttonsPressed = {}
  /\ dragging = FALSE
  /\ dragButton = NoButton
  /\ dragThreshold = FALSE
  /\ queued = <<>>
  /\ keyDown = {}
  /\ missed = FALSE
  /\ several = FALSE

-----------------------------------------------------------------------------
(* The queue's side: pushing these events makes these keys pressed. *)

After(down, e) == IF e.press THEN down \cup {e.key} ELSE down \ {e.key}

\* at most two events per call
Push(events) ==
  /\ queued' = events
  /\ keyDown' = CASE Len(events) = 0 -> keyDown
                  [] Len(events) = 1 -> After(keyDown, events[1])
                  [] OTHER -> After(After(keyDown, events[1]), events[2])

\* the hook's events are not swallowed: disabled, or handed back
Seen == enabled /\ ~blocked

\* Mutant of DragBreak: a drag that ends is not told to the keymaps.
NoDragBreak(ends) == <<>>

\* endDrag(): the release of the drag pseudo key goes in front of the event
DragBreak(ends) == IF ends THEN <<Break(Drag)>> ELSE <<>>

\* This button is already down: its release never reached this bookkeeping.
StaleDrag(b) == b \in buttonsPressed /\ dragging /\ b = dragButton

-----------------------------------------------------------------------------
\* WM_xBUTTONDOWN, swallowed
PressSeen(b) ==
  /\ b \notin held
  /\ Seen
  /\ held' = held \cup {b}
  /\ several' = (several \/ held # {})
  /\ dragging' = (dragging /\ ~StaleDrag(b))
  /\ buttonsPressed' = buttonsPressed \cup {b}
  /\ dragButton' = IF dragging' THEN dragButton ELSE b
  /\ dragThreshold' = dragWanted
  /\ Push(DragBreak(StaleDrag(b)) \o <<Make(b)>>)
  /\ UNCHANGED <<enabled, blocked, dragWanted, missed>>

\* WM_xBUTTONUP, swallowed: only the button that started the drag ends it
ReleaseSeen(b) ==
  LET ends == dragging /\ b = dragButton IN
  /\ b \in held
  /\ Seen
  /\ held' = held \ {b}
  /\ buttonsPressed' = buttonsPressed \ {b}
  /\ dragging' = (dragging /\ ~ends)
  /\ dragButton' = IF ends THEN NoButton ELSE dragButton
  /\ Push(DragBreak(ends) \o <<Break(b)>>)
  /\ UNCHANGED <<enabled, blocked, dragWanted, dragThreshold, missed, several>>

\* the same two with the hook out of the way
ButtonMissed(b) ==
  /\ ~Seen
  /\ held' = IF b \in held THEN held \ {b} ELSE held \cup {b}
  /\ several' = (several \/ (b \notin held /\ held # {}))
  /\ missed' = TRUE
  /\ UNCHANGED <<enabled, blocked, dragWanted, hook, queued, keyDown>>

\* WM_MOUSEWHEEL, WM_MOUSEHWHEEL: the break is synthesised
TurnWheel ==
  /\ Seen
  /\ Push(<<Make(Wheel), Break(Wheel)>>)
  /\ UNCHANGED <<system, hook, missed, several>>

\* Mutant of Move: a drag without a button.
MoveWithoutButton ==
  /\ enabled
  /\ ~dragging
  /\ dragThreshold
  /\ dragging' = TRUE
  /\ Push(<<Make(Drag)>>)
  /\ UNCHANGED <<system, buttonsPressed, dragButton, dragThreshold, missed, several>>

\* WM_MOUSEMOVE beyond the threshold.  The move itself is not swallowed, so an
\* elevated foreground window does not matter.
Move ==
  /\ enabled
  /\ buttonsPressed # {}
  /\ ~dragging
  /\ dragThreshold
  /\ dragging' = TRUE
  /\ Push(<<Make(Drag)>>)
  /\ UNCHANGED <<system, buttonsPressed, dragButton, dragThreshold, missed, several>>

\* the tray menu, a reload, another foreground window
Environment ==
  /\ enabled' \in BOOLEAN
  /\ blocked' \in BOOLEAN
  /\ dragWanted' \in BOOLEAN
  /\ queued' = <<>>
  /\ UNCHANGED <<held, hook, mouseHistory>>

MouseNext ==
  \/ \E b \in Button : PressSeen(b) \/ ReleaseSeen(b) \/ ButtonMissed(b)
  \/ TurnWheel
  \/ Move
  \/ Environment

MouseSpec == MouseInit /\ [][MouseNext]_mouseVars

-----------------------------------------------------------------------------
MouseTypeOK ==
  /\ held \subseteq Button
  /\ enabled \in BOOLEAN
  /\ blocked \in BOOLEAN
  /\ dragWanted \in BOOLEAN
  /\ buttonsPressed \subseteq Button
  /\ dragging \in BOOLEAN
  /\ dragButton \in Button \cup {NoButton}
  /\ dragThreshold \in BOOLEAN
  /\ queued \in Seq([key : Key, press : BOOLEAN])
  /\ keyDown \subseteq Key
  /\ missed \in BOOLEAN
  /\ several \in BOOLEAN

\* What the keymaps see is what the hook means: the drag pseudo key is pressed
\* exactly while a drag is on, however presses and releases were missed.  A
\* second make, or a break too many, would leave it stuck in the engine.
DragKeyMatches == dragging <=> Drag \in keyDown

\* The bitmask follows the hardware as long as the hook saw every change, with
\* any number of buttons down.
ButtonsTracked == ~missed => buttonsPressed = held

\* With one button at a time and nothing missed a drag belongs to the button
\* that is down, so its release ends it.
DragOwned == (~missed /\ ~several /\ dragging) => dragButton \in held

\* A drag ends only by a press or a release of the button that owns it: a click
\* of another button in the middle of a drag leaves it alone.
OnlyOwnerEndsDrag ==
  [][dragging /\ ~dragging' => (dragButton \in held) # (dragButton \in held')]_mouseVars

\* A drag that outlived its button, because its release was missed, does not
\* survive the next press of that button that is seen.
StaleDragDropped ==
  [][\A b \in buttonsPressed :
       (dragging /\ b = dragButton /\ b \in held' \ held /\ Seen) => ~dragging']_mouseVars

-----------------------------------------------------------------------------
(* What the sources say of the drag, and the code does not do. *)

\* The drag ends with the release of the button that started it: nothing is
\* left dragging when every button is up and nothing was missed.
NothingLeftDragging == (~missed /\ held = {}) => ~dragging
=============================================================================
