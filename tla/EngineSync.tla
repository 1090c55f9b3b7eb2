----------------------------- MODULE EngineSync -----------------------------
(***************************************************************************)
(* &Sync and &Wait: the engine thread parks in the middle of a key         *)
(* sequence with m_mutex released, until the target application has taken  *)
(* the sync key out of its message queue, the timeout is over or the       *)
(* program ends.  Three threads in two processes take part:                *)
(*                                                                         *)
(*   the engine thread    keyboardHandler, generateKeySeqEvents, funcSync, *)
(*                        funcWait, waitWhileUnlocked                      *)
(*   the application      its message queue and getMessageProc() in it     *)
(*   the notify reader    Mayu::notifyHandler: syncNotify, setLockState    *)
(*                                                                         *)
(* and the UI thread of nyamy, which ends the program.  A key sequence is  *)
(* a stack of sequences with the number of actions each has left.          *)
(***************************************************************************)
EXTENDS Naturals, Sequences

CONSTANTS
  MaxSync,     \* bound: &Sync actions in a behaviour
  MaxAction,   \* bound: actions of one key sequence
  MaxDepth,    \* bound: key sequences inside each other
  MaxMail      \* bound: lock keys toggled in a behaviour

ASSUME BoundsAssumption ==
  /\ MaxSync \in Nat
  /\ MaxAction \in Nat \ {0}
  /\ MaxDepth \in Nat \ {0}
  /\ MaxMail \in Nat

VARIABLES
  engineLocked,      \* the engine thread holds m_mutex
  pc,
  frames,            \* actions left in the key sequences being generated, innermost first
  isSynchronizing,
  isAborting,
  eSync,             \* auto-reset event: is it signaled?
  eShutdown,         \* manual-reset event: is it signaled?
  isStopping,
  result,            \* how the last wait ended
  syncKey,           \* g_hookData->m_syncKey # 0
  currentLock,       \* the engine's idea of the lock keys (and of the focus)
  hooked,            \* the message hook is installed
  systemLock,        \* the lock keys themselves
  appQueue,          \* sync keys the application has not taken yet, by number
  mailslot,          \* notifications nobody has read yet
  reading,           \* the notification the reader has in hand
  readerStop,        \* m_notifyReaderStop
  syncs,             \* history: number of the last &Sync
  toggled,           \* history: lock keys toggled
  cutShort,          \* history: some &Sync ended without its notification
  dropped,           \* history: a notification of the lock state was dropped
  injected           \* a key was injected in the last step

engineVars == <<engineLocked, pc, frames, isAborting, result>>
syncVars   == <<isSynchronizing, eSync, syncKey>>
appVars    == <<hooked, systemLock, appQueue, mailslot>>
readerVars == <<reading, readerStop>>
stopVars   == <<eShutdown, isStopping>>
history    == <<syncs, toggled, cutShort, dropped, injected>>
vars == <<engineVars, syncVars, appVars, readerVars, stopVars, currentLock, history>>

Sync == [type |-> "sync"]
LockState(l) == [type |-> "lock", lock |-> l]
NoNotify == [type |-> "none"]
Notify == {Sync} \cup {LockState(l) : l \in BOOLEAN}

Init ==
  /\ engineLocked = FALSE
  /\ pc = "boundary"
  /\ frames = <<>>
  /\ isSynchronizing = FALSE
  /\ isAborting = FALSE
  /\ eSync = FALSE
  /\ eShutdown = FALSE
  /\ isStopping = FALSE
  /\ result = "none"
  /\ syncKey = FALSE
  /\ currentLock = FALSE
  /\ hooked = TRUE
  /\ systemLock = FALSE
  /\ appQueue = <<>>
  /\ mailslot = <<>>
  /\ reading = NoNotify
  /\ readerStop = FALSE
  /\ syncs = 0
  /\ toggled = 0
  /\ cutShort = FALSE
  /\ dropped = FALSE
  /\ injected = FALSE

-----------------------------------------------------------------------------
(* The engine thread: an event and its key sequence. *)

\* an event whose key sequence is run; generateKeyboardEvents() runs none any
\* more once a wait was aborted
BeginEvent ==
  /\ pc = "boundary"
  /\ ~isStopping
  /\ engineLocked' = TRUE
  /\ injected' = FALSE
  /\ \/ /\ ~isAborting
        /\ \E n \in 1..MaxAction : frames' = <<n>>
        /\ pc' = "generate"
     \/ /\ isAborting
        /\ pc' = "finish"
        /\ UNCHANGED frames
  /\ UNCHANGED <<isAborting, result, syncVars, appVars, readerVars, stopVars,
                 currentLock, syncs, toggled, cutShort, dropped>>

\* m_isAborting is looked at before every action of a sequence but its last
StopsHere == isAborting /\ Head(frames) > 1

\* one action of the innermost sequence is begun
Advance == [frames EXCEPT ![1] = @ - 1]

MoreActions(f) == f # <<>> /\ Head(f) > 0

Acting == pc = "generate" /\ MoreActions(frames) /\ ~StopsHere

\* the sequence is over, or broken off: back to the one it is an action of
LeaveSequence ==
  /\ pc = "generate" /\ frames # <<>>
  /\ ~MoreActions(frames) \/ StopsHere
  /\ frames' = Tail(frames)
  /\ injected' = FALSE
  /\ UNCHANGED <<engineLocked, pc, isAborting, result, syncVars, appVars,
                 readerVars, stopVars, currentLock, syncs, toggled, cutShort,
                 dropped>>

\* Type_key
ActionKey ==
  /\ Acting
  /\ frames' = Advance
  /\ injected' = TRUE
  /\ UNCHANGED <<engineLocked, pc, isAborting, result, syncVars, appVars,
                 readerVars, stopVars, currentLock, syncs, toggled, cutShort,
                 dropped>>

\* Type_keySeq
ActionKeySeq ==
  /\ Acting
  /\ Len(frames) < MaxDepth
  /\ \E n \in 1..MaxAction : frames' = <<n>> \o Advance
  /\ injected' = FALSE
  /\ UNCHANGED <<engineLocked, pc, isAborting, result, syncVars, appVars,
                 readerVars, stopVars, currentLock, syncs, toggled, cutShort,
                 dropped>>

\* funcSync() up to its wait: the event is reset, the hooks are told the key,
\* its release is injected, and m_mutex is let go
StartSync ==
  /\ Acting
  /\ syncs < MaxSync
  /\ syncs' = syncs + 1
  /\ eSync' = FALSE
  /\ syncKey' = TRUE
  /\ isSynchronizing' = TRUE
  /\ appQueue' = Append(appQueue, syncs + 1)
  /\ frames' = Advance
  /\ engineLocked' = FALSE
  /\ pc' = "sync"
  /\ injected' = TRUE
  /\ UNCHANGED <<isAborting, result, hooked, systemLock, mailslot, readerVars,
                 stopVars, currentLock, toggled, cutShort, dropped>>

\* funcWait() up to its wait
StartWait ==
  /\ Acting
  /\ isSynchronizing' = TRUE
  /\ frames' = Advance
  /\ engineLocked' = FALSE
  /\ pc' = "wait"
  /\ injected' = FALSE
  /\ UNCHANGED <<isAborting, result, eSync, syncKey, appVars, readerVars,
                 stopVars, currentLock, syncs, toggled, cutShort, dropped>>

-----------------------------------------------------------------------------
(* waitWhileUnlocked(): WaitForMultipleObjects prefers the first handle. *)

Parked == pc \in {"sync", "wait"}

Wake(how) ==
  /\ result' = how
  /\ pc' = IF pc = "sync" THEN "endSync" ELSE "endWait"
  /\ injected' = FALSE
  /\ UNCHANGED <<engineLocked, frames, isAborting, isSynchronizing, syncKey,
                 appVars, readerVars, stopVars, currentLock, syncs, toggled,
                 dropped>>

Signaled ==
  /\ pc = "sync" /\ eSync
  /\ eSync' = FALSE
  /\ Wake("Signaled")
  /\ UNCHANGED cutShort

\* Mutant of Aborted: &Wait waits for its timeout only, with no handle at all.
AbortedInSync ==
  /\ pc = "sync" /\ eShutdown
  /\ ~eSync
  /\ Wake("Aborted")
  /\ cutShort' = TRUE
  /\ UNCHANGED eSync

Aborted ==
  /\ Parked /\ eShutdown
  /\ pc = "sync" => ~eSync
  /\ Wake("Aborted")
  /\ cutShort' = (cutShort \/ pc = "sync")
  /\ UNCHANGED eSync

Timeout ==
  /\ Parked /\ ~eShutdown
  /\ pc = "sync" => ~eSync
  /\ Wake("Timeout")
  /\ cutShort' = (cutShort \/ pc = "sync")
  /\ UNCHANGED eSync

\* m_mutex is taken again, then the flags go down
EndWait ==
  /\ pc \in {"endSync", "endWait"}
  /\ engineLocked' = TRUE
  /\ isAborting' = (isAborting \/ result = "Aborted")
  /\ isSynchronizing' = FALSE
  /\ syncKey' = (syncKey /\ pc = "endWait")
  /\ pc' = "generate"
  /\ injected' = FALSE
  /\ UNCHANGED <<frames, result, eSync, appVars, readerVars, stopVars,
                 currentLock, syncs, toggled, cutShort, dropped>>

EndSequence ==
  /\ pc = "generate" /\ frames = <<>>
  /\ pc' = "finish"
  /\ injected' = FALSE
  /\ UNCHANGED <<engineLocked, frames, isAborting, result, syncVars, appVars,
                 readerVars, stopVars, currentLock, syncs, toggled, cutShort,
                 dropped>>

\* the Lock of keyboardHandler() goes out of scope
EndEvent ==
  /\ pc = "finish"
  /\ engineLocked' = FALSE
  /\ pc' = "boundary"
  /\ injected' = FALSE
  /\ UNCHANGED <<frames, isAborting, result, syncVars, appVars, readerVars,
                 stopVars, currentLock, syncs, toggled, cutShort, dropped>>

-----------------------------------------------------------------------------
(* The application's threads, with the hook DLL inside. *)

\* Mutant of TakeMessage: PM_NOREMOVE is not told from PM_REMOVE.
PeekMessage ==
  /\ appQueue # <<>>
  /\ mailslot' = IF hooked /\ syncKey THEN Append(mailslot, Sync) ELSE mailslot
  /\ \E q \in {appQueue, Tail(appQueue)} : appQueue' = q
  /\ injected' = FALSE
  /\ UNCHANGED <<engineVars, syncVars, hooked, systemLock, readerVars, stopVars,
                 currentLock, syncs, toggled, cutShort, dropped>>

\* getMessageProc() sees a sync key leave the message queue
TakeMessage ==
  /\ appQueue # <<>>
  /\ appQueue' = Tail(appQueue)
  /\ mailslot' = IF hooked /\ syncKey THEN Append(mailslot, Sync) ELSE mailslot
  /\ injected' = FALSE
  /\ UNCHANGED <<engineVars, syncVars, hooked, systemLock, readerVars, stopVars,
                 currentLock, syncs, toggled, cutShort, dropped>>

\* notifyLockState(): a lock key is toggled in a hooked window, which sees it
\* and reports it at once
ToggleLock ==
  /\ hooked
  /\ toggled < MaxMail
  /\ toggled' = toggled + 1
  /\ systemLock' = ~systemLock
  /\ mailslot' = Append(mailslot, LockState(systemLock'))
  /\ injected' = FALSE
  /\ UNCHANGED <<engineVars, syncVars, hooked, appQueue, readerVars, stopVars,
                 currentLock, syncs, cutShort, dropped>>

-----------------------------------------------------------------------------
(* The notify reader: Mayu::notifyReader(), notifyHandler(). *)

ReadMailslot ==
  /\ ~readerStop
  /\ reading = NoNotify
  /\ mailslot # <<>>
  /\ reading' = Head(mailslot)
  /\ mailslot' = Tail(mailslot)
  /\ injected' = FALSE
  /\ UNCHANGED <<engineVars, syncVars, hooked, systemLock, appQueue, readerStop,
                 stopVars, currentLock, syncs, toggled, cutShort, dropped>>

\* Mutant of Handle: the lock state is set whatever the engine is doing.
HandleUnguarded ==
  /\ reading # NoNotify
  /\ ~engineLocked
  /\ reading' = NoNotify
  /\ eSync' = (eSync \/ (reading = Sync /\ isSynchronizing))
  /\ currentLock' = IF reading = Sync THEN currentLock ELSE reading.lock
  /\ injected' = FALSE
  /\ UNCHANGED <<engineVars, isSynchronizing, syncKey, appVars, readerStop,
                 stopVars, syncs, toggled, cutShort, dropped>>

\* Mutant of Handle: the lock state is dropped without a key sequence.
HandleNever ==
  /\ reading # NoNotify
  /\ ~engineLocked
  /\ reading' = NoNotify
  /\ eSync' = (eSync \/ (reading = Sync /\ isSynchronizing))
  /\ injected' = FALSE
  /\ UNCHANGED <<engineVars, isSynchronizing, syncKey, appVars, readerStop,
                 stopVars, currentLock, syncs, toggled, cutShort, dropped>>

\* under m_mutex: syncNotify() signals only a waiting engine; setLockState(),
\* setShow() and setFocus() drop what comes in the middle of a key sequence
Handle ==
  /\ reading # NoNotify
  /\ ~engineLocked
  /\ reading' = NoNotify
  /\ eSync' = (eSync \/ (reading = Sync /\ isSynchronizing))
  /\ currentLock' = IF reading = Sync \/ isSynchronizing THEN currentLock ELSE reading.lock
  /\ dropped' = (dropped \/ (reading # Sync /\ isSynchronizing))
  /\ injected' = FALSE
  /\ UNCHANGED <<engineVars, isSynchronizing, syncKey, appVars, readerStop,
                 stopVars, syncs, toggled, cutShort>>

-----------------------------------------------------------------------------
(* ~Mayu: the message hook goes, then the reader, then signalStop(). *)

UninstallMessageHook ==
  /\ hooked
  /\ hooked' = FALSE
  /\ injected' = FALSE
  /\ UNCHANGED <<engineVars, syncVars, systemLock, appQueue, mailslot,
                 readerVars, stopVars, currentLock, syncs, toggled, cutShort,
                 dropped>>

\* the wait for the reader thread is bounded, so a notification it has in hand
\* may still be handled later
StopNotifyReader ==
  /\ ~hooked
  /\ ~readerStop
  /\ readerStop' = TRUE
  /\ injected' = FALSE
  /\ UNCHANGED <<engineVars, syncVars, appVars, reading, stopVars, currentLock,
                 syncs, toggled, cutShort, dropped>>

SignalShutdown ==
  /\ readerStop
  /\ ~eShutdown
  /\ eShutdown' = TRUE
  /\ injected' = FALSE
  /\ UNCHANGED <<engineVars, syncVars, appVars, readerVars, isStopping,
                 currentLock, syncs, toggled, cutShort, dropped>>

SignalStop ==
  /\ eShutdown
  /\ ~isStopping
  /\ isStopping' = TRUE
  /\ injected' = FALSE
  /\ UNCHANGED <<engineVars, syncVars, appVars, readerVars, eShutdown,
                 currentLock, syncs, toggled, cutShort, dropped>>

-----------------------------------------------------------------------------
\* what the engine thread does without waiting for time to pass
EngineStep ==
  \/ LeaveSequence \/ ActionKey \/ ActionKeySeq \/ StartSync \/ StartWait
  \/ Signaled \/ Aborted \/ EndWait \/ EndSequence \/ EndEvent

Next ==
  \/ BeginEvent \/ EngineStep \/ Timeout
  \/ TakeMessage \/ ToggleLock \/ ReadMailslot \/ Handle
  \/ UninstallMessageHook \/ StopNotifyReader \/ SignalShutdown \/ SignalStop

Spec == Init /\ [][Next]_vars

\* The engine thread runs while it can, and signalStop() finishes what it began.
\* Nothing is assumed of the application, of the reader or of the timeouts: a
\* wait may last as long as it likes.
FairSpec == Spec /\ WF_vars(EngineStep) /\ WF_vars(SignalStop)

-----------------------------------------------------------------------------
TypeOK ==
  /\ engineLocked \in BOOLEAN
  /\ pc \in {"boundary", "generate", "sync", "wait", "endSync", "endWait", "finish"}
  /\ frames \in Seq(0..MaxAction)
  /\ isSynchronizing \in BOOLEAN /\ isAborting \in BOOLEAN
  /\ eSync \in BOOLEAN /\ eShutdown \in BOOLEAN /\ isStopping \in BOOLEAN
  /\ result \in {"none", "Signaled", "Aborted", "Timeout"}
  /\ syncKey \in BOOLEAN
  /\ currentLock \in BOOLEAN /\ systemLock \in BOOLEAN /\ hooked \in BOOLEAN
  /\ appQueue \in Seq(1..MaxSync)
  /\ mailslot \in Seq(Notify)
  /\ reading \in Notify \cup {NoNotify}
  /\ readerStop \in BOOLEAN
  /\ syncs \in 0..MaxSync
  /\ toggled \in 0..MaxMail
  /\ cutShort \in BOOLEAN /\ dropped \in BOOLEAN /\ injected \in BOOLEAN

\* Whenever another thread can take m_mutex in the middle of a key sequence the
\* flag that makes it drop its notification is up, and at an event boundary it
\* is down: applySetting() relies on the second, the sequence on the first.
WindowGuarded ==
  /\ (pc # "boundary" /\ ~engineLocked) => isSynchronizing
  /\ pc = "boundary" => ~isSynchronizing /\ ~engineLocked

\* The hooked processes report the sync key only while a &Sync is outstanding.
SyncKeyOnlyInSync == syncKey => pc \in {"sync", "endSync"}

\* As long as no &Sync was cut short, by its timeout or by the shutdown, a &Sync
\* that is completed has been seen by the application: the sync key is not in its
\* message queue any more.
SyncSeenUnlessCutShort == (~cutShort /\ result = "Signaled" /\ pc = "endSync") =>
  \A i \in 1..Len(appQueue) : appQueue[i] # syncs

\* The engine's idea of the lock keys is out of date only while a notification
\* is on its way or after one was dropped.
LockStateFollows ==
  (mailslot = <<>> /\ reading = NoNotify /\ ~dropped) => currentLock = systemLock

\* The lock state a key sequence sees does not change in the middle of it,
\* though the reader can run while it is parked.
SequenceSeesOneState == [][pc # "boundary" => currentLock' = currentLock]_vars

\* Ending the program frees a parked engine thread although the message hook is
\* gone, no notification can come and no timeout is over.
ShutdownUnparks == eShutdown ~> (pc = "boundary")

-----------------------------------------------------------------------------
(* What the sources say of &Sync, and the code does not do. *)

\* A completed &Sync has been seen by the application, ResetEvent() being there
\* to drop what an earlier &Sync left behind.
SyncSeen == (result = "Signaled" /\ pc = "endSync") =>
  \A i \in 1..Len(appQueue) : appQueue[i] # syncs

\* Nothing is injected any more once a wait was cut short by the shutdown.
AbortedStopsInjection == [][isAborting => ~injected']_vars
=============================================================================
