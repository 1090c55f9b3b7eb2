# TLA+ models of nyamy

nyamy takes the keyboard and the mouse away from Windows in two low level hooks,
runs every event through the user's keymaps in an engine thread, and gives the
result back with `SendInput()`. The models here are about what several threads,
several processes and a lossy operating system do to that program. `src/` paths
below are the repository's.

## 1. Inventory

| Part | State it keeps | Operations | Talks to |
|---|---|---|---|
| Engine, input queue (`engine.cpp`, `engine.h`) | `m_inputQueue`, `m_queueMutex`, `m_readEvent`, `m_isStopping`, `m_resyncForceRequested` | `keyboardDetour`, `mouseDetour`, `scheduleSetting`, `scheduleAdHocKeySeq`, `unlocked`, `signalStop`; the loop of `keyboardHandler` | hook threads, UI thread and data thread push; the engine thread pops |
| Engine, mouse hook | `m_buttonsPressed`, `m_dragging`, `m_dragButton`, `m_dragThresholdPx` | `mouseDetour`, `endDrag`, `isInjectionBlocked` | pushes into the queue |
| Engine, key state | `m_isPressed`, `m_isPressedOnWin32`, `m_currentKeyPressCount`, `m_currentKeyPressCountOnWin32` | `generateKeyEvent`, `injectInputThrough`, `resyncKeyStates`, `resetModifiersIfIdle`, `keyboardResetOnWin32`, `applySetting` | `SendInput`, `GetAsyncKeyState` |
| Engine, key sequences (`function.cpp`) | current keymap, prefix history, one-shot key, repeat key, modifiers | `generateKeyboardEvents`, `generateActionEvents`, `generateModifierEvents`, the `func*` functions | key state, windows |
| Engine, `&Sync` and `&Wait` | `m_isSynchronizing`, `m_isAborting`, `m_eSync`, `m_eShutdown`, `g_hookData->m_syncKey` | `funcSync`, `funcWait`, `waitWhileUnlocked`, `syncNotify` | hook DLL, notify reader, shutdown |
| Engine, focus | focus entry per thread, current entry, attached and detached threads, lock and show state | `checkFocusWindow`, `setFocus`, `setLockState`, `setShow`, `threadDetachNotify` | notify reader |
| Settings (`setting.h`, `keyboard.*`, `keymap.*`) | keyboards, keymaps, key sequences | search by scan code, modifier, window | read by the engine |
| Hook DLL (`hook.cpp`) | mailslot handle, shared `g_hookData` | `notify`, `getMessageProc`, `callWndProc`, lock and focus reports | mailslot, or `WM_COPYDATA` |
| Mayu (`mayu.cpp`) | notify reader thread, tray window, session state | `notifyHandler`, reload, enable, log mode, session messages, `~Mayu` | all of the above |
| ScripterManager (`scripter_manager.cpp`) | child process, three pipes, two reader threads, start future, pending Setting | `start`, `sendQuit`, `forceStop`, `execUserFunc`, `takePendingSetting` | scripter process, Mayu, engine |
| CmdProcessor, SettingBuilder | the Setting being built | Reset .. Commit, ExecKeySeq | data thread |
| Scripter process (`scripter/`) | job queue, watchdog, mruby VM | parse, compile, run user functions | pipes |
| Log stream (`msgstream.h`) | buffer, one outstanding notification | write, acquire | every thread |

What is hard in it, and what correct means there:

* **Queue.** The event is signaled under a mutex but consumed without it. Correct:
  every event once and in order, no sleeping on a queued event, a stop and a resync
  request always noticed, hook threads never kept waiting.
* **Mouse.** Presses and releases are missed whenever the hook stands aside. Correct:
  a drag never outlives what it was made of, and the drag pseudo key never sticks.
* **Key state.** Counters and marks are updated in a dozen places and survive
  reloads. Correct: the counters cover the marks, and at rest nothing is held down.
* **Waits.** The engine mutex is released in the middle of a key sequence. Correct:
  nobody changes what the sequence depends on, a late answer does not complete a
  later wait, the end of the program frees the thread.
* **Focus.** Reports arrive late, from threads that may have ended, and are dropped
  while a key sequence waits. Correct: the entry in use is one that exists, its keymap
  is one of the active Setting, and it is the focus unless a report was dropped.
* **Notifications.** nyamys come and go while the hook DLL stays in other processes,
  with one handle that all threads of a process write to. Correct: the nyamy in charge is
  reached, and two ways to it do not overtake each other.
* **Settings.** Commands name things before they exist and are completed at Commit.
  Correct: the Setting committed is the one the configuration describes.
* **Keymaps.** A prefix outlives the key that set it; functions look a key up again
  elsewhere. Correct: back at the window's keymap when the prefix is done with.
* **Scripter.** Two processes, three pipes, five threads, each of which may end at any
  moment. Correct: no process and no thread is left behind, the newest Setting is the
  one that gets in, half a Setting never does, and a stuck script delays nobody.
* **Log.** Sections of several threads share a buffer, a level and one outstanding
  notification; the UI thread also writes outside of any section. Correct: nothing a
  message kept is stranded, and a line is filtered by its message's level.

`PROJECT.json` lists every hazard with its line and the property that covers it.

## 2. Modules

| Module | Models | Checked by | Proved in |
|---|---|---|---|
| `InputQueue` | the queue, its producers, the dequeuing half of `keyboardHandler()` | `MCInputQueue` | `InputQueue_proofs` |
| `MouseDrag` | `mouseDetour()`, `endDrag()` | `MCMouseDrag` | `InputQueue_proofs` |
| `KeyState` | key marks and counters, from the hooks to `SendInput()` | `MCKeyState` | `KeyState_proofs` |
| `EngineSync` | `&Sync`, `&Wait`, the notify reader, the start of the shutdown | `EngineSync` | `EngineSync_proofs` |
| `Focus` | hook reports of the focus, `setFocus()`, `checkFocusWindow()`, a new Setting | `MCFocus` | `Focus_proofs` |
| `HookNotify` | `notify()` of the hook DLL, the mailslot and its reader, nyamys that come and go | `MCHookNotify` | `HookNotify_proofs` |
| `PrefixKeys` | key lookup, prefix keys, the functions that choose a keymap, one-shot keys | `MCPrefixKeys` | `EngineSync_proofs` |
| `SettingBuild` | `CmdProcessor` and `SettingBuilder`, Reset to Commit | `MCSettingBuild` | `SettingBuild_proofs` |
| `NewestSetting` | abstract: a register of the newest Setting | through `Scripter` | through `Scripter_proofs` |
| `Scripter` | `ScripterManager`: launch, pipes, readers, pending slot, shutdown | `Scripter` | `Scripter_proofs` |
| `ScripterProcess` | the scripter's threads, its flush and watchdog, nyamy's two readers | `ScripterProcess` | `ScripterProcess_proofs` |
| `SettingScript` | script to command stream: the API's calls, key sequences and indexes, `flushQueue()` | `MCSettingScript` | `Scripter_proofs` |
| `MayuText` | `.mayu` text to the statements in force: parser, conditionals, includes | `MCSettingScript` | |
| `LogStream` | `msgstream.h` and the threads that write to the log | `LogStream` | `SettingBuild_proofs` |

A configuration goes through `MayuText` and `SettingScript` (what is written), `ScripterProcess` (how
it travels and what may cut it off), `SettingBuild` (what is made of it), `Scripter`
(which Setting gets in), `KeyState` and `Focus` (what applying it does to the engine),
and `PrefixKeys` (how it is obeyed). A report of the hook DLL goes through `HookNotify`
to `Focus` and `EngineSync`. An event goes through `MouseDrag`, `InputQueue`,
`Focus`, `PrefixKeys`, `EngineSync` and `KeyState` in this order.

### InputQueue

One process per thread, one action per step another thread can see between. A
producer is `Lock`, `PushBegin`, `PushEnd`, `Signal`, `Unlock`: `keyboardDetour()`,
`mouseDetour()`, `scheduleSetting()` and `scheduleAdHocKeySeq()` have this section
in common, with one event in it or a make and its synthesised break. The engine
thread follows `engine.cpp:1473-1510` line by line; `Process` stands for everything
an event makes it do. `SignalObjectAndWait()` releases the mutex and does not take
it again, so nothing of `CheckStop` .. `ResetDrained` has `queueMutex` in its guard.
`continue` without a resync calls it on a mutex the thread does not own: the call
fails (`SignalFails`) and the iteration goes on with the value-initialised event.

`std::deque` popped while another thread pushes is undefined behaviour. `PushOutcome`
and `PopOutcome` list what a build can make of it: the event appended, lost, or
appended beside a slot that was never written, and a front that is read torn.
`handled` is history: the events the engine thread has been through, in their order.

### MouseDrag

The hook thread alone. The state of a button is physical (`held`), in the bitmask
(`buttonsPressed`), and as the keymaps see it (`keyDown`, what the pushed events add
up to). `ButtonMissed` is a press or release with the engine disabled, a Setting
without mouse events, or an elevated window in front (`isInjectionBlocked()`). A
move is either beyond the threshold or not a step. The names of the module begin with
`Mouse` where `InputQueue` has the same, so that one module can prove about both.

### KeyState

The engine thread is a program counter: `boundary` (between events), `lookup`
(resynchronised, key not yet looked up), `generate` (in key sequences), `modifiers`
and `rest` (inside `resetModifiersIfIdle()`), with `after` for the two places that
is called from. A key sequence is any sequence of `generateKeyEvent()` calls, so the
model covers every keymap; a `Plain` key is one without an assignment. `os` is what
`GetAsyncKeyState()` would say. `away` stands for an elevated window and for the
secure desktop alike: hooks are not called, injections are dropped.

History variables name the ways in which the engine cannot know better: `bypassed`
(an event or a raw injection went past the accounting), `overtaken` (one got ahead of
queued ones), `undelivered` (an injection was dropped), `keyLost` (a reload dropped a
mark), `gained` (a reload gave an assignment to a key that was down). Properties are stated relative to them.

### EngineSync

A key sequence is a stack of action counts, because `m_isAborting` is looked at
between actions and an action can be a key sequence. The application takes sync keys
out of its message queue in order; `getMessageProc()` reports one to the mailslot if
`m_syncKey` is set at that moment; the reader takes a notification in hand and then
waits for the engine mutex. `currentLock` stands for everything that
`setLockState()`, `setShow()` and `setFocus()` write under the same test of
`m_isSynchronizing`.

### Focus

The hook's reports of `callWndProc()` and `getMessageProc()` travel through the
mailslot `mail` to the notify reader, which drops them while `m_isSynchronizing`. The
engine's round is a program counter, because `checkFocusWindow()` may start again and a
detach may come between two rounds. A console window has no hook: the engine makes an
entry for it itself. The list of keymaps of an entry is abstracted to its first one,
which is empty before the first Setting and never afterwards. `taken` is history: the
threads whose last report was not dropped.

`checkFocusWindow()` erases the entries of threads that ended, the one
`m_currentFocusOfThread` points to among them (`engine.cpp:87`), and after the restart of
a console compares with it again (`engine.cpp:65`). `erased` is that entry while the
pointer dangles. What is read there (`Pointed`) is what the entry said, or what a new entry
put in its place says (`Allocated`), or it compares as anything else (the second
alternative of `CheckFocusWindow`), or it cannot be read (`Crash`). `reborn` is history: the
thread ids that Windows has used again.

### HookNotify

One hooked process: its threads call `notify()` at the same time, and nothing guards the
handle they share. `pc[t]` follows `openMailslot()` and the two attempts of `notify()`:
`open`, `create`, `assign` (between `CreateFile()` and the assignment), `write`, `close`
and `drop` (between `CloseHandle()` and the assignment), `send` for the `WM_COPYDATA`.
A nyamy is named by its number; `handle.to` is the one whose mailslot the handle was
opened to, `slot` the one that has the name now, `tray` the window that is published in
`g_hookData`. `ui` goes through the constructor and the destructor of `Mayu`, and `reader`
through `notifyReaderThread()`. A nyamy may crash at any step, which takes its hooks away
and leaves its window published. A nyamy that gave up waiting for its reader has closed
the mutex but not the mailslot, so its successor may find the name taken (`slotless`).

`witness`, `via` and `raced` are history: which nyamy was in charge all through the call,
the way the notification took, and whether two threads were at the handle at once. The
tick of the next attempt to open is a boolean that may be ignored at any time or kept for
ever: `GetTickCount()` is compared by half its range.

### PrefixKeys

An event of a key makes `beginGeneratingKeyboardEvents()` look it up, which runs the
actions of the sequence it finds, of which some look the key up again, or run another
sequence. `todo` is the C++ stack of this: the calls that are still to be made, the next
one first. One action is one call, and puts the calls it makes in its place; an event is
taken when there are none. So nothing in the module is recursive, and the proofs can go
from call to call. Nothing else happens between two calls of an event: what `&Sync` and
`&Wait` let in is in `EngineSync`.

The engine's fields are the record `eng`; two of them only record what happened, `chain`
(the keymaps the prefix in force was reached through) and `late` (a modifier key cancelled
a prefix). `sent` is the key event the last step generated. There is one modifier. What a
script sends is a key sequence with the key that started it. A `&KeymapPrevPrefix` beyond
the history reads the end of a `std::list` (`function.cpp:842`): any keymap may be found
there. That it may find no keymap at all, and crash, is not modelled.

### SettingBuild

One action is one command of the stream. Keymaps and key sequences are indexes, as they
are stable pointers in the code. `script`, the commands since Reset, is history, and the
properties say what the Setting ought to be in terms of it alone: which block a line is
in, which sequence a name means at the end, which of several substitutes wins.

### Scripter

The UI thread, the launcher on its `std::async` task, the engine thread, the readers and
the scripters themselves. A scripter is named by its generation, the number of the pipes
it was given; a Setting by the order of the commits. A pipe is blocking while Start goes
out and drops on full after that. `~Mayu` is the value of `ui`, step by step from
`waitForPendingStart()` to `closeHandles()`, with its bounded waits: a wait may end
because the time is up, at any moment. `Newest` instantiates `NewestSetting` with
`offered <- newest`; the register is `closed` when the message loop ends, or when a
reader has survived both bounded waits for it.

### ScripterProcess

One scripter from Start to its end. A Setting is the sequence of the loads its commands
came from, so that half of one and half of another can be told apart from a whole one.
The flush writes piece by piece into a pipe that blocks; nyamy's reader takes a command
and then its payload; the message pipe blocks the writer too, the watchdog's line
included, and the warning the control thread writes about a user function it drops, which
it finishes before it reads its next command. Either side may crash at any step.

### SettingScript and MayuText

`MayuText` has two definitions of what a `.mayu` text means. The code's: a parse tree
(`Parse`, transcribed from the recursive descent of `mayu_parser.cpp`) and the compiler's
visits, which take the branches of conditionals and go into included files
(`CompileFile`). And a reader's, who goes through script and text from top to bottom with
a stack of open conditionals (`Reading`). `ReadAsWritten` says that they agree.

`SettingScript` has everything else between the script and the stream: the calls of the C
binding, `resetQueue()`, and `flushQueue()` with the commands of each statement, where
three counters give indexes to key sequences (the ones of `nys_reg_keyseq()`, of
`g_keyseqEntries` and of the compiler). What a file's statements are is its parameter
`Compiled`, of which it assumes only that they are statements and that the symbols are
those there were and some more; the run gives it `CompileFile`. So the indexes are proved
right whatever text there is, and the recursion over text, which the prover cannot take,
stays out of the module that is proved about. An error in a file, of the parser or of the
compiler, ends the flush, and what that file defined is forgotten.

### LogStream

A message is a section between `acquire(level)` and `release()`. A piece of text is the
level of its message and, once kept, the level it is tagged with. The line of a function
or a prefix is released before its end is written: what is in the buffer then belongs to
nobody (`Open`). And the UI thread writes without `acquire()` and `release()` in two
places, session changes (`mayu.cpp:419-421`) and the menu item "check"
(`mayu.cpp:566-593`): `BareWrite` and `BareEnd`, whose text is `Open` too, as is all that
is in the buffer or written to it in between. Two threads in `sync()` may each see the
buffer before or after the other (`RacedSync`), and no notification follows. `told` says
that a message kept the text, whose `release()` notifies.
The specification's names begin with `Log`, so that one module can prove about both
this and `SettingBuild`.

## 3. Runs

| Run | Result | States | Bounds |
|---|---|---|---|
| `input_queue` | passes | 33 652 | a hook and the UI thread, 3 events, 1 resync request |
| `mouse_drag` | passes | 4 860 | 3 buttons (symmetric), unbounded length |
| `key_state` | passes | 3 373 667 | 3 keys, 2 Settings, queue of 2, 2 switches |
| `engine_sync` | passes | 110 841 | 2 `&Sync`, sequences of 2 actions and depth 2, 2 lock changes |
| `focus` | passes | 3 339 782 | a hooked thread and a console, 2 Settings, a mailslot of 2, 1 thread that ends |
| `hook_notify` | passes | 2 378 999 | 2 threads and 2 windows (symmetric), a nyamy and its successor, a mailslot of 1 |
| `prefix_keys` | passes | 2 219 307 | a history of 2, recursion to depth 5, a one-shot delay of 1 |
| `setting_build` | passes | 2 386 093 | streams of 6 commands |
| `scripter` | passes | 236 238 | 2 loads, 2 commits, 1 user function, 1 level change, pipes of 2 and 1 |
| `scripter_process` | passes | 1 314 334 | 2 loads, 2 user functions, 1 ad-hoc sequence, 2 definitions, pipes of 1 |
| `setting_script` | passes | 1 441 425 | texts of 4 lines with a nested file, 5 calls |
| `log_stream` | passes | 47 096 | 3 threads, levels 2 and 3 |

Why the bounds are enough. *InputQueue*: producers are alike but for the UI thread,
so one of each shows every pair; a lost wake-up needs one event, a reordering two, a
make/break pair racing a third three. *MouseDrag* is finite: three buttons are the
owner, a second one, and a bystander. *KeyState*: a button, a letter and a modifier
have the three treatments the code gives keys; one Setting defines only the modifier,
so that the others go past the engine under it; two switches allow a mode to be entered
and left, or a reload between a press and its release. `gained` stays false here, since
the button is a `Plain` key in either Setting: what it excuses is left to the proof. *EngineSync*: one `&Sync` to time out and one to be fooled by it, at the
depth where an abort has an outer sequence to unwind into. *Focus*: a report in hand
and one behind it, an entry that a Setting has renewed and one that is made later, a
thread with a hook and one without. *HookNotify*: two threads to race, a handle that
outlives its nyamy, a report in the reader's hand, one in the mailslot and one that goes
the direct way. *PrefixKeys*: a history that forgets its oldest
element, and assignments that recurse into each other up to the limit. *SettingBuild*:
two blocks, each with a line, and a name defined after its use. *Scripter*: a reload
during a start, a Setting superseded in the slot, a pipe that is full. *ScripterProcess*:
a load cut off half way and a whole one after it, a user function of the old load when
the new one arrives. *SettingScript*: a conditional in a conditional and an include in
either; a handle made, used and outlived. *LogStream*: the thread that shows, the one
that leaves a line open, and a third; a level that passes and one that may not.

Deadlock checking is off where the program may stop: an engine thread that has exited
and producers that are done (`InputQueue`), the end of the program (`EngineSync`,
`Scripter`), of the scripter (`ScripterProcess`), of a stream (`SettingBuild`), of a
script (`SettingScript`) or of the last nyamy (`HookNotify`). It is on in the other five.

### What passes

* `OrderUnlessRaced`: until a pop overlaps a push nothing is lost, duplicated or
  reordered, whatever woke the engine.
* `ResyncNeverStranded`, `ResyncServed`: the lock-free handshake of
  `Engine::unlocked()` loses no request. It is the order of two statements on each
  side that makes it true.
* `QueueMutexExcludes`: the mutex is held by the engine
  for one call only, and its stray `ReleaseMutex()` never lets two producers in.
* `DragKeyMatches`, `DragOwned`: the drag's bookkeeping against missed events.
* `CountsCoverMarks`, `IdleHoldsNothing`, `NothingStuck`, `ButtonsReleased`: the accounting, the state at rest, and the forced resync.
* `SequenceSeesOneState`, `LockStateFollows`: what the reader may change and when.
  `SyncSeenUnlessCutShort`: what a completed `&Sync` means. `ShutdownUnparks`: the end
  of the program frees the engine.
* `CurrentIsLive`: the entry an event acts on exists, whichever thread has ended, unless
  it was compared with an erased one and the thread with the keyboard bears its id.
  `KeymapsOfThisSetting`: no entry keeps a keymap of a Setting that is gone, which
  would be a pointer to freed memory. `FollowsFocus`: once the reports are read, the
  window in use is the one with the focus, unless a report was dropped.
* `PublishedIsReached`: a notification is not lost to the nyamy that was in charge all
  through the call, whatever its predecessors left behind and other threads do to the
  handle. `LastReportWins`: the mailslot and the direct way do not overtake each other
  while threads do not race for the handle; nyamy knows what was reported last.
* `PrefixEndsAtHome`, `HistoryFollowsChain`, `OneShotAlone`: what is left over when a
  prefix is used, cancelled or answered by an ad-hoc sequence; the history is the path
  to the current keymap; a one-shot key acts only if it was typed alone.
* `AssignmentsInTheirBlock`, `SequencesFilled`, `LastSubstWins`, `ModifiersFolded`: the
  Setting against the stream.
* `NoOrphan`, `ReadersGone`, `ShutdownCompletes`: no scripter and no reader outlives the
  program but for those that no wait could end. `EngineNeverStalls`: a scripter that
  does not read stops nobody. `DeliversNewest`: the slot and its notifications are a
  register of the newest Setting, and it is given in the end.
* `CommittedWhole`: no Setting has a part of another load or lacks one of its own.
  `StartGoesFirst`: a reload overtakes the user functions that wait. `AdHocInItsSetting`:
  an ad-hoc sequence is not run under a Setting older than the load that sent it.
  `QuitEnds`: a scripter that is told to quit ends, whatever its script does.
* `ReadAsWritten`, `IndexesResolve`: the stream is what script and text say, and every
  index in it was defined before.
* `NothingStranded`, `TextShown`: text that a message kept has a notification on its way,
  or a notification failed. `TaggedByItsMessage`: what is kept has its message's level,
  unless its line was left open or the UI thread wrote to the buffer without the mutex.

### What does not hold

The following definitions are part of the modules and TLC refutes them under the
constants of the passing runs. They are what the code comes short of, and the run
properties above are weakened by exactly these cases.

* `QueueGuarded`, `NoPhantomEvent`, `QueueDrained`, `StopHonoured` (`InputQueue`): the
  consequences of `SignalObjectAndWait()` giving the mutex away (`engine.cpp:1477`).
  The queue is used unguarded; after an idle wake-up an event that was never queued
  is processed; a `ResetEvent()` can swallow the signal of a push, or that of the
  stop request.
* `NothingLeftDragging` (`MouseDrag`): with two buttons down, the end of the first
  drag leaves `m_dragButton` at 0 while a button is still down (`engine.cpp:1436`),
  so the next drag has no owner and no release ends it.
* `ReleasedWhenIdle` (`KeyState`): a reload to a keyboard definition without a pressed
  key drops its mark and not its count (`engine.cpp:1893`); the counter then never
  reaches zero again and the idle reset never runs.
* `SyncSeen`, `AbortedStopsInjection` (`EngineSync`): the sync key of a `&Sync` that
  timed out is still in the application's queue when the next one starts, and completes
  it; the last action of each nested sequence runs after the abort (`engine.cpp:637`).
* `NothingErasedIsUsed` (`Focus`): a thread's entry is the current one when the thread
  ends; its id goes to a new thread; with a console in front the entry is erased
  (`engine.cpp:87`), and while the console is asked the new thread comes to the front. After
  the restart the engine compares its id with the erased entry's (`engine.cpp:65`), finds
  nothing changed, and the event acts on freed memory.
* `FocusRecovers`, `KeymapOnceSetting` (`Focus`): a report dropped during `&Sync` or
  `&Wait` is not repeated while the focus stays, and without a foreground window there
  is no keymap although there is a Setting.
* `LastReportWinsAlways`, `ClosedOnce`, `CancelEndsTheRead`, `NothingNewInMail`,
  `KnowsTheFocus` (`HookNotify`): two threads at the handle, one of which opens it again
  while the other gives it up (`hook.cpp:353`), let a report overtake another and close a
  handle twice; `CancelIoEx()` misses a reader that has looked at the flag and not begun
  to read (`mayu.cpp:179`), and then only the bounded wait goes on; calls under way write
  to the mailslot after the hooks are gone (`mayu.cpp:1240`); a report that went to the
  nyamy before is not repeated to its successor while the focus stays.
* `EveryKeymapAnswers` (`SettingBuild`): a keymap that is only named as a parent has no
  default key sequence (`cmd_processor.cpp:343`), where `engine.cpp:669` asserts one.
* What `ModifiersFolded` (`SettingBuild`) leaves out: a parent created after its child is
  adjusted after it (`keymap.cpp:559`); a statement that names the key of an `=` again
  overwrites the `=` itself (`keymap.cpp:269`); and "erase redundant modifiers"
  (`keymap.cpp:373`) erases one entry, so a list to which two keys were added once more
  keeps one of them twice, of which a `-=` in a child takes one. The last case needs two
  modifier keys and a longer script than the run has.
* `LevelCarried` (`Scripter`): a log level chosen while a start is under way is not the
  one the new scripter goes by.
* `StreamNeverAborts`, `TerminatesItselfFirst` (`ScripterProcess`): a payload cut off in
  the middle is an exception that ends nyamy; a watchdog that waits to write its line is
  overtaken by nyamy's `TerminateProcess()`.
* `NamesOfTheSettingInForce` (`SettingScript`): after a reload that failed, a user
  function finds its sequences by the names of the failed load, while the Setting in
  force is the one before.
* `AdHocSentOnce` (`PrefixKeys`, with an ad-hoc sequence that looks its key up again):
  it is looked up in every keymap that refers to it.
* `WritersHoldTheLock`, `AllTextShown`, `LevelOfItsMessage` (`LogStream`): "Before writing
  to omsgstream, you must acquire lock" (`msgstream.h:22`) is not so at `mayu.cpp:419` and
  `mayu.cpp:566`. What is written there is announced by nobody and shown with the next
  message; it goes into a buffer that another thread may be writing to, and is filtered and
  tagged by that thread's level, or that thread's text is lost with it. The first half of a
  function's or a prefix's line, too, is tagged with the level of whatever comes next.

### Fairness

`InputQueue`: a thread inside a call finishes it, the engine thread runs while it can.
Nobody has to start a call, and no lock is granted fairly. `EngineSync`: the engine
thread runs while it can, and `signalStop()`, once begun, finishes; nothing is assumed of
the application, the reader or the timeouts, so `ShutdownUnparks` does not lean on the
five seconds of `kSyncTimeoutMillisec`. Windows schedules ready threads eventually, and
none of these steps waits for a user.

`Scripter`: the UI thread, the launcher and the engine thread run while they can and
their waits are bounded. Nothing is assumed of the user, of the scripters or of how soon
a reader is scheduled. `ScripterProcess`: the watchdog and nyamy's message reader run
while they can, and the watchdog, which competes with the script thread for room in the
message pipe, gets its line in at last, as does the control thread with its warning (strong fairness
of `WatchdogTerminates` and `LogDropped`). Nothing
is assumed of a script: it may never return.

`LogStream`: a message has finitely many lines and a mutex that is free again and again
is obtained at last (strong fairness of `Release` and `AcquireString`); the UI thread
finishes the handler it is in, and takes what is in its queue in turn, whatever else it
has to do (strong fairness of `TakeNotification`). `PostMessage()` may fail at any time.

## 4. Proofs

The proofs hold for every value of the constants, under the assumptions the modules
name (`ConstantsAssumption`, `NoEventAssumption`, `KeysAssumption`, `BoundsAssumption`,
`CommandsAssumption`, `ThreadsAssumption`, `LevelsAssumption`, and `LimitsAssumption`,
`ActionsAssumption`, `KeymapsAssumption`, `AdHocAssumption` of `PrefixKeys`): distinct
model values, bounds that are numbers, commands of the shape their senders give them,
keymaps and sequences made of the keymaps, keys and actions there are, with at least one
keymap for each window, and in `KeyState` a finite set of keys.

* `InputQueue_proofs`: the strengthening adds to the types where the producers and
  the engine thread are when each owns the mutex, which makes the engine's release of
  a mutex it does not own harmless, and the case split that `ResyncNeverStranded` is.
  `QueueMutexExcludes` follows from it. `OrderUnlessRaced` is more than that no push and
  pop overlap: what was queued is what was handled, what the engine has in hand and what
  is still in the queue, in this order, and an event in hand is not the one a failed
  wake-up made up (`HandTaken`). That the overlap is the race (`OverlapIsRace`) is what
  carries it over the steps between taking the mutex and giving it back.
* In the same module, for `MouseDrag`: type correctness would not carry `DragOwned`; the
  invariant adds that without missed events and with one button at a time the owner is
  the only button down, and that the bitmask is what is held.
* `KeyState_proofs`: the counters are compared with cardinalities, so each update is a
  lemma on adding or removing one element. `IdleHoldsNothing` needs what the program
  counter promises: inside `modifiers` and `rest` no key is pressed, and the count
  covers what is still to be released. `NothingStuck` and `ButtonsReleased` compare the
  engine with the fingers, and rest on the last event of a key that is still on its way:
  it says what the key is (`EventsAgree`); without one the mark does (`PressedFollow`),
  or, for a button, Windows (`ButtonsFollow`, `OsFollow`). The attempt showed a case the
  run's instance does not have: a button that is pressed while the keyboard definition
  does not know it goes past the engine, and if a reload then gives it an assignment,
  its release is taken and Windows keeps it down. `gained` names that case, and
  `NothingStuck` is stated without it.
* `EngineSync_proofs`: the invariant says where the trace of a `&Sync` is: the sync
  key in the application's queue, its notification in the mailslot or in the reader's
  hand, or the signaled event, never in two of these. Until some `&Sync` is cut short
  this is what makes a completed one mean something. `LockStateFollows` adds where the
  last change of the lock is (`LockTold`): told, under way, or dropped.
* In the same module, for `PrefixKeys`: an event may make any number of calls, nested to
  any depth, so the invariant is about the calls that are left. `HomeInv`: the keymap in
  force is the window's, or a prefix waits, or a modifier key has cancelled one (`late`),
  or some call of `todo` will see to it: the end of the `beginGeneratingKeyboardEvents()`
  under way, or the rest of a `&Prefix` that is in its `prefixed` event. Whatever the calls
  before it do, that one is still to come, if they end: the recursion guard does not count
  events, and `event prefixed = &Prefix(X)` in the keymap X calls itself for ever
  (`function.cpp:881`, `engine.cpp:451`). The theorems are about each state on the way.
  `HistoryFollowsChain` goes from one `&Prefix` to the next (`HistoryGrows`). That a
  one-shot key is forgotten while `used` is not empty (`UsedForgets`) gives `OneShotAlone`.
  The attempt showed what `late` has to cover: a modifier key with the sequence
  `&Prefix(X) &CancelPrefix` sets a prefix and cancels it in one event, and since the end
  of a modifier key's event does not look at the keymap, X stays in force for the next key.
* `Focus_proofs`: `CurrentIsLive` is inductive only together with where the engine is in
  its round, what the entries may hold, and that a pointer dangles only for a thread that
  has ended, so that its id in front again is one that was used again; `KeymapsOfThisSetting` needs that an entry
  made between two Settings is made from the later one. `FollowsFocus` rests on the
  agreement of the hook's memory (`reported`), the last report in the mailslot and the
  entry.
* `HookNotify_proofs`: `Charge` says who is in charge and that a witness is a witness of
  that one, `Calls` what a call has in hand. `LastReportWins` is not inductive with these
  alone: a thread that is about to go the direct way must have nothing unread in the
  mailslot. `Ordered` gives the reason: while anything is unread the handle is good, or
  invalid and free to be opened again, and a thread that is about to give it up found it
  disconnected.
* `Scripter_proofs`: the invariant ties each handle to the process or thread it stands
  for, per step of the launcher and of `~Mayu`. `ImplementsRegister` is
  `Spec => Newest!Spec`: the initial state maps to an initial state, and every step to an
  offer, a gift, a close or a stutter; what it needs is that the slot, when taken, holds
  `newest`. That the newest Setting is given in the end (`DeliversNewest`) is TLC's.
* In the same module, for `SettingScript`: `IndexesResolve` (`IndexesAreRight`). The reader
  of the stream numbers the sequences by counting RegKeySeq commands, so the invariant
  says of a stream under way (`StreamOK`) what the property says of a finished one, of the
  compiler's counter that it is the number of commands the reader has counted, and of
  `g_keyseqEntries` that it is the head of that list. A sequence with arguments adds them
  in front of itself (`PiecesDef`, `PiecesFlatten`): every index made on the way is below
  the next free one and is not moved by what comes after. Since a handle or an assignment
  keeps its index while entries are only added, or a named one filled again in place, what
  led somewhere goes on leading there (`LongerKept`, `KeptLeads`). That the recursion over
  nested arguments has a value at all is proved from functions that are right up to a depth
  (`RightExists`), with the least depth at which there would be none.
  Assumed: sequences are finite and an argument is smaller than what it is in
  (`KeySeqsAssumption`), symbols are finite in number and no name is empty
  (`SymbolsAssumption`), the bounds are numbers (`ScriptBoundsAssumption`), and
  `CompiledAssumption` above. TLC evaluates all four on the run.
* `ScripterProcess_proofs`: what is under way is a run of consecutive stages, the pieces
  of each load one after another, from where nyamy's reader is to where the script has
  written (`Stream`); each pipe is a part of it, so the reader cannot come to a Commit but
  through every piece of that load (`CommittedWhole`). The queue is filtered by a recursive
  function (`Kept`); that such a function exists and what it keeps is proved from the least
  number at which it would not, over sets of numbers instead of the library's induction,
  which the provers cannot instantiate. `StartGoesFirst` and `AdHocInItsSetting` follow
  from where the jobs and the events of each load may be.
* `SettingBuild_proofs`: the model keeps a stack, the property reads the script, and they
  meet in counts of blocks and ends. `Places` says that the stack is the list of the
  blocks still open, with the keymap in effect where each began; a block is open if
  nowhere behind it more was ended than opened. What a command does to this is local: a
  block is pushed, the innermost one closed, or, for an `EndKeymap` without a block,
  nothing. What a name or an index denotes at a line does not change as more lines come
  (`Symbols`, `References`), so an assignment once right stays right; and Commit changes
  the modifiers of the keymaps only, for any number of them, by an argument from the least
  keymap at which it would not.
* `LastSubstWins` and `SequencesFilled` are about what Commit makes of what waits. That
  the waiting commands are the script's, in its order, and that a named shell is one and
  the same for every registration of the name, is invariant (`Pending`, `Shells`). The
  folds are taken apart as above: of the flattened substitutes it is known which command
  one is of, so the last one for a key is of the last command that gives one; a body under
  way is what the actions read so far say, each at its place (`Obeys`); and the table only
  grows by sequences without a name (`Later`), so a reference resolved early means at the
  end what it meant, and a forward one finds its shell. Of several registrations of a name
  the last is the last to fill the shell. `CommandsAssumption` says that the lists of a
  command are lists and that an action is of one of the four kinds `cmd_stream.h` has.
* `ModifiersFolded` compares two readings of the same statements. While the script comes,
  a keymap's list follows it entry by entry (`Told`, `Follows`): a key has at most one
  entry, it is of the last statement that names the key, and an `=` stands at the head
  only. Of the fold in `adjustModifier()` it is known after each entry what the entries
  read so far say of every key (`LeftBy`), and over the keymaps in their order that those
  before are done and those behind untouched (`AdjustedTo`): a parent created before its
  child is adjusted when the child begins with its list. `CommandsAssumption` also says
  that the keys of an `AssignMod` are a list and its operator one of the three of
  `cmd_processor.cpp:412`. The attempt failed on "erase redundant modifiers", which stops
  at the first entry it has erased (`keymap.cpp:373`); the third of the cases that
  the property leaves out (section 3) is what it found.
* In the same module, for `LogStream`: sections exclude each other (`Exclusion`), though not
  the UI thread's lines outside of them, and while there is no such line the buffer holds
  `Open` text and that of the section's message only (`BufferedByItsMessage`). The
  agreement of the flag, the queue and the text messages have kept needs that the flag
  stays up until the handler is done (`FlagUp`). Text without a notification does not
  disturb it, since it can only make `notify()` announce more.

Proved and checked by no run, since the theorem says more than one: type correctness of
the ten modules, `ButtonsTracked`, `StaleDragDropped`, `OnlyOwnerEndsDrag`, `CountsExact`,
`WindowGuarded`, `SyncKeyOnlyInSync`, `FrontExists`, `UnlockedForgets`.

Model-checked only: all liveness (`ResyncServed`, `ShutdownUnparks`, `EngineNeverStalls`,
`ShutdownCompletes`, `DeliversNewest`, `QuitEnds`, `TextShown`), which the prover has no
rules for; and `ReadAsWritten`, whose two readings of a text are recursive operators over
its nesting.

## 5. Not modelled

* `KeyState`: keys with several scan codes (`searchPrefixKey()` and its `continue`, which
  keeps the codes collected so far, `engine.cpp:1603`); the unconditional release of the
  sync key (that is in `EngineSync`). A button that goes by because the Setting has no mouse
  events (`engine.cpp:1273`) is one that goes by while the engine is disabled.
* `EngineSync`: the `WM_COPYDATA` fallback of `notify()`, which runs `notifyHandler()`
  on the UI thread; several applications; the console case in which `&Sync` returns. A lock
  key is toggled in a hooked window and reported at once; nobody reports one that is
  toggled in a window without a hook.
* `MouseDrag`: coordinates, DPI and the cursor's movement.
* `InputQueue`: more than one hook thread at a time is left to the proofs.
* `Focus`: a restart of nyamy (that is in `HookNotify`); memory of an erased entry that
  holds anything but what it held, a new entry, or something unequal to what it is compared
  with; a thread that has reported its end and still has the keyboard, since its windows
  outlive `DLL_THREAD_DETACH` for a moment; a window handle that is used again; classes and
  titles that change (doc: known limitations 2.1).
* `HookNotify`: several hooked processes; notifications other than attach, focus and
  detach, among them the resynchronising ones of a `&Sync`; a view of `g_hookData` that
  cannot be mapped; a session that ends without the destructor of `Mayu`. What a thread
  with no focus (`NULL`) makes nyamy forget is not reported by the code, and so not told.
* `PrefixKeys`: substitutes, lock modifiers, `&Repeat`, the modifier events generated
  around a key; assignments and actions that name a press or a release by its opposite
  (`~U-`, `~D-`), of which the first match one half of a key without the whole sequence
  being run for it; `U-` and `D-` are modelled; the crash of a `&KeymapPrevPrefix` that reads beyond the history.
* `SettingBuild`: DefSync, DefSymbol, other options, the redefinition of a key; a
  modifier name `AssignMod` does not know, which reads an uninitialised variable
  (`cmd_processor.cpp:419`); the materializer of ad-hoc sequences; a Reset after Commit.
* `Scripter`: a Start that does not fit into the pipe; a `PostMessage()` that fails; the
  handles a failed `CreateProcess()` leaks. The msg reader is not told apart from the
  data reader.
* `ScripterProcess`: symbols and log levels of Start, and the levels of lines: the warning
  about a dropped user function is always written; the Quit message and the closing of
  the pipe are one step. A scripter of the model may get several Starts, one of the program
  gets one, since a reload launches another with pipes of its own: the model does more than
  the program here.
* `SettingScript`, `MayuText`: the lexer; statements other than conditionals, `define`, `include`,
  `key` and `keyseq`; errors the compiler reports; files that include themselves; what a
  script does with an index that is -1 or from before a reset. The caller resets: the
  documentation of the C API describes loading after a reset, which the code leaves to
  the caller.
* `LogStream`: order and number of the pieces of text, time stamps, nested acquisition; a
  crash in the buffer two threads write to at once, where the model loses or repeats text;
  each line of the menu item "check" is a step of its own.
* Of the source as a whole the map covers about an eighth. The larger part of the rest
  has no state of its own a model could relate: the headers of mruby, the mruby binding
  (one C function per API call), dialogs and controls, the window and clipboard functions
  (each a call of the Windows API), registry and file access, string conversion.

## 6. Plan

What is left, in this order.

1. `CmdStream`: writers and readers of the two command streams as tables of fields;
   property: they agree, and a cut is noticed at every place but between commands.
2. `WindowFunctions`: `&WindowMaximize`, `&WindowMove` and the geometry of monitors.
3. `GenModifiers`: `generateModifierEvents()` with the Alt and Windows key taps, as a
   function from held and wanted modifiers to events. Property: a key is pressed under the
   modifiers its assignment asks for. The case to look at: the tap that follows an Alt key
   presses and releases the first Shift key (`engine.cpp:516`), which may be held and wanted.
4. `Shutdown`: composes the ends of `InputQueue`, `EngineSync` and `Scripter` with the
   bounded waits before `cleanupAfterStop()`. Property: nobody uses the queue after.
5. Ad-hoc sequences through their materializer; keys with several scan codes.
