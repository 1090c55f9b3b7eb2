------------------------------ MODULE Scripter -------------------------------
(***************************************************************************)
(* ScripterManager: the scripter process is started, reloaded and ended,   *)
(* and the Settings it builds reach the engine.  Five actors take part:    *)
(*                                                                         *)
(*   the UI thread       load(), setLogLevel(), WM_APP_scripterSettingReady*)
(*                       and ~Mayu                                         *)
(*   the launcher        launchScripter() on its std::async task           *)
(*   the engine thread   execUserFunc()                                    *)
(*   reader threads      runReader(), one for each scripter that was       *)
(*                       started; the msg thread shares its handles, its   *)
(*                       stop event and its waits and is not told apart    *)
(*   scripter processes  which may do anything, at any speed               *)
(*                                                                         *)
(* A scripter is named by its generation, the number of the pipes it was   *)
(* given.  Pipes of an earlier generation are gone: writing to one fails.  *)
(* A Setting is named by the order in which the scripters committed it.    *)
(***************************************************************************)
EXTENDS Naturals, Sequences

CONSTANTS
  MaxLoad,     \* bound: reloads asked for
  MaxCommit,   \* bound: Settings the scripters build
  MaxExec,     \* bound: user functions the engine calls
  MaxLevel,    \* bound: changes of the log threshold
  CtrlCap,     \* messages the ctrl pipe holds
  DataCap      \* Settings the data pipe holds

ASSUME BoundsAssumption ==
  /\ MaxLoad \in Nat /\ MaxCommit \in Nat /\ MaxExec \in Nat /\ MaxLevel \in Nat
  /\ CtrlCap \in Nat \ {0} /\ DataCap \in Nat \ {0}

VARIABLES
  ui,          \* where the UI thread is: its loop, or a step of ~Mayu
  launch,      \* where launchScripter() is; "idle" when m_startFuture is ready
  engine,      \* does the engine thread wait to send ExecUserFunc?
  loads, commits, execs, levels,   \* what was done so far, for the bounds
  level,       \* the log threshold the user has chosen
  request,     \* the log threshold launchScripter() was called with
  gen,         \* generation of the last pipes
  process, thread, dataRead,       \* generation of each handle, 0 for none
  readerStop,  \* m_hReaderStop is set
  writer,      \* m_ctrlWriter and the mode of its pipe
  ctrlOpen,    \* m_hCtrlWrite of generation gen is open
  quitSent,
  ctrl,        \* messages in the ctrl pipe of generation gen
  data,        \* Settings in the data pipe of generation dataRead
  running,     \* scripters that run and were not terminated
  dying,       \* scripters TerminateProcess() was called for
  readers,     \* reader threads that have not returned
  told,        \* threshold the scripter of generation gen goes by, "none" before Start
  slot,        \* the pending Setting, 0 for none
  posted,      \* WM_ScripterSettingReady messages in the UI thread's queue
  newest,      \* history: the last Setting put into the slot
  given,       \* history: the last Setting given to the engine
  freed,       \* the input queue and this object are gone
  outlived     \* history: a reader survived both bounded waits of forceStop()

bounds == <<loads, commits, execs, levels>>
uiVars == <<level, given, freed>>
launchVars == <<request, gen>>
handles == <<process, thread, dataRead>>
ctrlVars == <<writer, ctrlOpen, quitSent, ctrl>>
childVars == <<running, dying, told>>
slotVars == <<slot, posted, newest>>
vars == <<ui, launch, engine, bounds, uiVars, launchVars, handles, readerStop,
          ctrlVars, data, childVars, readers, slotVars, outlived>>

Start(l) == [type |-> "Start", level |-> l]
SetLogLevel(l) == [type |-> "SetLogLevel", level |-> l]
ExecUserFunc == [type |-> "ExecUserFunc"]
Quit == [type |-> "Quit"]
Levels == {"normal", "detail"}
CtrlMessage == {Start(l) : l \in Levels} \cup {SetLogLevel(l) : l \in Levels}
                 \cup {ExecUserFunc, Quit}
Generation == 1..MaxLoad

Init ==
  /\ ui = "loop" /\ launch = "idle" /\ engine = "idle"
  /\ loads = 0 /\ commits = 0 /\ execs = 0 /\ levels = 0
  /\ level = "normal" /\ request = "normal"
  /\ gen = 0 /\ process = 0 /\ thread = 0 /\ dataRead = 0
  /\ readerStop = FALSE
  /\ writer = "none" /\ ctrlOpen = FALSE /\ quitSent = FALSE
  /\ ctrl = <<>> /\ data = <<>>
  /\ running = {} /\ dying = {} /\ readers = {} /\ told = "none"
  /\ slot = 0 /\ posted = 0 /\ newest = 0 /\ given = 0
  /\ freed = FALSE /\ outlived = FALSE

-----------------------------------------------------------------------------
(* The ctrl pipe, written under m_ctrlMutex. *)

\* launchScripter() holds m_ctrlMutex while it makes the writer and sends Start
CtrlMutexFree == launch \notin {"start", "setNonBlocking"}

Room == Len(ctrl) < CtrlCap

\* the scripter holds the only other end, so writing fails once it is gone
PipeBroken == gen \notin running \cup dying

\* what writing m does: a blocking write waits for room, the other drops m
Write(m) ==
  /\ writer = "blocking" => Room \/ PipeBroken
  /\ ctrl' = IF writer # "none" /\ Room /\ ~PipeBroken THEN Append(ctrl, m) ELSE ctrl

\* sendQuit(): Quit is the early notice, the closed pipe the guarantee
SendQuit ==
  /\ CtrlMutexFree
  /\ IF quitSent THEN UNCHANGED ctrlVars
     ELSE /\ quitSent' = TRUE
          /\ Write(Quit)
          /\ writer' = "none"
          /\ ctrlOpen' = FALSE

-----------------------------------------------------------------------------
(* forceStop(), called by the launcher and by ~Mayu. *)

\* Mutant of AllGone: the process only is waited for.
ProcessGone == process \notin running \cup dying

\* every handle of collectHandles() is signaled
AllGone == process \notin running \cup dying /\ thread \notin readers

Terminate ==
  /\ running' = running \ {process}
  /\ dying' = dying \cup (running \cap {process})
  /\ UNCHANGED told

\* everything is gone, or kScripterKillWaitMillisec is over
KillWait == outlived' = (outlived \/ thread \in readers)

\* closeHandles(): the pipes go with their handles
CloseHandles ==
  /\ process' = 0 /\ thread' = 0 /\ dataRead' = 0
  /\ data' = <<>>

-----------------------------------------------------------------------------
(* The UI thread. *)

uiOnly == <<launch, engine, launchVars, handles, readerStop, data, childVars,
            readers, outlived>>

\* Mayu::load(): a reload while a start is pending is dropped by start()
Load ==
  /\ ui = "loop" /\ loads < MaxLoad
  /\ loads' = loads + 1
  /\ IF launch = "idle" THEN launch' = "begin" /\ request' = level
                        ELSE UNCHANGED <<launch, request>>
  /\ UNCHANGED <<ui, engine, commits, execs, levels, uiVars, gen, handles,
                 readerStop, ctrlVars, data, childVars, readers, slotVars, outlived>>

\* the user changes the log threshold: setLogLevel()
ChangeLevel ==
  /\ ui = "loop" /\ levels < MaxLevel
  /\ CtrlMutexFree
  /\ levels' = levels + 1
  /\ level' \in Levels \ {level}
  /\ Write(SetLogLevel(level'))
  /\ UNCHANGED <<ui, loads, commits, execs, given, freed, writer, ctrlOpen,
                 quitSent, slotVars, uiOnly>>

\* WM_APP_scripterSettingReady: takePendingSetting(), then scheduleSetting()
TakeSetting ==
  /\ ui = "loop" /\ posted > 0
  /\ posted' = posted - 1
  /\ slot' = 0
  /\ given' = IF slot = 0 THEN given ELSE slot
  /\ UNCHANGED <<ui, bounds, level, freed, ctrlVars, newest, uiOnly>>

UiGoto(from, to) == ui = from /\ ui' = to

EndLoop ==
  /\ UiGoto("loop", "waitForPendingStart")
  /\ UNCHANGED <<bounds, uiVars, ctrlVars, slotVars, uiOnly>>

\* Mutant of WaitForPendingStart: ~Mayu does not wait for the launcher.
PassPendingStart ==
  /\ UiGoto("waitForPendingStart", "sendQuit")
  /\ UNCHANGED <<bounds, uiVars, ctrlVars, slotVars, uiOnly>>

WaitForPendingStart ==
  /\ UiGoto("waitForPendingStart", "sendQuit")
  /\ launch = "idle"
  /\ UNCHANGED <<bounds, uiVars, ctrlVars, slotVars, uiOnly>>

UiSendQuit ==
  /\ UiGoto("sendQuit", "stopReaders")
  /\ SendQuit
  /\ UNCHANGED <<bounds, uiVars, slotVars, uiOnly>>

UiStopReaders ==
  /\ UiGoto("stopReaders", "phaseD")
  /\ readerStop' = TRUE
  /\ UNCHANGED <<bounds, uiVars, ctrlVars, slotVars, launch, engine, launchVars,
                 handles, data, childVars, readers, outlived>>

\* Phase D waits for everything, or kScripterQuitGraceMillisec
UiWait ==
  /\ UiGoto("phaseD", "forceStop")
  /\ UNCHANGED <<bounds, uiVars, ctrlVars, slotVars, uiOnly>>

\* forceStop(0)
UiForceStop ==
  /\ readerStop' = TRUE
  /\ \/ AllGone /\ UiGoto("forceStop", "closeHandles") /\ UNCHANGED childVars
     \/ ~AllGone /\ UiGoto("forceStop", "killWait") /\ Terminate
  /\ UNCHANGED <<bounds, uiVars, ctrlVars, slotVars, launch, engine, launchVars,
                 handles, data, readers, outlived>>

UiKillWait ==
  /\ UiGoto("killWait", "closeHandles")
  /\ KillWait
  /\ UNCHANGED <<bounds, uiVars, ctrlVars, slotVars, launch, engine, launchVars,
                 handles, readerStop, data, childVars, readers>>

\* closeHandles(), reset() and cleanupAfterStop()
UiCloseHandles ==
  /\ UiGoto("closeHandles", "done")
  /\ CloseHandles
  /\ slot' = 0
  /\ freed' = TRUE
  /\ UNCHANGED <<bounds, level, given, launch, engine, launchVars, readerStop,
                 ctrlVars, childVars, readers, posted, newest, outlived>>

-----------------------------------------------------------------------------
(* The launcher: launchScripter(). *)

Goto(from, to) == launch = from /\ launch' = to

launchOnly == <<ui, engine, bounds, uiVars, request, readers, slotVars>>

\* a scripter that was started before has to go first
LaunchBegin ==
  /\ \/ process # 0 /\ Goto("begin", "quit")
     \/ process = 0 /\ Goto("begin", "pipes")
  /\ UNCHANGED <<launchOnly, gen, handles, readerStop, ctrlVars, data, childVars, outlived>>

LaunchQuit ==
  /\ Goto("quit", "stopReaders")
  /\ SendQuit
  /\ UNCHANGED <<launchOnly, gen, handles, readerStop, data, childVars, outlived>>

LaunchStopReaders ==
  /\ Goto("stopReaders", "grace")
  /\ readerStop' = TRUE
  /\ UNCHANGED <<launchOnly, gen, handles, ctrlVars, data, childVars, outlived>>

\* Mutant of LaunchGrace: the old scripter is given all the time it wants.
LaunchGraceForever ==
  /\ AllGone /\ Goto("grace", "close")
  /\ UNCHANGED <<launchOnly, gen, handles, readerStop, ctrlVars, data, childVars, outlived>>

LaunchGrace ==
  /\ \/ AllGone /\ Goto("grace", "close") /\ UNCHANGED childVars
     \/ ~AllGone /\ Goto("grace", "killWait") /\ Terminate
  /\ UNCHANGED <<launchOnly, gen, handles, readerStop, ctrlVars, data, outlived>>

LaunchKillWait ==
  /\ Goto("killWait", "close")
  /\ KillWait
  /\ UNCHANGED <<launchOnly, gen, handles, readerStop, ctrlVars, data, childVars>>

LaunchClose ==
  /\ Goto("close", "pipes")
  /\ CloseHandles
  /\ quitSent' = FALSE
  /\ UNCHANGED <<launchOnly, gen, readerStop, writer, ctrlOpen, ctrl, childVars, outlived>>

\* three pipes or none
LaunchPipes ==
  /\ \/ /\ Goto("pipes", "idle")
        /\ ctrlOpen' = FALSE /\ dataRead' = 0
        /\ UNCHANGED <<gen, ctrl, data, told>>
     \/ /\ Goto("pipes", "spawn")
        /\ gen' = gen + 1
        /\ ctrlOpen' = TRUE /\ dataRead' = gen'
        /\ ctrl' = <<>> /\ data' = <<>> /\ told' = "none"
  /\ UNCHANGED <<launchOnly, process, thread, readerStop, writer, quitSent,
                 running, dying, outlived>>

\* CreateProcess(); when it fails the ends nyamy has opened stay open
LaunchSpawn ==
  /\ \/ Goto("spawn", "idle") /\ UNCHANGED <<process, running>>
     \/ Goto("spawn", "lock") /\ process' = gen /\ running' = running \cup {gen}
  /\ UNCHANGED <<launchOnly, gen, thread, dataRead, readerStop, ctrlVars, data,
                 dying, told, outlived>>

\* under m_ctrlMutex from here: the writer, ResetEvent(), the reader threads
LaunchThreads ==
  /\ Goto("lock", "start")
  /\ writer' = "blocking"
  /\ readerStop' = FALSE
  /\ thread' = gen
  /\ readers' = readers \cup {gen}
  /\ UNCHANGED <<ui, engine, bounds, uiVars, launchVars, process, dataRead,
                 ctrlOpen, quitSent, ctrl, data, childVars, slotVars, outlived>>

\* Start carries the threshold load() had found
LaunchStart ==
  /\ Goto("start", "setNonBlocking")
  /\ Write(Start(request))
  /\ UNCHANGED <<launchOnly, gen, handles, readerStop, writer, ctrlOpen, quitSent,
                 data, childVars, outlived>>

\* Mutant of LaunchSetNonBlocking: the pipe stays as it is.
LaunchStayBlocking ==
  /\ Goto("setNonBlocking", "idle")
  /\ UNCHANGED <<launchOnly, gen, handles, readerStop, ctrlVars, data, childVars,
                 outlived>>

LaunchSetNonBlocking ==
  /\ Goto("setNonBlocking", "idle")
  /\ writer' = "nonblocking"
  /\ UNCHANGED <<launchOnly, gen, handles, readerStop, ctrlOpen, quitSent, ctrl,
                 data, childVars, outlived>>

-----------------------------------------------------------------------------
(* The engine thread: execUserFunc(). *)

engineOnly == <<ui, launch, loads, commits, levels, uiVars, launchVars, handles,
                readerStop, writer, ctrlOpen, quitSent, data, childVars, readers,
                slotVars, outlived>>

CallUserFunc ==
  /\ engine = "idle" /\ execs < MaxExec /\ ~freed
  /\ engine' = "exec"
  /\ execs' = execs + 1
  /\ UNCHANGED <<engineOnly, ctrl>>

SendUserFunc ==
  /\ engine = "exec"
  /\ CtrlMutexFree
  /\ Write(ExecUserFunc)
  /\ engine' = "idle"
  /\ UNCHANGED <<engineOnly, execs>>

-----------------------------------------------------------------------------
(* The reader threads: runReader() and its onCommit(). *)

\* a handle that was closed under its reader may be another pipe's by now
Readable(g) == dataRead # 0 /\ (dataRead = g \/ g # thread)

\* Mutant of Slot: a Setting that was not fetched is kept.
KeepPending(old, new) == IF old = 0 THEN new ELSE old

\* setPendingSetting(): exchange() releases what was pending
Slot(old, new) == new

\* what is in the pipe is read although the stop event is set
ReadSetting(g) ==
  /\ g \in readers
  /\ Readable(g) /\ data # <<>>
  /\ data' = Tail(data)
  /\ slot' = Slot(slot, Head(data)) /\ newest' = Head(data)
  /\ posted' = posted + 1
  /\ UNCHANGED <<ui, launch, engine, bounds, uiVars, launchVars, handles,
                 readerStop, ctrlVars, childVars, readers, outlived>>

\* the end of the stream: the scripter's, or the stop event
EndReader(g) ==
  /\ g \in readers
  /\ data = <<>> \/ ~Readable(g)
  /\ \/ readerStop \/ g \notin running \cup dying \/ dataRead # g
  /\ readers' = readers \ {g}
  /\ UNCHANGED <<ui, launch, engine, bounds, uiVars, launchVars, handles,
                 readerStop, ctrlVars, data, childVars, slotVars, outlived>>

-----------------------------------------------------------------------------
(* The scripter processes. *)

childOnly == <<ui, launch, engine, loads, execs, levels, uiVars, launchVars,
               handles, readerStop, writer, ctrlOpen, quitSent, readers, slotVars,
               outlived>>

\* Start and SetLogLevel tell the threshold
ChildReads ==
  /\ gen \in running /\ ctrl # <<>>
  /\ ctrl' = Tail(ctrl)
  /\ told' = LET m == Head(ctrl) IN IF m \in {ExecUserFunc, Quit} THEN told ELSE m.level
  /\ UNCHANGED <<childOnly, commits, data, running, dying>>

\* Reset .. Commit, at Start or from a user function
ChildCommits ==
  /\ gen \in running /\ told # "none"
  /\ commits < MaxCommit
  /\ dataRead = gen /\ Len(data) < DataCap
  /\ commits' = commits + 1
  /\ data' = Append(data, commits + 1)
  /\ UNCHANGED <<childOnly, ctrl, running, dying, told>>

\* it quits, crashes or is terminated at last
ChildEnds(g) ==
  /\ g \in running \cup dying
  /\ running' = running \ {g}
  /\ dying' = dying \ {g}
  /\ UNCHANGED <<childOnly, commits, ctrl, data, told>>

-----------------------------------------------------------------------------
Shutdown ==
  \/ WaitForPendingStart \/ UiSendQuit \/ UiStopReaders \/ UiWait
  \/ UiForceStop \/ UiKillWait \/ UiCloseHandles

Launch ==
  \/ LaunchBegin \/ LaunchQuit \/ LaunchStopReaders \/ LaunchGrace
  \/ LaunchKillWait \/ LaunchClose \/ LaunchPipes \/ LaunchSpawn
  \/ LaunchThreads \/ LaunchStart \/ LaunchSetNonBlocking

Next ==
  \/ Load \/ ChangeLevel \/ TakeSetting \/ EndLoop \/ Shutdown
  \/ Launch
  \/ CallUserFunc \/ SendUserFunc
  \/ ChildReads \/ ChildCommits
  \/ \E g \in Generation : ReadSetting(g) \/ EndReader(g) \/ ChildEnds(g)

Spec == Init /\ [][Next]_vars

\* The threads of nyamy run while they can and its waits are bounded.  Nothing is
\* assumed of the user, of the scripters or of how soon a reader is scheduled.
FairSpec ==
  /\ Spec
  /\ WF_vars(TakeSetting) /\ WF_vars(Shutdown) /\ WF_vars(Launch)
  /\ WF_vars(SendUserFunc)

-----------------------------------------------------------------------------
TypeOK ==
  /\ ui \in {"loop", "waitForPendingStart", "sendQuit", "stopReaders", "phaseD",
             "forceStop", "killWait", "closeHandles", "done"}
  /\ launch \in {"idle", "begin", "quit", "stopReaders", "grace", "killWait",
                 "close", "pipes", "spawn", "lock", "start", "setNonBlocking"}
  /\ engine \in {"idle", "exec"}
  /\ loads \in 0..MaxLoad /\ commits \in 0..MaxCommit
  /\ execs \in 0..MaxExec /\ levels \in 0..MaxLevel
  /\ level \in Levels /\ request \in Levels /\ told \in Levels \cup {"none"}
  /\ gen \in 0..MaxLoad
  /\ process \in 0..MaxLoad /\ thread \in 0..MaxLoad /\ dataRead \in 0..MaxLoad
  /\ writer \in {"none", "blocking", "nonblocking"}
  /\ readerStop \in BOOLEAN /\ ctrlOpen \in BOOLEAN /\ quitSent \in BOOLEAN
  /\ ctrl \in Seq(CtrlMessage) /\ Len(ctrl) <= CtrlCap
  /\ data \in Seq(1..MaxCommit) /\ Len(data) <= DataCap
  /\ running \subseteq Generation /\ dying \subseteq Generation
  /\ readers \subseteq Generation
  /\ slot \in 0..MaxCommit /\ posted \in 0..MaxCommit
  /\ newest \in 0..MaxCommit /\ given \in 0..MaxCommit
  /\ freed \in BOOLEAN /\ outlived \in BOOLEAN

\* No scripter outlives nyamy unterminated, whenever the user quits: in the
\* middle of a reload, of a launch, or with a scripter that hangs.
NoOrphan == ui = "done" => running = {}

\* A reader thread never uses handles that were closed or given to its
\* successor, nor an engine whose input queue is gone, unless it was kept from
\* running through both of the bounded waits for it.
ReadersGone == ~outlived => \A g \in readers : g = thread /\ g = dataRead /\ ~freed

\* The engine thread comes back from every user function it calls, in the middle
\* of a reload too and with a scripter that has stopped reading.
EngineNeverStalls == (engine = "exec") ~> (engine = "idle")

\* Quitting nyamy takes bounded time whatever the launcher, the readers and the
\* scripters are doing.
ShutdownCompletes == (ui = "waitForPendingStart") ~> (ui = "done")

\* The slot implements the register of the newest Setting, until the message loop
\* ends or a reader outlives its scripter.
Newest == INSTANCE NewestSetting WITH
  offered <- newest, given <- given, closed <- (ui # "loop" \/ outlived)
DeliversNewest == Newest!FairSpec

-----------------------------------------------------------------------------
(* What the sources say of the log threshold, and the code does not do. *)

\* Once a scripter is started and nothing is on its way to it, it goes by the
\* threshold the user has chosen: what setLogLevel() could not send, start() does.
LevelCarried ==
  (launch = "idle" /\ gen \in running /\ ctrl = <<>> /\ told # "none" /\ execs = 0
     /\ ui = "loop") => told = level
=============================================================================
