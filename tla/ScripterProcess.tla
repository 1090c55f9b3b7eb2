--------------------------- MODULE ScripterProcess ---------------------------
(***************************************************************************)
(* One scripter process and what nyamy does with what it sends.            *)
(*                                                                         *)
(*   the ctrl thread     reads Start, ExecUserFunc and Quit from the ctrl  *)
(*                       pipe into the JobQueue, then watches over the end *)
(*   the script thread   nys_start(): loads a setting and flushes it, or   *)
(*                       runs a user function, which sends key sequences   *)
(*   nyamy's readers     runReader() with its CmdProcessor, and the reader *)
(*                       of the log lines                                  *)
(*   the UI thread and the engine, which get the Settings one way and the  *)
(*                       ad-hoc key sequences another                      *)
(*                                                                         *)
(* A load is named by the number of its Start.  A Setting is the sequence  *)
(* of the loads its commands came from.  Commands are written byte by      *)
(* byte; Def stands for every command with a payload between Reset and     *)
(* Commit, and a payload is read in a second step.                         *)
(***************************************************************************)
EXTENDS Naturals, Sequences, FiniteSets

CONSTANTS
  MaxStart,     \* bound: Start messages
  MaxExec,      \* bound: ExecUserFunc messages
  MaxKeySeq,    \* bound: key sequences the user functions send
  MaxPending,   \* kMaxPendingExecUserFunc
  Defs,         \* definitions in a setting
  DataCap,      \* pieces the data pipe holds
  MsgCap        \* lines the message pipe holds

ASSUME BoundsAssumption ==
  /\ MaxStart \in Nat /\ MaxExec \in Nat /\ MaxKeySeq \in Nat
  /\ MaxPending \in Nat \ {0} /\ Defs \in Nat
  /\ DataCap \in Nat \ {0} /\ MsgCap \in Nat \ {0}

VARIABLES
  starts, execs, keySeqs,   \* messages sent so far
  ctrl,          \* the ctrl pipe
  ctrlClosed,    \* nyamy closed it
  stopped,       \* nyamy's readers are told to stop: m_hReaderStop
  process,       \* "alive", or how it ended
  watchdog,      \* where the ctrl thread is
  jobs,          \* m_jobs
  script,        \* where the script thread is
  loaded,        \* the load g_userFuncs belong to, 0 for none
  step,          \* pieces of the flush, or of a key sequence, written so far
  msgs,          \* lines in the message pipe
  msgReader,     \* is runMsgReader() running?
  data,          \* pieces in the data pipe
  reader,        \* is runReader() running?
  reading,       \* the command whose payload is awaited
  block,         \* m_builder's Setting so far
  committed,     \* m_committed
  slot, posted,  \* the pending Setting and its notifications
  events,        \* Settings and ad-hoc sequences in the input queue
  setting,       \* the engine's m_setting
  failed,        \* history: loads whose flush was given up
  ran,           \* history: the ad-hoc sequence run last
  nyamy          \* "up", "gone", or "aborted" by an exception nobody catches

sentVars == <<starts, execs>>
ctrlVars == <<ctrl, ctrlClosed, watchdog>>
scriptVars == <<script, loaded, step, keySeqs, failed>>
msgVars == <<msgs, msgReader>>
readerVars == <<reader, reading, block, committed>>
slotVars == <<slot, posted>>
engineVars == <<events, setting, ran>>
vars == <<sentVars, ctrlVars, stopped, process, jobs, scriptVars, msgVars, data,
          readerVars, slotVars, engineVars, nyamy>>

NoLoad == 0
None == <<NoLoad>>       \* no Setting

\* what a load may have been written from, the first k definitions of load n, and
\* all of them
Blocks == UNION {[1..k -> 1..MaxStart] : k \in 0..Defs}
Part(n, k) == [i \in 1..k |-> n]
Whole(n) == Part(n, Defs)
Start(n) == [type |-> "Start", load |-> n]
ExecUserFunc(n) == [type |-> "ExecUserFunc", load |-> n]
Quit == [type |-> "Quit", load |-> NoLoad]
Job == {Start(n) : n \in 1..MaxStart} \cup {ExecUserFunc(n) : n \in 0..MaxStart} \cup {Quit}

\* the pieces of the data stream
Id(cmd) == [id |-> cmd, load |-> NoLoad]
Payload(n) == [id |-> "payload", load |-> n]

\* what a flush of load n writes, and what one key sequence of it is
Flush(n) ==
  [i \in 1..(2 * Defs + 2) |->
     CASE i = 1 -> Id("Reset")
       [] i = 2 * Defs + 2 -> Id("Commit")
       [] \E d \in 1..Defs : i = 2 * d -> Id("Def")
       [] \E d \in 1..Defs : i = 2 * d + 1 -> Payload(n)]
ExecKeySeq(n) == <<Id("ExecKeySeq"), Payload(n)>>
Piece == {Id(c) : c \in {"Reset", "Def", "Commit", "ExecKeySeq"}}
           \cup {Payload(n) : n \in 1..MaxStart}

SettingEvent(s) == [type |-> "Setting", origin |-> s, load |-> NoLoad]
AdHocEvent(s, n) == [type |-> "AdHoc", origin |-> s, load |-> n]
Event == [type : {"Setting", "AdHoc"}, origin : Blocks \cup {None}, load : 0..MaxStart]

Init ==
  /\ starts = 0 /\ execs = 0 /\ keySeqs = 0
  /\ ctrl = <<>> /\ ctrlClosed = FALSE /\ stopped = FALSE
  /\ process = "alive" /\ watchdog = "reading"
  /\ jobs = <<>>
  /\ script = "pop" /\ loaded = NoLoad /\ step = 0 /\ failed = {}
  /\ msgs = 0 /\ msgReader = TRUE /\ data = <<>>
  /\ reader = TRUE /\ reading = "none" /\ block = None /\ committed = None
  /\ slot = None /\ posted = 0
  /\ events = <<>> /\ setting = None /\ ran = AdHocEvent(None, NoLoad)
  /\ nyamy = "up"

Alive == process = "alive"
Up == nyamy = "up"

-----------------------------------------------------------------------------
(* nyamy writes to the ctrl pipe, and ends the scripter. *)

fromNyamy == <<watchdog, process, jobs, scriptVars, msgVars, data, readerVars,
               slotVars, engineVars, nyamy>>

\* A scripter gets one Start in its life, since a reload launches another; the
\* process would take more, and its job queue has a rule for them.
SendStart ==
  /\ Up /\ ~ctrlClosed /\ starts < MaxStart
  /\ starts' = starts + 1
  /\ ctrl' = Append(ctrl, Start(starts + 1))
  /\ UNCHANGED <<execs, ctrlClosed, stopped, fromNyamy>>

\* a key of the Setting of some load calls a user function
SendExecUserFunc ==
  /\ Up /\ ~ctrlClosed /\ execs < MaxExec
  /\ execs' = execs + 1
  /\ ctrl' = Append(ctrl, ExecUserFunc(starts))
  /\ UNCHANGED <<starts, ctrlClosed, stopped, fromNyamy>>

\* sendQuit(): the pipe was closed is what the scripter is sure to see
CloseCtrl ==
  /\ Up /\ ~ctrlClosed
  /\ ctrlClosed' = TRUE
  /\ UNCHANGED <<sentVars, ctrl, stopped, fromNyamy>>

StopReaders ==
  /\ Up /\ ctrlClosed /\ ~stopped
  /\ stopped' = TRUE
  /\ UNCHANGED <<sentVars, ctrl, ctrlClosed, fromNyamy>>

\* forceStop() after its grace, which is longer than the watchdog's: what the
\* watchdog can do by then it has done, so it is wedged or waits for room
ForceStop ==
  /\ Up /\ stopped /\ Alive
  /\ \/ watchdog = "reading"
     \/ watchdog \in {"dropping", "logging"} /\ msgs = MsgCap /\ ~msgReader
  /\ process' = "terminated"
  /\ UNCHANGED <<sentVars, ctrlVars, stopped, jobs, scriptVars, msgVars, data,
                 readerVars, slotVars, engineVars, nyamy>>

-----------------------------------------------------------------------------
(* The JobQueue and the ctrl thread. *)

\* writing waits for room, and fails at once when nyamy is not there any more
WriteLine ==
  IF Up THEN msgs < MsgCap /\ msgs' = msgs + 1 ELSE UNCHANGED msgs
Write(piece) ==
  IF Up THEN Len(data) < DataCap /\ data' = Append(data, piece) ELSE UNCHANGED data

IsExec(j) == j.type = "ExecUserFunc"

\* Mutant of PushStart: what was queued before it stays.
PushStartAlone(q, j) == Append(q, j)

\* the jobs of a queue that are not user functions
Kept(q) ==
  LET kept[i \in 0..Len(q)] ==
        IF i = 0 THEN <<>>
        ELSE IF IsExec(q[i]) THEN kept[i - 1]
        ELSE Append(kept[i - 1], q[i])
  IN kept[Len(q)]

\* the ExecUserFunc jobs of the load that is replaced are dropped
PushStart(q, j) == Append(Kept(q), j)

Waiting(q) == Cardinality({i \in 1..Len(q) : IsExec(q[i])})
Full(q) == Waiting(q) >= MaxPending

\* the newest is dropped, so that what does run stays in order
PushExec(q, j) == IF Full(q) THEN q ELSE Append(q, j)

ctrlOnly == <<sentVars, ctrlClosed, stopped, scriptVars, msgReader, data,
              readerVars, slotVars, engineVars, nyamy>>

ReadCtrl ==
  /\ Alive /\ watchdog = "reading" /\ ctrl # <<>>
  /\ ctrl' = Tail(ctrl)
  /\ jobs' = IF IsExec(Head(ctrl)) THEN PushExec(jobs, Head(ctrl))
                                   ELSE PushStart(jobs, Head(ctrl))
  /\ watchdog' = IF IsExec(Head(ctrl)) /\ Full(jobs) THEN "dropping" ELSE "reading"
  /\ UNCHANGED <<ctrlOnly, process, msgs>>

\* it says that it dropped one, before it reads on
LogDropped ==
  /\ Alive /\ watchdog = "dropping"
  /\ WriteLine
  /\ watchdog' = "reading"
  /\ UNCHANGED <<ctrlOnly, ctrl, jobs, process>>

\* Mutant of EndOfCtrl: nobody watches over the script.
EndOfCtrlUnwatched ==
  /\ Alive /\ watchdog = "reading" /\ ctrl = <<>> /\ ctrlClosed
  /\ jobs' = Append(jobs, Quit)
  /\ watchdog' = "over"
  /\ UNCHANGED <<ctrlOnly, ctrl, process, msgs>>

EndOfCtrl ==
  /\ Alive /\ watchdog = "reading" /\ ctrl = <<>> /\ ctrlClosed
  /\ jobs' = Append(jobs, Quit)
  /\ watchdog' = "waiting"
  /\ UNCHANGED <<ctrlOnly, ctrl, process, msgs>>

\* the script is done, or it is late
WatchdogWakes ==
  /\ Alive /\ watchdog = "waiting"
  /\ watchdog' = IF script = "done" THEN "over" ELSE "logging"
  /\ UNCHANGED <<ctrlOnly, ctrl, jobs, process, msgs>>

\* it says so, then terminates the process
WatchdogTerminates ==
  /\ Alive /\ watchdog = "logging"
  /\ WriteLine
  /\ process' = "gone"
  /\ UNCHANGED <<ctrlOnly, ctrl, jobs, watchdog>>

Exit ==
  /\ Alive /\ script = "done" /\ watchdog = "over"
  /\ process' = "gone"
  /\ UNCHANGED <<ctrlOnly, ctrl, jobs, watchdog, msgs>>

-----------------------------------------------------------------------------
(* The script thread: nys_start(). *)

scriptOnly == <<sentVars, ctrlVars, stopped, process, msgReader, readerVars,
                slotVars, engineVars, nyamy>>

PopStart ==
  /\ Alive /\ script = "pop" /\ jobs # <<>> /\ Head(jobs).type = "Start"
  /\ jobs' = Tail(jobs)
  /\ loaded' = Head(jobs).load
  /\ script' = "load"
  /\ UNCHANGED <<scriptOnly, step, keySeqs, failed, msgs, data>>

\* a handler is called if the load registered any
PopExec ==
  /\ Alive /\ script = "pop" /\ jobs # <<>> /\ IsExec(Head(jobs))
  /\ jobs' = Tail(jobs)
  /\ script' = IF loaded = NoLoad THEN "pop" ELSE "exec"
  /\ UNCHANGED <<scriptOnly, loaded, step, keySeqs, failed, msgs, data>>

PopQuit ==
  /\ Alive /\ script = "pop" /\ jobs # <<>> /\ Head(jobs) = Quit
  /\ jobs' = Tail(jobs)
  /\ script' = "done"
  /\ UNCHANGED <<scriptOnly, loaded, step, keySeqs, failed, msgs, data>>

\* on_load_setting() returns, or it does not
Load ==
  /\ Alive /\ script = "load"
  /\ \/ script' = "flush" /\ UNCHANGED loaded
     \/ script' = "pop" /\ loaded' = NoLoad
  /\ UNCHANGED <<scriptOnly, jobs, step, keySeqs, failed, msgs, data>>

WriteFlush ==
  /\ Alive /\ script = "flush" /\ step < Len(Flush(loaded))
  /\ Write(Flush(loaded)[step + 1])
  /\ step' = step + 1
  /\ UNCHANGED <<scriptOnly, jobs, script, loaded, keySeqs, failed, msgs>>

\* an included file does not parse or compile: no Commit
GiveUpFlush ==
  /\ Alive /\ script = "flush" /\ 0 < step /\ step < Len(Flush(loaded))
  /\ Flush(loaded)[step + 1].id # "payload"
  /\ script' = "pop" /\ step' = 0
  /\ failed' = failed \cup {loaded}
  /\ UNCHANGED <<scriptOnly, jobs, loaded, keySeqs, msgs, data>>

EndFlush ==
  /\ Alive /\ script = "flush" /\ step = Len(Flush(loaded))
  /\ script' = "pop" /\ step' = 0
  /\ UNCHANGED <<scriptOnly, jobs, loaded, keySeqs, failed, msgs, data>>

\* a user function sends a key sequence, nys_exec_keyseq(), or returns
WriteKeySeq ==
  /\ Alive /\ script = "exec"
  /\ step = 0 => keySeqs < MaxKeySeq
  /\ Write(ExecKeySeq(loaded)[step + 1])
  /\ step' = 1 - step
  /\ keySeqs' = IF step = 0 THEN keySeqs + 1 ELSE keySeqs
  /\ UNCHANGED <<scriptOnly, jobs, script, loaded, failed, msgs>>

EndExec ==
  /\ Alive /\ script = "exec" /\ step = 0
  /\ script' = "pop"
  /\ UNCHANGED <<scriptOnly, jobs, loaded, step, keySeqs, failed, msgs, data>>

\* the script, or the load, writes a line of log
Log ==
  /\ Alive /\ script \in {"load", "flush", "exec"}
  /\ WriteLine
  /\ UNCHANGED <<scriptOnly, jobs, scriptVars, data>>

\* it crashes
Crash ==
  /\ Alive
  /\ process' = "gone"
  /\ UNCHANGED <<sentVars, ctrlVars, stopped, jobs, scriptVars, msgVars, data,
                 readerVars, slotVars, engineVars, nyamy>>

-----------------------------------------------------------------------------
(* nyamy's readers: runMsgReader(), runReader() and CmdProcessor. *)

ReadMsg ==
  /\ Up /\ msgReader /\ msgs > 0
  /\ msgs' = msgs - 1
  /\ UNCHANGED <<sentVars, ctrlVars, stopped, process, jobs, scriptVars, msgReader,
                 data, readerVars, slotVars, engineVars, nyamy>>

EndOfMsgs ==
  /\ Up /\ msgReader /\ msgs = 0
  /\ stopped \/ ~Alive
  /\ msgReader' = FALSE
  /\ UNCHANGED <<sentVars, ctrlVars, stopped, process, jobs, scriptVars, msgs, data,
                 readerVars, slotVars, engineVars, nyamy>>

readOnly == <<sentVars, ctrlVars, stopped, process, jobs, scriptVars, msgVars,
              setting, ran>>

Receive(id) ==
  /\ Up /\ reader /\ reading = "none" /\ data # <<>>
  /\ Head(data) = Id(id)
  /\ data' = Tail(data)

\* Mutant of CmdReset: a block that was left open goes on.
CmdResetKeepsBlock ==
  /\ Receive("Reset")
  /\ block' = IF block = None THEN <<>> ELSE block
  /\ UNCHANGED <<readOnly, reader, reading, committed, slotVars, events, nyamy>>

\* beginSetting(): a block that was left open is discarded
CmdReset ==
  /\ Receive("Reset")
  /\ block' = <<>>
  /\ UNCHANGED <<readOnly, reader, reading, committed, slotVars, events, nyamy>>

\* outside of a block Commit is an error
CmdCommit ==
  /\ Receive("Commit")
  /\ IF block = None THEN UNCHANGED <<block, committed, slotVars>>
     ELSE /\ block' = None /\ committed' = block
          /\ slot' = block /\ posted' = posted + 1
  /\ UNCHANGED <<readOnly, reader, reading, events, nyamy>>

ReadId ==
  /\ \E id \in {"Def", "ExecKeySeq"} : Receive(id) /\ reading' = id
  /\ UNCHANGED <<readOnly, reader, block, committed, slotVars, events, nyamy>>

ReceivePayload(id) ==
  /\ Up /\ reader /\ reading = id /\ data # <<>>
  /\ data' = Tail(data)
  /\ reading' = "none"

CmdDef ==
  /\ ReceivePayload("Def")
  /\ block' = IF block = None THEN None ELSE Append(block, Head(data).load)
  /\ UNCHANGED <<readOnly, reader, committed, slotVars, events, nyamy>>

\* it is materialized against the last committed Setting and queued at once
CmdExecKeySeq ==
  /\ ReceivePayload("ExecKeySeq")
  /\ events' = IF committed = None THEN events
               ELSE Append(events, AdHocEvent(committed, Head(data).load))
  /\ UNCHANGED <<readOnly, reader, block, committed, slotVars, nyamy>>

\* The end of the stream between two commands ends the thread.  In the middle of
\* one readCmd() throws, and process() calls it outside of its try block.
EndOfData ==
  /\ Up /\ reader /\ data = <<>>
  /\ stopped \/ ~Alive
  /\ reader' = FALSE
  /\ nyamy' = IF reading = "none" THEN "up" ELSE "aborted"
  /\ ctrlClosed' = (ctrlClosed \/ reading # "none")
  /\ UNCHANGED <<sentVars, ctrl, watchdog, stopped, process, jobs, scriptVars,
                 msgs, msgReader, setting, ran, data, reading, block, committed,
                 slotVars, events>>

\* it ends in any other way
NyamyDies ==
  /\ Up
  /\ nyamy' = "gone"
  /\ ctrlClosed' = TRUE
  /\ UNCHANGED <<sentVars, ctrl, watchdog, stopped, process, jobs, scriptVars,
                 msgVars, data, readerVars, slotVars, engineVars>>

-----------------------------------------------------------------------------
(* The UI thread and the engine. *)

TakeSetting ==
  /\ Up /\ posted > 0
  /\ posted' = posted - 1
  /\ slot' = None
  /\ events' = IF slot = None THEN events ELSE Append(events, SettingEvent(slot))
  /\ UNCHANGED <<sentVars, ctrlVars, stopped, process, jobs, scriptVars, msgVars,
                 data, readerVars, setting, ran, nyamy>>

\* Mutant of Fits: an ad-hoc sequence is run in any Setting.
FitsAny(e) == TRUE

\* keyboardHandler(): an ad-hoc sequence of a Setting that was replaced, or is
\* not there yet, is discarded
Fits(e) == e.origin = setting

EngineTakes ==
  /\ Up /\ events # <<>>
  /\ events' = Tail(events)
  /\ LET e == Head(events)
     IN IF e.type = "Setting" THEN setting' = e.origin /\ UNCHANGED ran
        ELSE IF Fits(e) THEN ran' = AdHocEvent(setting, e.load) /\ UNCHANGED setting
        ELSE UNCHANGED <<setting, ran>>
  /\ UNCHANGED <<sentVars, ctrlVars, stopped, process, jobs, scriptVars, msgVars,
                 data, readerVars, slotVars, nyamy>>

-----------------------------------------------------------------------------
Watchdog ==
  ReadCtrl \/ LogDropped \/ EndOfCtrl \/ WatchdogWakes \/ WatchdogTerminates \/ Exit

Next ==
  \/ SendStart \/ SendExecUserFunc \/ CloseCtrl \/ StopReaders \/ ForceStop
  \/ Watchdog
  \/ PopStart \/ PopExec \/ PopQuit \/ Load \/ WriteFlush \/ GiveUpFlush
  \/ EndFlush \/ WriteKeySeq \/ EndExec \/ Log \/ Crash
  \/ ReadMsg \/ EndOfMsgs \/ CmdReset \/ CmdCommit \/ ReadId \/ CmdDef
  \/ CmdExecKeySeq \/ EndOfData \/ NyamyDies
  \/ TakeSetting \/ EngineTakes

Spec == Init /\ [][Next]_vars

\* The ctrl thread runs and its wait is bounded, it gets its turn at writing a line
\* among those of a script that never stops, and the message reader reads until
\* it is stopped.  A script may hang for ever.
FairSpec ==
  /\ Spec
  /\ WF_vars(Watchdog) /\ SF_vars(LogDropped) /\ SF_vars(WatchdogTerminates)
  /\ WF_vars(ReadMsg)

-----------------------------------------------------------------------------
TypeOK ==
  /\ starts \in 0..MaxStart /\ execs \in 0..MaxExec /\ keySeqs \in 0..MaxKeySeq
  /\ ctrl \in Seq(Job) /\ jobs \in Seq(Job)
  /\ Waiting(jobs) <= MaxPending
  /\ ctrlClosed \in BOOLEAN /\ stopped \in BOOLEAN /\ reader \in BOOLEAN
  /\ process \in {"alive", "gone", "terminated"}
  /\ watchdog \in {"reading", "dropping", "waiting", "logging", "over"}
  /\ script \in {"pop", "load", "flush", "exec", "done"}
  /\ loaded \in 0..MaxStart /\ step \in 0..(2 * Defs + 2)
  /\ msgs \in 0..MsgCap
  /\ data \in Seq(Piece) /\ Len(data) <= DataCap
  /\ reading \in {"none", "Def", "ExecKeySeq"}
  /\ {block, committed, slot, setting} \subseteq Blocks \cup {None}
  /\ posted \in Nat
  /\ events \in Seq(Event) /\ ran \in Event
  /\ failed \subseteq 1..MaxStart
  /\ msgReader \in BOOLEAN /\ nyamy \in {"up", "gone", "aborted"}

\* A Setting is only ever put together from one load, and from all of it: a load
\* that was given up in the middle, and a user function that sends its key
\* sequences in between, leave nothing behind in the next one.
CommittedWhole ==
  committed # None => \E n \in 1..MaxStart : committed = Whole(n)

\* A load is never kept waiting by user functions of the Setting it replaces: at
\* most the one that is running goes before it.
StartGoesFirst ==
  \A i, j \in 1..Len(jobs) :
    (i < j /\ jobs[j].type = "Start") => jobs[i].type = "Start"

\* A key sequence of a user function is only run in the Setting of the load that
\* wrote the function, though Settings and key sequences reach the engine in
\* different ways, unless the load's own Setting was given up.
AdHocInItsSetting ==
  (ran.load # NoLoad /\ ran.load \notin failed) => ran.origin = Whole(ran.load)

\* A scripter whose ctrl pipe is closed ends although its script hangs, whether
\* nyamy is there or not; nyamy's stopped readers are the only thing that can keep
\* it from ending itself.
QuitEnds == ctrlClosed ~> (~Alive \/ (Up /\ stopped))

-----------------------------------------------------------------------------
(* What the sources say, and the code does not do. *)

\* Whatever the data stream holds, and wherever it ends, nyamy survives it.
StreamNeverAborts == nyamy # "aborted"

\* The scripter terminates itself first: nyamy's TerminateProcess() is for one
\* that has not even started to.
TerminatesItselfFirst == process = "terminated" => watchdog = "reading"
=============================================================================
